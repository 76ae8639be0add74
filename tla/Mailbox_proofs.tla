--------------------------- MODULE Mailbox_proofs ---------------------------
(***************************************************************************)
(* Proofs about Mailbox: no message is lost or doubled by a pop, a parking, *)
(* a recovery, a rename or an unregistration; a send with an idempotency   *)
(* key may be repeated; a closed client never blocks; a rename moves what  *)
(* the old name held.                                                      *)
(***************************************************************************)
EXTENDS Mailbox, SequenceTheorems, FiniteSetTheorems, TLAPS

-----------------------------------------------------------------------------
(***************************************************************************)
(* Counting a message in lists.                                            *)
(***************************************************************************)

\* A list in two parts.
LEMMA SplitList ==
  ASSUME NEW S, NEW list \in Seq(S), NEW n \in 0..Len(list)
  PROVE  LET front == SubSeq(list, 1, n)
             rest == SubSeq(list, n + 1, Len(list))
         IN  /\ front \in Seq(S) /\ Len(front) = n
             /\ rest \in Seq(S) /\ Len(rest) = Len(list) - n
             /\ \A i \in 1..n : front[i] = list[i]
             /\ \A i \in 1..(Len(list) - n) : rest[i] = list[n + i]
             /\ Range(front) \subseteq Range(list) /\ Range(rest) \subseteq Range(list)
<1> DEFINE front == SubSeq(list, 1, n)
           rest == SubSeq(list, n + 1, Len(list))
<1>1. Len(list) \in Nat /\ n \in Nat /\ n <= Len(list) /\ DOMAIN list = 1..Len(list)
  OBVIOUS
<1>2. front \in Seq(S) /\ Len(front) = n /\ \A i \in 1..n : front[i] = list[i]
  BY <1>1
<1>3. \A i \in (n + 1)..Len(list) : list[i] \in S
  BY <1>1
<1>4. /\ rest \in Seq(S)
      /\ Len(rest) = IF n + 1 <= Len(list) THEN (Len(list) - (n + 1)) + 1 ELSE 0
      /\ \A i \in 1..((Len(list) - (n + 1)) + 1) : rest[i] = list[((n + 1) + i) - 1]
  BY SMTT(40), <1>1, <1>3, SubSeqProperties
<1> HIDE DEF front, rest
<1>5. Len(rest) = Len(list) - n
  <2>1. \A a, b \in Nat : a <= b => IF a + 1 <= b THEN (b - (a + 1)) + 1 = b - a ELSE 0 = b - a
    BY SMTT(40)
  <2> QED BY <1>1, <1>4, <2>1
<1>6. \A i \in 1..(Len(list) - n) : rest[i] = list[n + i] /\ n + i \in 1..Len(list)
  <2>1. (Len(list) - (n + 1)) + 1 = Len(list) - n
    BY <1>1
  <2>2. \A i \in 1..(Len(list) - n) : ((n + 1) + i) - 1 = n + i /\ n + i \in 1..Len(list)
    BY <1>1
  <2> QED BY <1>4, <2>1, <2>2
<1>7. DOMAIN front = 1..n /\ DOMAIN rest = 1..(Len(list) - n)
  BY <1>2, <1>4, <1>5
<1>8. Range(front) \subseteq Range(list)
  BY <1>1, <1>2, <1>7 DEF Range
<1>9. Range(rest) \subseteq Range(list)
  BY <1>1, <1>6, <1>7 DEF Range
<1> QED BY <1>2, <1>4, <1>5, <1>6, <1>8, <1>9 DEF front, rest

\* The positions of a message are a finite set of positions.
LEMMA PositionsFinite ==
  ASSUME NEW S, NEW s \in Seq(S), NEW m
  PROVE  /\ Positions(s, m) \subseteq 1..Len(s)
         /\ IsFiniteSet(Positions(s, m))
         /\ Count(s, m) \in Nat
<1>1. Positions(s, m) \subseteq 1..Len(s)
  BY DEF Positions
<1>2. IsFiniteSet(1..Len(s))
  BY FS_Interval
<1>3. IsFiniteSet(Positions(s, m))
  BY <1>1, <1>2, FS_Subset
<1> QED BY <1>1, <1>3, FS_CardinalityType DEF Count

\* Two finite sets without a common element, counted together.
LEMMA DisjointUnion ==
  ASSUME NEW A, NEW B, IsFiniteSet(A), IsFiniteSet(B), A \cap B = {}
  PROVE  /\ IsFiniteSet(A \cup B)
         /\ Cardinality(A \cup B) = Cardinality(A) + Cardinality(B)
<1>1. Cardinality(A) \in Nat /\ Cardinality(B) \in Nat
  BY FS_CardinalityType
<1>2. Cardinality(A \cap B) = 0
  BY FS_EmptySet
<1>3. IsFiniteSet(A \cup B)
      /\ Cardinality(A \cup B) = Cardinality(A) + Cardinality(B) - Cardinality(A \cap B)
  BY FS_Union
<1> QED BY <1>1, <1>2, <1>3

\* A joined list has the messages of both (RPUSH, LPUSH of several).
LEMMA CountJoin ==
  ASSUME NEW S, NEW a \in Seq(S), NEW b \in Seq(S), NEW m
  PROVE  Count(a \o b, m) = Count(a, m) + Count(b, m)
<1> DEFINE Shifted == {i \in (Len(a) + 1)..(Len(a) + Len(b)) : b[i - Len(a)] = m}
           f == [i \in Positions(b, m) |-> i + Len(a)]
<1>1. /\ IsFiniteSet(Positions(a, m)) /\ Positions(a, m) \subseteq 1..Len(a)
      /\ IsFiniteSet(Positions(b, m)) /\ Positions(b, m) \subseteq 1..Len(b)
      /\ Len(a) \in Nat /\ Len(b) \in Nat
  BY PositionsFinite
<1>2. \A i \in Positions(b, m) : f[i] \in Shifted
  BY <1>1 DEF Positions
<1>3. \A i \in Shifted : i - Len(a) \in Positions(b, m) /\ f[i - Len(a)] = i
  BY <1>1 DEF Positions
<1>4. f \in Bijection(Positions(b, m), Shifted)
  <2>1. f \in [Positions(b, m) -> Shifted]
    BY <1>2
  <2>2. \A i, j \in Positions(b, m) : f[i] = f[j] => i = j
    BY <1>1
  <2>3. \A j \in Shifted : \E i \in Positions(b, m) : f[i] = j
    BY <1>3
  <2> HIDE DEF f, Shifted
  <2>4. f \in Injection(Positions(b, m), Shifted)
    BY <2>1, <2>2 DEF Injection, IsInjective
  <2>5. f \in Surjection(Positions(b, m), Shifted)
    BY <2>1, <2>3 DEF Surjection
  <2> QED BY <2>4, <2>5 DEF Bijection
<1>5. IsFiniteSet(Shifted) /\ Cardinality(Shifted) = Cardinality(Positions(b, m))
  BY <1>1, <1>4, FS_Bijection DEF ExistsBijection
<1>6. Positions(a \o b, m) = Positions(a, m) \cup Shifted
  BY <1>1 DEF Positions
<1>7. Positions(a, m) \cap Shifted = {}
  BY <1>1
<1> HIDE DEF Shifted
<1> QED BY <1>1, <1>5, <1>6, <1>7, DisjointUnion DEF Count

\* How often a message is in a list of one.
Once(x, m) == IF x = m THEN 1 ELSE 0

LEMMA CountOne ==
  ASSUME NEW x, NEW m
  PROVE  Count(<<x>>, m) = Once(x, m)
<1>1. Positions(<<x>>, m) = IF x = m THEN {1} ELSE {}
  BY DEF Positions
<1> QED BY <1>1, FS_EmptySet, FS_Singleton DEF Count, Once

LEMMA CountNone ==
  ASSUME NEW m
  PROVE  Count(<<>>, m) = 0
<1>1. Positions(<<>>, m) = {}
  BY DEF Positions
<1> QED BY <1>1, FS_EmptySet DEF Count

LEMMA CountAppend ==
  ASSUME NEW S, NEW s \in Seq(S), NEW x \in S, NEW m
  PROVE  Count(Append(s, x), m) = Count(s, m) + Once(x, m)
<1>1. Append(s, x) = s \o <<x>> /\ <<x>> \in Seq(S)
  OBVIOUS
<1>2. Count(s \o <<x>>, m) = Count(s, m) + Count(<<x>>, m)
  BY <1>1, CountJoin
<1> QED BY <1>1, <1>2, CountOne

\* Popping the head (BLPOP).
LEMMA CountTail ==
  ASSUME NEW S, NEW s \in Seq(S), s # <<>>, NEW m
  PROVE  Count(s, m) = Once(Head(s), m) + Count(Tail(s), m)
<1>1. s = <<Head(s)>> \o Tail(s) /\ <<Head(s)>> \in Seq(S) /\ Tail(s) \in Seq(S)
  OBVIOUS
<1>2. Count(<<Head(s)>> \o Tail(s), m) = Count(<<Head(s)>>, m) + Count(Tail(s), m)
  BY <1>1, CountJoin
<1> QED BY <1>1, <1>2, CountOne

\* A list cut in two (LTRIM).
LEMMA CountSplit ==
  ASSUME NEW S, NEW s \in Seq(S), NEW n \in 0..Len(s), NEW m
  PROVE  Count(s, m) = Count(SubSeq(s, 1, n), m) + Count(SubSeq(s, n + 1, Len(s)), m)
<1> DEFINE a == SubSeq(s, 1, n)
           b == SubSeq(s, n + 1, Len(s))
<1>1. /\ a \in Seq(S) /\ Len(a) = n
      /\ b \in Seq(S) /\ Len(b) = Len(s) - n
      /\ \A i \in 1..n : a[i] = s[i]
      /\ \A i \in 1..(Len(s) - n) : b[i] = s[n + i]
  BY SplitList
<1> HIDE DEF a, b
<1>2. s = a \o b
  <2>1. a \o b \in Seq(S) /\ Len(a \o b) = Len(s)
    BY SMTT(40), <1>1
  <2>2. \A i \in 1..Len(s) : s[i] = (a \o b)[i]
    <3> SUFFICES ASSUME NEW i \in 1..Len(s) PROVE s[i] = (a \o b)[i]
      OBVIOUS
    <3>1. CASE i <= n
      BY <1>1, <3>1
    <3>2. CASE i > n
      <4>1. i - n \in 1..(Len(s) - n) /\ n + (i - n) = i
        BY <3>2
      <4>2. (a \o b)[i] = b[i - n]
        <5>1. /\ a \in Seq(S) /\ b \in Seq(S) /\ Len(a) = n /\ Len(a) + Len(b) = Len(s)
              /\ i \in 1..Len(s) /\ i > n
          BY <1>1, <3>2
        <5> QED BY ONLY <5>1
      <4>3. b[i - n] = s[n + (i - n)]
        BY <1>1, <4>1
      <4> QED BY <4>1, <4>2, <4>3
    <3>3. n \in Int /\ i \in Int
      OBVIOUS
    <3>4. i <= n \/ i > n
      BY ONLY <3>3
    <3> QED BY <3>1, <3>2, <3>4
  <2> DEFINE ab == a \o b
  <2> HIDE DEF ab
  <2>3. s = ab
    BY <2>1, <2>2, SeqEqual DEF ab
  <2> QED BY <2>3 DEF ab
<1>3. Count(a \o b, m) = Count(a, m) + Count(b, m)
  BY <1>1, CountJoin
<1> QED BY <1>2, <1>3 DEF a, b

\* Taking out one element (ZREM of a claim).
LEMMA CountRemoveAt ==
  ASSUME NEW S, NEW s \in Seq(S), NEW i \in 1..Len(s), NEW m
  PROVE  /\ RemoveAt(s, i) \in Seq(S)
         /\ Count(s, m) = Count(RemoveAt(s, i), m) + Once(s[i], m)
<1> DEFINE a == SubSeq(s, 1, i - 1)
           b == SubSeq(s, (i - 1) + 1, Len(s))
           d == SubSeq(s, i + 1, Len(s))
<1>1. i - 1 \in 0..Len(s) /\ (i - 1) + 1 = i /\ Len(s) \in Nat
  OBVIOUS
<1>2. Count(s, m) = Count(a, m) + Count(b, m)
  BY <1>1, CountSplit
<1>3. /\ a \in Seq(S) /\ b \in Seq(S) /\ d \in Seq(S)
      /\ b = SubSeq(s, i, Len(s))
  BY <1>1, SplitList
<1>4. b # <<>> /\ Head(b) = s[i] /\ Tail(b) = d
  <2>1. Len(b) = Len(s) - (i - 1) /\ b[1] = s[(i - 1) + 1]
    <3>1. 1 \in 1..(Len(s) - (i - 1))
      OBVIOUS
    <3> QED BY <1>1, <3>1, SplitList
  <2>2. Len(d) = Len(s) - i /\ \A k \in 1..(Len(s) - i) : d[k] = s[i + k]
    <3>1. i \in 0..Len(s)
      OBVIOUS
    <3> QED BY <3>1, SplitList
  <2>3. \A k \in 1..(Len(s) - (i - 1)) : b[k] = s[(i - 1) + k]
    BY <1>1, SplitList
  <2> HIDE DEF b, d
  <2>4. b # <<>> /\ Head(b) = s[i]
    <3>1. Len(b) > 0
      BY <1>1, <2>1
    <3>2. b \in Seq(S)
      BY <1>3
    <3>3. b # <<>> /\ Head(b) = b[1]
      BY ONLY <3>1, <3>2
    <3> QED BY <1>1, <2>1, <3>3
  <2>5. Tail(b) \in Seq(S) /\ Len(Tail(b)) = Len(d)
    BY <1>3, <2>1, <2>2, <2>4
  <2>6. \A k \in 1..Len(d) : Tail(b)[k] = d[k]
    <3> SUFFICES ASSUME NEW k \in 1..Len(d) PROVE Tail(b)[k] = d[k]
      OBVIOUS
    <3>1. k + 1 \in 1..(Len(s) - (i - 1)) /\ (i - 1) + (k + 1) = i + k /\ k \in 1..(Len(s) - i)
      BY <2>2
    <3>2. Tail(b)[k] = b[k + 1]
      BY <1>3, <2>4, <2>5
    <3> QED BY <2>2, <2>3, <3>1, <3>2
  <2> QED BY <1>3, <2>4, <2>5, <2>6, SeqEqual
<1> HIDE DEF a, b, d
<1>5. Count(b, m) = Once(s[i], m) + Count(d, m)
  BY <1>3, <1>4, CountTail
<1>6. Count(a \o d, m) = Count(a, m) + Count(d, m) /\ a \o d \in Seq(S)
  BY <1>3, CountJoin
<1>7. Count(a, m) \in Nat /\ Count(d, m) \in Nat /\ Once(s[i], m) \in Nat
  BY <1>3, PositionsFinite DEF Once
<1>8. RemoveAt(s, i) = a \o d
  BY DEF RemoveAt, a, d
<1> QED BY <1>2, <1>5, <1>6, <1>7, <1>8

\* A finite set of positions stays as large when each is paired with a name.
LEMMA Tagged ==
  ASSUME NEW n, NEW P, IsFiniteSet(P)
  PROVE  IsFiniteSet({n} \X P) /\ Cardinality({n} \X P) = Cardinality(P)
<1> DEFINE f == [i \in P |-> <<n, i>>]
<1>1. f \in Bijection(P, {n} \X P)
  <2>1. f \in [P -> {n} \X P] /\ \A i, j \in P : f[i] = f[j] => i = j
    OBVIOUS
  <2>2. \A q \in {n} \X P : \E i \in P : f[i] = q
    OBVIOUS
  <2> HIDE DEF f
  <2>3. f \in Injection(P, {n} \X P)
    BY <2>1 DEF Injection, IsInjective
  <2>4. f \in Surjection(P, {n} \X P)
    BY <2>1, <2>2 DEF Surjection
  <2> QED BY <2>3, <2>4 DEF Bijection
<1> QED BY <1>1, FS_Bijection DEF ExistsBijection

\* The places of a message among the lists of some of the names.
PlacesOf(N, f, m) == UNION {{n} \X Positions(f[n], m) : n \in N}

LEMMA PlacesFinite ==
  ASSUME NEW N \in SUBSET Names, NEW f \in [Names -> Seq(Message)], NEW m
  PROVE  IsFiniteSet(PlacesOf(N, f, m))
<1> DEFINE g == [n \in N |-> {n} \X Positions(f[n], m)]
           T == {{n} \X Positions(f[n], m) : n \in N}
<1>1. IsFiniteSet(N)
  BY MailboxAssumption, FS_Subset
<1>2. g \in Surjection(N, T)
  <2>1. g \in [N -> T] /\ \A t \in T : \E n \in N : g[n] = t
    OBVIOUS
  <2> HIDE DEF g, T
  <2> QED BY <2>1 DEF Surjection
<1>3. IsFiniteSet(T)
  BY <1>1, <1>2, FS_Surjection
<1>4. \A t \in T : IsFiniteSet(t)
  <2> SUFFICES ASSUME NEW n \in N PROVE IsFiniteSet({n} \X Positions(f[n], m))
    OBVIOUS
  <2>1. f[n] \in Seq(Message)
    OBVIOUS
  <2> QED BY <2>1, PositionsFinite, Tagged
<1> HIDE DEF T
<1>5. IsFiniteSet(UNION T)
  BY <1>3, <1>4, FS_UNION
<1> QED BY <1>5 DEF PlacesOf, T

LEMMA EverywhereType ==
  ASSUME NEW f \in [Names -> Seq(Message)], NEW m
  PROVE  Everywhere(f, m) \in Nat
<1>1. Places(f, m) = PlacesOf(Names, f, m)
  BY DEF Places, PlacesOf
<1> QED BY <1>1, PlacesFinite, FS_CardinalityType DEF Everywhere

\* The places under one name, and those under the others.
LEMMA EverywhereSplit ==
  ASSUME NEW f \in [Names -> Seq(Message)], NEW n \in Names, NEW m
  PROVE  Everywhere(f, m) = Cardinality(PlacesOf(Names \ {n}, f, m)) + Count(f[n], m)
<1> DEFINE here == {n} \X Positions(f[n], m)
           rest == PlacesOf(Names \ {n}, f, m)
<1>1. f[n] \in Seq(Message) /\ Names \ {n} \in SUBSET Names
  OBVIOUS
<1>2. IsFiniteSet(here) /\ Cardinality(here) = Count(f[n], m)
  BY <1>1, PositionsFinite, Tagged DEF Count
<1>3. IsFiniteSet(rest)
  BY <1>1, PlacesFinite
<1>4. Places(f, m) = rest \cup here
  BY DEF Places, PlacesOf
<1>5. rest \cap here = {}
  BY DEF PlacesOf
<1> HIDE DEF here, rest
<1>6. Cardinality(rest \cup here) = Cardinality(rest) + Cardinality(here)
  BY <1>2, <1>3, <1>5, DisjointUnion
<1> QED BY <1>2, <1>4, <1>6 DEF Everywhere, rest

\* A change of one name's list changes how often a message is anywhere by as much as it
\* changes how often it is there.
LEMMA EverywhereUpdate ==
  ASSUME NEW f \in [Names -> Seq(Message)], NEW g \in [Names -> Seq(Message)], NEW n \in Names,
         \A k \in Names : k # n => g[k] = f[k], NEW m
  PROVE  /\ Everywhere(f, m) \in Nat /\ Everywhere(g, m) \in Nat
         /\ Count(f[n], m) \in Nat /\ Count(g[n], m) \in Nat
         /\ Everywhere(f, m) >= Count(f[n], m)
         /\ Everywhere(g, m) = (Everywhere(f, m) - Count(f[n], m)) + Count(g[n], m)
<1>1. g[n] \in Seq(Message) /\ f[n] \in Seq(Message)
  OBVIOUS
<1>2. PlacesOf(Names \ {n}, g, m) = PlacesOf(Names \ {n}, f, m)
  BY DEF PlacesOf
<1> DEFINE k == Cardinality(PlacesOf(Names \ {n}, f, m))
<1>3. k \in Nat
  BY PlacesFinite, FS_CardinalityType
<1>4. Everywhere(f, m) = k + Count(f[n], m)
  BY EverywhereSplit
<1>5. Everywhere(g, m) = k + Count(g[n], m)
  BY <1>1, <1>2, EverywhereSplit
<1>6. Count(f[n], m) \in Nat /\ Count(g[n], m) \in Nat
  BY <1>1, PositionsFinite
<1> HIDE DEF k
<1> QED BY <1>1, <1>3, <1>4, <1>5, <1>6

\* How many of the receives hold a message.
HeldIn(f, m) == Cardinality({c \in Receivers : f[c].msg = m})

LEMMA HeldType ==
  ASSUME NEW f, NEW m
  PROVE  HeldIn(f, m) \in Nat
<1> DEFINE held == {c \in Receivers : f[c].msg = m}
<1>1. held \in SUBSET Receivers
  OBVIOUS
<1> HIDE DEF held
<1>2. IsFiniteSet(held)
  BY <1>1, MailboxAssumption, FS_Subset
<1>3. Cardinality(held) \in Nat
  BY <1>2, FS_CardinalityType
<1> QED BY <1>3 DEF HeldIn, held

LEMMA HeldUpdate ==
  ASSUME NEW f \in [Receivers -> RecvState], NEW g \in [Receivers -> RecvState],
         NEW c \in Receivers, \A d \in Receivers : d # c => g[d] = f[d], NEW m
  PROVE  /\ HeldIn(f, m) \in Nat /\ HeldIn(g, m) \in Nat
         /\ HeldIn(f, m) >= Once(f[c].msg, m)
         /\ HeldIn(g, m) = (HeldIn(f, m) - Once(f[c].msg, m)) + Once(g[c].msg, m)
<1> DEFINE rest == {d \in Receivers \ {c} : f[d].msg = m}
           Of(h) == {d \in Receivers : h[d].msg = m}
<1>1. IsFiniteSet(rest) /\ Cardinality(rest) \in Nat /\ c \notin rest
  <2>1. rest \in SUBSET Receivers /\ c \notin rest
    OBVIOUS
  <2> HIDE DEF rest
  <2>2. IsFiniteSet(rest)
    BY <2>1, MailboxAssumption, FS_Subset
  <2> QED BY <2>1, <2>2, FS_CardinalityType
<1>2. /\ f[c].msg = m => Of(f) = rest \cup {c}
      /\ f[c].msg # m => Of(f) = rest
  OBVIOUS
<1>3. /\ g[c].msg = m => Of(g) = rest \cup {c}
      /\ g[c].msg # m => Of(g) = rest
  OBVIOUS
<1>4. Cardinality(rest \cup {c}) = Cardinality(rest) + 1
  BY <1>1, FS_AddElement
<1>5. HeldIn(f, m) = Cardinality(Of(f)) /\ HeldIn(g, m) = Cardinality(Of(g))
  BY DEF HeldIn
<1> HIDE DEF rest, Of
<1>6. /\ Cardinality(Of(f)) = Cardinality(rest) + Once(f[c].msg, m)
      /\ Cardinality(Of(g)) = Cardinality(rest) + Once(g[c].msg, m)
  <2>1. Cardinality(rest) + 0 = Cardinality(rest)
    BY <1>1
  <2>2. Cardinality(Of(f)) = Cardinality(rest) + Once(f[c].msg, m)
    BY <1>2, <1>4, <2>1 DEF Once
  <2>3. Cardinality(Of(g)) = Cardinality(rest) + Once(g[c].msg, m)
    BY <1>3, <1>4, <2>1 DEF Once
  <2> QED BY <2>2, <2>3
<1>7. Once(f[c].msg, m) \in Nat /\ Once(g[c].msg, m) \in Nat
  BY DEF Once
<1> QED BY <1>1, <1>5, <1>6, <1>7

-----------------------------------------------------------------------------
(***************************************************************************)
(* The inductive invariant.                                                *)
(***************************************************************************)

\* A call that pushes has a recipient; only calls made have pushed; the ids answered, and
\* the one under the key, are of messages queued for the request; while the key is there
\* the request was queued once, and a keyed call in progress that has queued its message
\* finds the key.
SendFits(r, s, key, times, p) ==
  /\ s.pc = "push" => s.to \in Names /\ s.call \in Calls
  /\ s.answer # None => s.pc = "ended"
  /\ \A k \in Calls : k > s.call => p[<<r, k>>] = 0
  /\ s.answer \in {"sent", "duplicate"} => s.id \in {r} \X Calls /\ p[s.id] > 0
  /\ r \in Keyed /\ s.answer = "full" => s.id \in {r} \X Calls /\ p[s.id] = 0
  /\ r \in Keyed => times = IF key = None THEN 0 ELSE 1
  /\ key # None => key \in {r} \X Calls /\ p[key] > 0
  /\ r \in Keyed /\ s.pc = "push" /\ p[<<r, s.call>>] > 0 => key # None
SendInv(r) == SendFits(r, send[r], dedupe[r], window[r], pushed)

\* A receive holds a message from the pop to its end, and only a foreign one to park.
RecvFits(v) ==
  /\ v.pc # "idle" => v.name \in Names
  /\ v.msg = None <=> v.pc \in {"idle", "connect", "blocked", "leaving"}
  /\ v.pc = "parse" => v.msg \in Foreign
RecvInv(c) == RecvFits(recv[c])

\* What is under a name, or held by a receive, was pushed.
UnderInv ==
  /\ \A n \in Names : \A m \in Under(n) : pushed[m] > 0
  /\ \A c \in Receivers : recv[c].msg # None => pushed[recv[c].msg] > 0

\* A rename in progress is between two names, and once it has migrated the old one has
\* nothing of what it held, but what was parked or pushed again.
RenameInv ==
  /\ rename.pc # "idle" => /\ rename.from \in Names /\ rename.to \in Names
                           /\ rename.from # rename.to
  /\ \A m \in rename.held : pushed[m] > 0
  /\ rename.pc = "retire" =>
       \A m \in rename.held \cap Under(rename.from) : m \in Foreign \/ pushed[m] > 1

MailboxInv ==
  /\ TypeOK
  /\ \A r \in Requests : SendInv(r)
  /\ \A c \in Receivers : RecvInv(c)
  /\ UnderInv
  /\ RenameInv
  /\ ClosedNeverParked
  /\ Conservation

-----------------------------------------------------------------------------
(***************************************************************************)
(* What the store's operations yield.                                      *)
(***************************************************************************)

LEMMA Losings ==
  ASSUME TypeOK, NEW s \in Seq(Message)
  PROVE  /\ Losing(s) \in [Message -> Nat]
         /\ \A m \in Message : Losing(s)[m] = gone[m] + Count(s, m)
<1>1. \A m \in Message : Count(s, m) \in Nat /\ gone[m] \in Nat
  BY PositionsFinite DEF TypeOK
<1> QED BY <1>1 DEF Losing

\* Trimming keeps some of the dead letters and counts the others as gone.
LEMMA Trimmings ==
  ASSUME TypeOK, NEW s \in Seq(Message)
  PROVE  /\ Trimmed(s) \in Seq(Message)
         /\ ToSet(Trimmed(s)) \subseteq ToSet(s)
         /\ TrimLoses(s) \in [Message -> Nat]
         /\ \A m \in Message : /\ Count(Trimmed(s), m) \in Nat
                               /\ Count(s, m) \in Nat
                               /\ TrimLoses(s)[m] + Count(Trimmed(s), m) = gone[m] + Count(s, m)
<1> DEFINE n == IF Len(s) < DlqMax THEN Len(s) ELSE DlqMax
           kept == SubSeq(s, 1, n)
           lost == SubSeq(s, DlqMax + 1, Len(s))
<1>1. DlqMax \in Nat /\ Len(s) \in Nat /\ n \in 0..Len(s)
  BY MailboxAssumption
<1>2. lost = SubSeq(s, n + 1, Len(s))
  <2>1. CASE Len(s) < DlqMax
    <3>1. lost = <<>> /\ SubSeq(s, n + 1, Len(s)) = <<>>
      BY <1>1, <2>1
    <3> QED BY <3>1
  <2>2. CASE ~(Len(s) < DlqMax)
    BY <2>2
  <2> QED BY <2>1, <2>2
<1>3. kept \in Seq(Message) /\ lost \in Seq(Message)
      /\ Len(kept) = n /\ \A i \in 1..n : kept[i] = s[i]
  BY <1>1, <1>2, SplitList
<1>4. \A m \in Message : Count(s, m) = Count(kept, m) + Count(lost, m)
  BY <1>1, <1>2, CountSplit
<1>5. \A m \in Message : Count(kept, m) \in Nat /\ Count(lost, m) \in Nat /\ Count(s, m) \in Nat
  BY <1>3, PositionsFinite
<1>6. /\ TrimLoses(s) \in [Message -> Nat]
      /\ \A m \in Message : TrimLoses(s)[m] = gone[m] + Count(lost, m)
  BY <1>3, Losings DEF TrimLoses
<1>7. ToSet(kept) \subseteq ToSet(s)
  BY <1>1, <1>3 DEF ToSet
<1>8. \A m \in Message : gone[m] \in Nat
  BY DEF TypeOK
<1>9. Trimmed(s) = kept
  BY DEF Trimmed
<1> HIDE DEF kept, lost, n
<1> QED BY <1>3, <1>4, <1>5, <1>6, <1>7, <1>8, <1>9

\* What the list operations do to the set of messages in a list.
LEMMA JoinSets ==
  ASSUME NEW a \in Seq(Message), NEW b \in Seq(Message)
  PROVE  a \o b \in Seq(Message) /\ ToSet(a \o b) = ToSet(a) \cup ToSet(b)
<1>1. a \o b \in Seq(Message) /\ Range(a \o b) = Range(a) \cup Range(b)
  BY RangeConcatenation
<1>2. \A s \in Seq(Message) : ToSet(s) = Range(s)
  BY DEF ToSet, Range
<1> QED BY <1>1, <1>2

LEMMA ListSets ==
  ASSUME NEW a \in Seq(Message), NEW x \in Message
  PROVE  /\ ToSet(a) \subseteq Message
         /\ ToSet(Append(a, x)) = ToSet(a) \cup {x}
         /\ a # <<>> => ToSet(Tail(a)) \subseteq ToSet(a) /\ Head(a) \in ToSet(a)
         /\ \A i \in 1..Len(a) : /\ RemoveAt(a, i) \in Seq(Message)
                                /\ ToSet(RemoveAt(a, i)) \subseteq ToSet(a)
                                /\ a[i] \in ToSet(a)
<1>1. \A s \in Seq(Message) : ToSet(s) = Range(s)
  BY DEF ToSet, Range
<1>2. ToSet(a) \subseteq Message
  BY DEF ToSet
<1>3. ToSet(Append(a, x)) = ToSet(a) \cup {x}
  <2>1. Append(a, x) \in Seq(Message) /\ Range(Append(a, x)) = Range(a) \cup {x}
    <3> DEFINE one == <<x>>
    <3>1. Append(a, x) = a \o one /\ one \in Seq(Message)
      BY AppendIsConcat
    <3>2. Range(one) = {x}
      BY DEF Range
    <3> HIDE DEF one
    <3>3. a \o one \in Seq(Message) /\ Range(a \o one) = Range(a) \cup Range(one)
      BY <3>1, RangeConcatenation
    <3> QED BY <3>1, <3>2, <3>3
  <2> QED BY <1>1, <2>1
<1>4. a # <<>> => ToSet(Tail(a)) \subseteq ToSet(a) /\ Head(a) \in ToSet(a)
  BY DEF ToSet
<1>5. ASSUME NEW i \in 1..Len(a)
      PROVE  /\ RemoveAt(a, i) \in Seq(Message)
             /\ ToSet(RemoveAt(a, i)) \subseteq ToSet(a)
             /\ a[i] \in ToSet(a)
  <2>1. RemoveAt(a, i) \in Seq(Message)
    BY CountRemoveAt
  <2>2. a[i] \in ToSet(a)
    BY DEF ToSet
  <2>3. i - 1 \in 0..Len(a) /\ i \in 0..Len(a)
    OBVIOUS
  <2>4. /\ SubSeq(a, 1, i - 1) \in Seq(Message)
        /\ Range(SubSeq(a, 1, i - 1)) \subseteq Range(a)
    BY <2>3, SplitList
  <2>5. /\ SubSeq(a, i + 1, Len(a)) \in Seq(Message)
        /\ Range(SubSeq(a, i + 1, Len(a))) \subseteq Range(a)
    BY <2>3, SplitList
  <2>6. Range(RemoveAt(a, i)) \subseteq Range(a)
    <3> DEFINE front == SubSeq(a, 1, i - 1)
               rest == SubSeq(a, i + 1, Len(a))
    <3>1. RemoveAt(a, i) = front \o rest
      BY DEF RemoveAt
    <3> HIDE DEF front, rest
    <3>2. Range(front \o rest) = Range(front) \cup Range(rest)
      BY ZenonT(60), <2>4, <2>5, RangeConcatenation DEF front, rest
    <3> QED BY <2>4, <2>5, <3>1, <3>2 DEF front, rest
  <2> QED BY <1>1, <2>1, <2>2, <2>6
<1> QED BY <1>2, <1>3, <1>4, <1>5

-----------------------------------------------------------------------------
(***************************************************************************)
(* Types.                                                                  *)
(***************************************************************************)

\* What a run of the push script comes to: the message is queued and its key recorded, or
\* the store is as it was.
LEMMA PushCases ==
  ASSUME MailboxInv, NEW r \in Requests, send[r].pc = "push", RunPush(r)
  PROVE  LET s == send[r]
             m == <<r, s.call>>
         IN  /\ s \in SendState /\ s.to \in Names /\ s.call \in Calls /\ m \in Message
             /\ \/ /\ BoundedPush(r) = [answer |-> "sent", id |-> m, pushes |-> TRUE]
                   /\ r \in Keyed => dedupe[r] = None
                   /\ queue' = [queue EXCEPT ![s.to] = Append(@, m)]
                   /\ dedupe' = IF r \in Keyed THEN [dedupe EXCEPT ![r] = m] ELSE dedupe
                   /\ pushed' = [pushed EXCEPT ![m] = @ + 1]
                   /\ window' = [window EXCEPT ![r] = @ + 1]
                \/ /\ UNCHANGED <<queue, dedupe, pushed, window>>
                   /\ \/ /\ BoundedPush(r) = [answer |-> "duplicate", id |-> dedupe[r], pushes |-> FALSE]
                         /\ r \in Keyed /\ dedupe[r] # None
                      \/ /\ BoundedPush(r) = [answer |-> "full", id |-> m, pushes |-> FALSE]
                         /\ r \in Keyed => dedupe[r] = None
<1> DEFINE s == send[r]
           m == <<r, s.call>>
<1>1. s \in SendState /\ s.to \in Names /\ s.call \in Calls
  BY DEF MailboxInv, TypeOK, SendInv, SendFits
<1>2. m \in Message
  BY <1>1 DEF Message
<1>3. CASE r \in Keyed /\ dedupe[r] # None
  <2>1. BoundedPush(r) = [answer |-> "duplicate", id |-> dedupe[r], pushes |-> FALSE]
    BY <1>3 DEF BoundedPush
  <2>2. ~BoundedPush(r).pushes
    BY <2>1
  <2> QED BY <1>1, <1>2, <1>3, <2>1, <2>2 DEF RunPush
<1>4. CASE ~(r \in Keyed /\ dedupe[r] # None) /\ Len(queue[s.to]) >= QueueBound
  <2>1. BoundedPush(r) = [answer |-> "full", id |-> m, pushes |-> FALSE]
    BY <1>4 DEF BoundedPush
  <2>2. ~BoundedPush(r).pushes
    BY <2>1
  <2> QED BY <1>1, <1>2, <1>4, <2>1, <2>2 DEF RunPush
<1>5. CASE ~(r \in Keyed /\ dedupe[r] # None) /\ ~(Len(queue[s.to]) >= QueueBound)
  <2>1. BoundedPush(r) = [answer |-> "sent", id |-> m, pushes |-> TRUE]
    BY <1>5 DEF BoundedPush
  <2>2. BoundedPush(r).pushes
    BY <2>1
  <2> QED BY <1>1, <1>2, <1>5, <2>1, <2>2 DEF RunPush
<1> QED BY <1>3, <1>4, <1>5

LEMMA PushTyped ==
  ASSUME MailboxInv, NEW r \in Requests, send[r].pc = "push", RunPush(r)
  PROVE  /\ queue' \in [Names -> Seq(Message)]
         /\ dedupe' \in [Requests -> Message \cup {None}]
         /\ pushed' \in [Message -> Nat]
         /\ window' \in [Requests -> Nat]
         /\ BoundedPush(r).answer \in {"sent", "duplicate", "full"}
         /\ BoundedPush(r).id \in Message \cup {None}
<1> DEFINE s == send[r]
           m == <<r, s.call>>
<1>1. TypeOK
  BY DEF MailboxInv
<1>2. s.to \in Names /\ m \in Message /\ queue[s.to] \in Seq(Message) /\ dedupe[r] \in Message \cup {None}
  BY <1>1, PushCases DEF TypeOK
<1>3. CASE /\ BoundedPush(r) = [answer |-> "sent", id |-> m, pushes |-> TRUE]
           /\ queue' = [queue EXCEPT ![s.to] = Append(@, m)]
           /\ dedupe' = IF r \in Keyed THEN [dedupe EXCEPT ![r] = m] ELSE dedupe
           /\ pushed' = [pushed EXCEPT ![m] = @ + 1]
           /\ window' = [window EXCEPT ![r] = @ + 1]
  <2> HIDE DEF s, m
  <2>1. Append(queue[s.to], m) \in Seq(Message)
    BY <1>2
  <2>2. queue' \in [Names -> Seq(Message)]
    BY <1>1, <1>3, <2>1 DEF TypeOK
  <2>3. dedupe' \in [Requests -> Message \cup {None}]
    BY <1>1, <1>2, <1>3 DEF TypeOK
  <2>4. pushed' \in [Message -> Nat]
    BY <1>1, <1>2, <1>3 DEF TypeOK
  <2>5. window' \in [Requests -> Nat]
    BY <1>1, <1>3 DEF TypeOK
  <2> QED BY <1>2, <1>3, <2>2, <2>3, <2>4, <2>5
<1>4. CASE /\ UNCHANGED <<queue, dedupe, pushed, window>>
           /\ \/ BoundedPush(r) = [answer |-> "duplicate", id |-> dedupe[r], pushes |-> FALSE]
              \/ BoundedPush(r) = [answer |-> "full", id |-> m, pushes |-> FALSE]
  <2>1. /\ BoundedPush(r).answer \in {"sent", "duplicate", "full"}
        /\ BoundedPush(r).id \in Message \cup {None}
    BY <1>2, <1>4
  <2> QED BY <1>1, <1>4, <2>1 DEF TypeOK
<1> QED BY <1>3, <1>4, PushCases

SendMoves(r) ==
  \/ \E n \in Names : Call(r, n)
  \/ Push(r) \/ PushUnanswered(r) \/ KeyExpires(r)

LEMMA SendTyped ==
  ASSUME MailboxInv, NEW r \in Requests, SendMoves(r)
  PROVE  TypeOK'
<1>1. TypeOK /\ send[r] \in SendState
  BY DEF MailboxInv, TypeOK
<1>2. \A v \in SendState : send' = [send EXCEPT ![r] = v] => send' \in [Requests -> SendState]
  BY <1>1 DEF TypeOK
<1>3. CASE \E n \in Names : Call(r, n)
  <2>1. PICK n \in Names : Call(r, n)
    BY <1>3
  <2> DEFINE s == send[r]
             again == [Unsent EXCEPT !.to = n, !.call = s.call + 1]
  <2>2. s.call + 1 \in 0..MaxCalls /\ 0 \in 0..(MaxTries - 1) /\ 0 \in 0..MaxResends
    BY <1>1, <2>1, MailboxAssumption DEF Call, SendState
  <2> HIDE DEF s
  <2>3. again \in SendState
    BY <2>2 DEF SendState, Unsent
  <2>4. [again EXCEPT !.pc = "push"] \in SendState
    BY <2>2 DEF SendState, Unsent
  <2>5. [again EXCEPT !.pc = "ended", !.answer = "rejected"] \in SendState
    BY <2>2 DEF SendState, Unsent
  <2> HIDE DEF again
  <2>6. \E v \in SendState : send' = [send EXCEPT ![r] = v]
    BY <2>1, <2>4, <2>5 DEF Call, again, s
  <2>7. send' \in [Requests -> SendState]
    BY <1>2, <2>6
  <2> QED BY <1>1, <2>1, <2>7 DEF Call, TypeOK, mail, names, history
<1>4. CASE Push(r)
  <2>1. send[r].pc = "push" /\ RunPush(r)
    BY <1>4 DEF Push
  <2> DEFINE s == send[r]
             out == BoundedPush(r)
  <2>2. out.answer \in {"sent", "duplicate", "full"} /\ out.id \in Message \cup {None}
    BY <2>1, PushTyped
  <2>3. s \in SendState
    BY <1>1
  <2> HIDE DEF s, out
  <2>4. [s EXCEPT !.pc = "ended", !.answer = out.answer, !.id = out.id] \in SendState
    BY <2>2, <2>3 DEF SendState
  <2>5. s.tries + 1 < MaxTries => [s EXCEPT !.tries = @ + 1] \in SendState
    BY <2>3, MailboxAssumption DEF SendState
  <2>6. Answered(s, out) \in SendState
    BY <2>4, <2>5 DEF Answered
  <2>7. send' = [send EXCEPT ![r] = Answered(s, out)]
    BY <1>4 DEF Push, s, out
  <2>8. send' \in [Requests -> SendState]
    BY <1>2, <2>6, <2>7
  <2> QED BY <1>1, <1>4, <2>1, <2>8, PushTyped DEF Push, TypeOK, names
<1>5. CASE PushUnanswered(r)
  <2>1. send[r].pc = "push" /\ RunPush(r)
    BY <1>5 DEF PushUnanswered
  <2> DEFINE s == send[r]
  <2>2. s \in SendState
    BY <1>1
  <2>3. s.resends < MaxResends => [s EXCEPT !.resends = @ + 1] \in SendState
    BY <2>2, MailboxAssumption DEF SendState
  <2>4. [s EXCEPT !.pc = "ended", !.answer = "lost"] \in SendState
    BY <2>2 DEF SendState
  <2>5. \/ s.resends < MaxResends /\ send' = [send EXCEPT ![r] = [s EXCEPT !.resends = @ + 1]]
        \/ send' = [send EXCEPT ![r] = [s EXCEPT !.pc = "ended", !.answer = "lost"]]
    BY <1>1, <1>5 DEF PushUnanswered, TypeOK
  <2> HIDE DEF s
  <2>6. send' \in [Requests -> SendState]
    BY <1>2, <2>3, <2>4, <2>5
  <2> QED BY <1>1, <1>5, <2>1, <2>6, PushTyped DEF PushUnanswered, TypeOK, names
<1>6. CASE KeyExpires(r)
  BY <1>1, <1>6 DEF KeyExpires, TypeOK, mail, names
<1> QED BY <1>3, <1>4, <1>5, <1>6 DEF SendMoves

RecvMoves(c) ==
  \/ \E n \in Names : Receive(c, n)
  \/ Connect(c) \/ Pop(c) \/ PopEnds(c) \/ Arrive(c) \/ Park(c) \/ Deliver(c)
  \/ ReceiveFails(c) \/ Cancel(c) \/ CloseReceives(c)

LEMMA RecvTypes ==
  ASSUME MailboxInv, NEW c \in Receivers
  PROVE  /\ recv[c] \in RecvState /\ RecvFits(recv[c])
         /\ recv[c].pc \in {"popped", "parse", "meta"} => recv[c].msg \in Message
         /\ recv[c].pc # "idle" => /\ recv[c].name \in Names
                                   /\ queue[recv[c].name] \in Seq(Message)
                                   /\ dlq[recv[c].name] \in Seq(Message)
         /\ Resting \in RecvState /\ RecvFits(Resting)
         /\ Broken(c) \in RecvState /\ RecvFits(Broken(c)) /\ Broken(c).pc # "blocked"
<1>1. recv[c] \in RecvState /\ RecvFits(recv[c])
  BY DEF MailboxInv, TypeOK, RecvInv
<1>2. recv[c].pc \in {"popped", "parse", "meta"} => recv[c].msg \in Message
  BY <1>1 DEF RecvState, RecvFits
<1>3. recv[c].pc # "idle" => /\ recv[c].name \in Names
                             /\ queue[recv[c].name] \in Seq(Message)
                             /\ dlq[recv[c].name] \in Seq(Message)
  BY <1>1 DEF RecvFits, MailboxInv, TypeOK
<1>4. Resting \in RecvState /\ RecvFits(Resting)
  BY DEF RecvState, RecvFits, Resting
<1>5. CASE recv[c].pc = "blocked"
  <2>1. Broken(c) = [recv[c] EXCEPT !.pc = "leaving"]
    BY <1>5 DEF Broken
  <2>2. Broken(c) \in RecvState /\ RecvFits(Broken(c)) /\ Broken(c).pc # "blocked"
    BY <1>1, <1>5, <2>1 DEF RecvState, RecvFits
  <2> QED BY <1>1, <1>2, <1>3, <1>4, <2>2
<1>6. CASE recv[c].pc = "popped"
  <2>1. Broken(c) = Resting
    BY <1>6 DEF Broken
  <2>2. Broken(c).pc # "blocked"
    BY <2>1 DEF Resting
  <2> QED BY <1>1, <1>2, <1>3, <1>4, <2>1, <2>2
<1>7. CASE recv[c].pc # "popped" /\ recv[c].pc # "blocked"
  <2>1. Broken(c) = recv[c]
    BY <1>7 DEF Broken
  <2> QED BY <1>1, <1>2, <1>3, <1>4, <1>7, <2>1
<1> QED BY <1>5, <1>6, <1>7

\* What a receive becomes is well formed, and not parked once its client has closed.
LEMMA RecvBecomes ==
  ASSUME MailboxInv, NEW c \in Receivers, RecvMoves(c)
  PROVE  \E v \in RecvState : /\ recv' = [recv EXCEPT ![c] = v] /\ RecvFits(v)
                              /\ v.pc = "blocked" => c \notin closed'
<1> DEFINE r == recv[c]
           Fine(v) == /\ recv' = [recv EXCEPT ![c] = v] /\ RecvFits(v)
                      /\ v.pc = "blocked" => c \notin closed'
<1>1. /\ r \in RecvState /\ RecvFits(r)
      /\ r.pc \in {"popped", "parse", "meta"} => r.msg \in Message
      /\ r.pc # "idle" => r.name \in Names /\ queue[r.name] \in Seq(Message)
      /\ Resting \in RecvState /\ RecvFits(Resting) /\ Resting.pc # "blocked"
      /\ Broken(c) \in RecvState /\ RecvFits(Broken(c)) /\ Broken(c).pc # "blocked"
  BY RecvTypes DEF Resting
<1> SUFFICES \E v \in RecvState : Fine(v)
  OBVIOUS
<1>2. CASE recv' = [recv EXCEPT ![c] = Resting]
  BY <1>1, <1>2
<1>3. CASE recv' = [recv EXCEPT ![c] = Broken(c)]
  BY <1>1, <1>3
<1>4. CASE \E n \in Names : Receive(c, n)
  <2>1. PICK n \in Names : Receive(c, n)
    BY <1>4
  <2> DEFINE v == [pc |-> "connect", name |-> n, msg |-> None]
  <2>2. v \in RecvState /\ RecvFits(v) /\ v.pc # "blocked"
    BY DEF RecvState, RecvFits
  <2>3. recv' = [recv EXCEPT ![c] = v]
    BY <2>1 DEF Receive, Receives
  <2> HIDE DEF v
  <2> QED BY <2>2, <2>3
<1>5. CASE Connect(c) /\ c \notin closed
  <2> DEFINE v == [r EXCEPT !.pc = "blocked"]
  <2>1. v \in RecvState /\ RecvFits(v)
    BY <1>1, <1>5 DEF Connect, RecvState, RecvFits
  <2>2. recv' = [recv EXCEPT ![c] = v] /\ c \notin closed'
    BY <1>5 DEF Connect, Receives
  <2> HIDE DEF v
  <2> QED BY <2>1, <2>2
<1>6. CASE Pop(c) /\ r.pc = "blocked"
  <2> DEFINE h == Head(queue[r.name])
             v == [r EXCEPT !.pc = "popped", !.msg = h]
  <2>1. h \in Message
    BY <1>1, <1>6 DEF Pop
  <2>2. recv' = [recv EXCEPT ![c] = v]
    BY <1>6 DEF Pop, Receives
  <2> HIDE DEF h
  <2>3. h # None
    BY <2>1, MailboxAssumption
  <2>4. v \in RecvState /\ RecvFits(v) /\ v.pc # "blocked"
    BY <1>1, <1>6, <2>1, <2>3 DEF RecvState, RecvFits
  <2> HIDE DEF v
  <2> QED BY <2>2, <2>4
<1>7. CASE Arrive(c)
  <2> DEFINE v == [r EXCEPT !.pc = IF r.msg \in Foreign THEN "parse" ELSE "meta"]
  <2>1. v \in RecvState /\ RecvFits(v) /\ v.pc # "blocked"
    BY <1>1, <1>7 DEF Arrive, RecvState, RecvFits
  <2>2. recv' = [recv EXCEPT ![c] = v]
    BY <1>7 DEF Arrive, Receives
  <2> HIDE DEF v
  <2> QED BY <2>1, <2>2
<1>8. CASE \/ Connect(c) /\ c \in closed
           \/ Pop(c) /\ r.pc # "blocked"
           \/ PopEnds(c) \/ Park(c) \/ Deliver(c) \/ ReceiveFails(c) \/ Cancel(c) \/ CloseReceives(c)
  <2>1. recv' = [recv EXCEPT ![c] = Resting] \/ recv' = [recv EXCEPT ![c] = Broken(c)]
    BY <1>8 DEF Connect, Pop, PopEnds, Park, Deliver, ReceiveFails, Cancel, CloseReceives,
                Receives
  <2> QED BY <1>2, <1>3, <2>1
<1> QED BY <1>4, <1>5, <1>6, <1>7, <1>8 DEF RecvMoves

\* The other receives are as they were.
LEMMA RecvStep ==
  ASSUME MailboxInv, NEW c \in Receivers, RecvMoves(c)
  PROVE  /\ recv' \in [Receivers -> RecvState]
         /\ \A d \in Receivers : RecvInv(d)'
         /\ ClosedNeverParked'
<1>1. PICK v \in RecvState : /\ recv' = [recv EXCEPT ![c] = v] /\ RecvFits(v)
                             /\ v.pc = "blocked" => c \notin closed'
  BY RecvBecomes
<1>2. recv \in [Receivers -> RecvState] /\ closed \subseteq Receivers
  BY DEF MailboxInv, TypeOK
<1>3. closed' = closed \/ closed' = closed \cup {c}
  BY DEF RecvMoves, Receive, Connect, Pop, PopEnds, Arrive, Park, Deliver, ReceiveFails, Cancel,
         CloseReceives
<1>4. \A d \in Receivers : d # c => recv'[d] = recv[d] /\ RecvFits(recv[d])
  BY <1>1, <1>2 DEF MailboxInv, RecvInv
<1>5. recv'[c] = v
  BY <1>1, <1>2
<1>6. \A d \in Receivers : RecvFits(recv'[d])
  BY <1>1, <1>4, <1>5
<1>7. \A d \in closed' : recv'[d].pc # "blocked"
  BY <1>1, <1>2, <1>3, <1>4, <1>5 DEF MailboxInv, ClosedNeverParked
<1>8. \A d \in Receivers : RecvInv(d)' <=> RecvFits(recv'[d])
  BY DEF RecvInv, RecvFits
<1> QED BY <1>1, <1>2, <1>6, <1>7, <1>8 DEF ClosedNeverParked

-----------------------------------------------------------------------------
(***************************************************************************)
(* Receives.                                                               *)
(***************************************************************************)

\* How often a message is where a receive may take it from or put it.
Around(q, d, r, l, g, m) ==
  Everywhere(q, m) + Everywhere(d, m) + HeldIn(r, m) + Count(l, m) + g[m]

\* What a receive does to the mail: it moves a message or counts it as gone, and adds
\* to a name's dead letters only what does not parse.
RecvEffect ==
  /\ queue' \in [Names -> Seq(Message)]
  /\ dlq' \in [Names -> Seq(Message)]
  /\ gone' \in [Message -> Nat]
  /\ delivered' \in Seq(Message)
  /\ \A n \in Names : ToSet(queue'[n]) \subseteq ToSet(queue[n])
  /\ \A n \in Names : \A m \in ToSet(dlq'[n]) :
       m \in ToSet(dlq[n]) \/ (m \in Foreign /\ pushed[m] > 0)
  /\ \A c \in Receivers : recv'[c].msg # None => pushed[recv'[c].msg] > 0
  /\ \A m \in Message : Around(queue', dlq', recv', delivered', gone', m)
                         = Around(queue, dlq, recv, delivered, gone, m)

LEMMA RecvQuiet ==
  ASSUME MailboxInv, NEW c \in Receivers, NEW v \in RecvState,
         recv' = [recv EXCEPT ![c] = v], v.msg = recv[c].msg,
         UNCHANGED <<queue, dlq, gone, delivered>>
  PROVE  RecvEffect
<1>1. recv \in [Receivers -> RecvState]
  BY DEF MailboxInv, TypeOK
<1>2. \A d \in Receivers : recv'[d].msg = recv[d].msg
  BY <1>1
<1>3. \A m : HeldIn(recv', m) = HeldIn(recv, m)
  BY <1>2 DEF HeldIn
<1>4. \A d \in Receivers : recv'[d].msg # None => pushed[recv'[d].msg] > 0
  BY <1>2 DEF MailboxInv, UnderInv
<1>5. queue' = queue /\ dlq' = dlq /\ gone' = gone /\ delivered' = delivered
  OBVIOUS
<1>6. \A m : Around(queue', dlq', recv', delivered', gone', m)
           = Around(queue, dlq, recv, delivered, gone, m)
  BY <1>3, <1>5 DEF Around
<1>7. /\ queue' \in [Names -> Seq(Message)] /\ dlq' \in [Names -> Seq(Message)]
      /\ gone' \in [Message -> Nat] /\ delivered' \in Seq(Message)
  BY <1>5 DEF MailboxInv, TypeOK
<1>8. \A n \in Names : ToSet(queue'[n]) = ToSet(queue[n]) /\ ToSet(dlq'[n]) = ToSet(dlq[n])
  BY <1>5
<1> QED BY <1>4, <1>6, <1>7, <1>8 DEF RecvEffect

\* A message that a receive held is gone.
LEMMA RecvLoses ==
  ASSUME MailboxInv, NEW c \in Receivers, recv[c].pc \in {"popped", "parse", "meta"},
         recv' = [recv EXCEPT ![c] = Resting], gone' = Losing(<<recv[c].msg>>),
         UNCHANGED <<queue, dlq, delivered>>
  PROVE  RecvEffect
<1> DEFINE x == recv[c].msg
<1>1. TypeOK /\ recv \in [Receivers -> RecvState]
  BY DEF MailboxInv, TypeOK
<1>2. x \in Message /\ Resting \in RecvState /\ Resting.msg = None
  BY RecvTypes DEF Resting
<1>3. <<x>> \in Seq(Message)
  BY <1>2
<1>4. gone' \in [Message -> Nat] /\ \A m \in Message : gone'[m] = gone[m] + Once(x, m)
  BY <1>1, <1>3, Losings, CountOne
<1>5. \A m \in Message : Once(None, m) = 0 /\ Once(x, m) \in Nat
  BY MailboxAssumption DEF Once
<1>6. ASSUME NEW m \in Message
      PROVE  /\ HeldIn(recv, m) \in Nat /\ HeldIn(recv, m) >= Once(x, m)
             /\ HeldIn(recv', m) = (HeldIn(recv, m) - Once(x, m)) + Once(None, m)
  <2>1. /\ recv' \in [Receivers -> RecvState] /\ recv'[c] = Resting
        /\ \A d \in Receivers : d # c => recv'[d] = recv[d]
    BY <1>1, <1>2
  <2>2. /\ HeldIn(recv, m) \in Nat /\ HeldIn(recv, m) >= Once(recv[c].msg, m)
        /\ HeldIn(recv', m) = (HeldIn(recv, m) - Once(recv[c].msg, m)) + Once(Resting.msg, m)
    BY ONLY <1>1, <2>1, c \in Receivers, HeldUpdate
  <2> QED BY <1>2, <2>2
<1>7. \A m \in Message : /\ gone[m] \in Nat /\ Count(delivered, m) \in Nat
                         /\ Everywhere(queue, m) \in Nat /\ Everywhere(dlq, m) \in Nat
  BY <1>1, EverywhereType, PositionsFinite DEF TypeOK
<1>8. ASSUME NEW m \in Message
      PROVE  Around(queue', dlq', recv', delivered', gone', m)
             = Around(queue, dlq, recv, delivered, gone, m)
  <2>1. queue' = queue /\ dlq' = dlq /\ delivered' = delivered
    OBVIOUS
  <2>2. /\ gone[m] \in Nat /\ Count(delivered, m) \in Nat
        /\ Everywhere(queue, m) \in Nat /\ Everywhere(dlq, m) \in Nat
        /\ Once(None, m) = 0 /\ Once(x, m) \in Nat
    BY <1>5, <1>7
  <2>3. gone'[m] = gone[m] + Once(x, m)
    BY <1>4
  <2>4. /\ HeldIn(recv, m) \in Nat /\ HeldIn(recv, m) >= Once(x, m)
        /\ HeldIn(recv', m) = (HeldIn(recv, m) - Once(x, m)) + Once(None, m)
    BY <1>6
  <2> HIDE DEF x
  <2> QED BY <2>1, <2>2, <2>3, <2>4 DEF Around
<1>9. \A d \in Receivers : recv'[d].msg # None => pushed[recv'[d].msg] > 0
  <2>1. \A d \in Receivers : recv'[d].msg = None \/ recv'[d].msg = recv[d].msg
    BY <1>1, <1>2
  <2> QED BY <2>1 DEF MailboxInv, UnderInv
<1>10. /\ queue' \in [Names -> Seq(Message)] /\ dlq' \in [Names -> Seq(Message)]
       /\ delivered' \in Seq(Message)
  BY <1>1 DEF TypeOK
<1>11. \A n \in Names : ToSet(queue'[n]) = ToSet(queue[n]) /\ ToSet(dlq'[n]) = ToSet(dlq[n])
  OBVIOUS
<1> QED BY <1>4, <1>8, <1>9, <1>10, <1>11 DEF RecvEffect

LEMMA RecvDelivers ==
  ASSUME MailboxInv, NEW c \in Receivers, Deliver(c)
  PROVE  RecvEffect
<1> DEFINE x == recv[c].msg
<1>1. TypeOK /\ recv \in [Receivers -> RecvState] /\ delivered \in Seq(Message)
  BY DEF MailboxInv, TypeOK
<1>2. x \in Message /\ Resting \in RecvState /\ Resting.msg = None
  BY RecvTypes DEF Resting, Deliver
<1>3. /\ recv' = [recv EXCEPT ![c] = Resting] /\ delivered' = Append(delivered, x)
      /\ UNCHANGED <<queue, dlq, gone>>
  BY DEF Deliver, Receives, mail
<1>4. \A m \in Message : Count(delivered', m) = Count(delivered, m) + Once(x, m)
  BY <1>1, <1>2, <1>3, CountAppend
<1>5. \A m \in Message : Once(None, m) = 0 /\ Once(x, m) \in Nat
  BY MailboxAssumption DEF Once
<1>6. ASSUME NEW m \in Message
      PROVE  /\ HeldIn(recv, m) \in Nat /\ HeldIn(recv, m) >= Once(x, m)
             /\ HeldIn(recv', m) = (HeldIn(recv, m) - Once(x, m)) + Once(None, m)
  <2>1. /\ recv' \in [Receivers -> RecvState] /\ recv'[c] = Resting
        /\ \A d \in Receivers : d # c => recv'[d] = recv[d]
    BY <1>1, <1>2, <1>3
  <2>2. /\ HeldIn(recv, m) \in Nat /\ HeldIn(recv, m) >= Once(recv[c].msg, m)
        /\ HeldIn(recv', m) = (HeldIn(recv, m) - Once(recv[c].msg, m)) + Once(Resting.msg, m)
    BY <1>1, <2>1, HeldUpdate
  <2> QED BY <1>2, <2>2
<1>7. \A m \in Message : /\ gone[m] \in Nat /\ Count(delivered, m) \in Nat
                         /\ Everywhere(queue, m) \in Nat /\ Everywhere(dlq, m) \in Nat
  BY <1>1, EverywhereType, PositionsFinite DEF TypeOK
<1>8. ASSUME NEW m \in Message
      PROVE  Around(queue', dlq', recv', delivered', gone', m)
             = Around(queue, dlq, recv, delivered, gone, m)
  <2>1. queue' = queue /\ dlq' = dlq /\ gone' = gone
    BY <1>3
  <2>2. /\ gone[m] \in Nat /\ Count(delivered, m) \in Nat
        /\ Everywhere(queue, m) \in Nat /\ Everywhere(dlq, m) \in Nat
        /\ Once(None, m) = 0 /\ Once(x, m) \in Nat
    BY <1>5, <1>7
  <2>3. Count(delivered', m) = Count(delivered, m) + Once(x, m)
    BY <1>4
  <2>4. /\ HeldIn(recv, m) \in Nat /\ HeldIn(recv, m) >= Once(x, m)
        /\ HeldIn(recv', m) = (HeldIn(recv, m) - Once(x, m)) + Once(None, m)
    BY <1>6
  <2> HIDE DEF x
  <2> QED BY <2>1, <2>2, <2>3, <2>4 DEF Around
<1>9. \A d \in Receivers : recv'[d].msg # None => pushed[recv'[d].msg] > 0
  <2>1. \A d \in Receivers : recv'[d].msg = None \/ recv'[d].msg = recv[d].msg
    BY <1>1, <1>2, <1>3
  <2> QED BY <2>1 DEF MailboxInv, UnderInv
<1>10. /\ queue' \in [Names -> Seq(Message)] /\ dlq' \in [Names -> Seq(Message)]
       /\ gone' \in [Message -> Nat] /\ delivered' \in Seq(Message)
  BY <1>1, <1>2, <1>3 DEF TypeOK
<1>11. \A n \in Names : ToSet(queue'[n]) = ToSet(queue[n]) /\ ToSet(dlq'[n]) = ToSet(dlq[n])
  BY <1>3
<1> QED BY <1>8, <1>9, <1>10, <1>11 DEF RecvEffect

\* A pop takes the head of the inbox to the receive, or to nobody.
LEMMA RecvPops ==
  ASSUME MailboxInv, NEW c \in Receivers, Pop(c)
  PROVE  RecvEffect
<1> DEFINE n == recv[c].name
           q == queue[n]
           x == Head(q)
           v == IF recv[c].pc = "blocked" THEN [recv[c] EXCEPT !.pc = "popped", !.msg = x] ELSE Resting
<1>1. TypeOK /\ recv \in [Receivers -> RecvState] /\ queue \in [Names -> Seq(Message)]
  BY DEF MailboxInv, TypeOK
<1>2. /\ n \in Names /\ q \in Seq(Message) /\ q # <<>> /\ recv[c].msg = None
      /\ recv[c] \in RecvState /\ Resting \in RecvState
  BY RecvTypes DEF Pop, RecvFits
<1>3. x \in Message /\ Tail(q) \in Seq(Message) /\ x \in ToSet(q)
      /\ ToSet(Tail(q)) \subseteq ToSet(q)
  BY <1>2, ListSets
<1>4. /\ recv' = [recv EXCEPT ![c] = v] /\ queue' = [queue EXCEPT ![n] = Tail(q)]
      /\ dlq' = dlq /\ delivered' = delivered
      /\ gone' = IF recv[c].pc = "blocked" THEN gone ELSE Losing(<<x>>)
  BY DEF Pop, Receives
<1>5. v \in RecvState /\ v.msg = IF recv[c].pc = "blocked" THEN x ELSE None
  <2> HIDE DEF x
  <2> QED BY <1>2, <1>3 DEF RecvState, Resting
<1>6. pushed[x] > 0
  BY <1>2, <1>3 DEF MailboxInv, UnderInv, Under
<1> HIDE DEF x, q, n, v
<1>7. <<x>> \in Seq(Message)
  BY <1>3
<1>8. /\ gone' \in [Message -> Nat]
      /\ \A m \in Message : gone'[m] = gone[m] + IF recv[c].pc = "blocked" THEN 0 ELSE Once(x, m)
  <2>1. \A m \in Message : gone[m] \in Nat /\ gone[m] + 0 = gone[m]
    BY <1>1 DEF TypeOK
  <2>2. gone \in [Message -> Nat]
    BY <1>1 DEF TypeOK
  <2>3. /\ Losing(<<x>>) \in [Message -> Nat]
        /\ \A m \in Message : Losing(<<x>>)[m] = gone[m] + Once(x, m)
    BY <1>1, <1>7, Losings, CountOne
  <2> QED BY <1>4, <2>1, <2>2, <2>3
<1>9. ASSUME NEW m \in Message
      PROVE  Around(queue', dlq', recv', delivered', gone', m)
             = Around(queue, dlq, recv, delivered, gone, m)
  <2>1. /\ gone[m] \in Nat /\ Count(delivered, m) \in Nat /\ Everywhere(dlq, m) \in Nat
    BY <1>1, EverywhereType, PositionsFinite DEF TypeOK
  <2>2. Once(None, m) = 0 /\ Once(x, m) \in Nat
    BY MailboxAssumption DEF Once
  <2>3. /\ HeldIn(recv, m) \in Nat
        /\ HeldIn(recv', m) = (HeldIn(recv, m) - Once(None, m)) + Once(v.msg, m)
    <3>1. /\ recv \in [Receivers -> RecvState] /\ recv' \in [Receivers -> RecvState]
          /\ recv'[c] = v /\ \A d \in Receivers : d # c => recv'[d] = recv[d]
      BY <1>1, <1>4, <1>5
    <3>2. /\ HeldIn(recv, m) \in Nat
          /\ HeldIn(recv', m) = (HeldIn(recv, m) - Once(recv[c].msg, m)) + Once(v.msg, m)
      BY <3>1, HeldUpdate
    <3> QED BY <1>2, <3>2
  <2>4. /\ Everywhere(queue, m) \in Nat /\ Count(q, m) \in Nat /\ Count(Tail(q), m) \in Nat
        /\ Everywhere(queue', m) = (Everywhere(queue, m) - Count(q, m)) + Count(Tail(q), m)
    <3>1. /\ queue \in [Names -> Seq(Message)] /\ queue' \in [Names -> Seq(Message)]
          /\ n \in Names /\ queue'[n] = Tail(q) /\ \A k \in Names : k # n => queue'[k] = queue[k]
      BY <1>1, <1>2, <1>3, <1>4
    <3>2. /\ Everywhere(queue, m) \in Nat /\ Count(queue[n], m) \in Nat /\ Count(queue'[n], m) \in Nat
          /\ Everywhere(queue', m) = (Everywhere(queue, m) - Count(queue[n], m)) + Count(queue'[n], m)
      BY ZenonT(60), <3>1, EverywhereUpdate
    <3> QED BY <3>1, <3>2 DEF q
  <2>5. Count(q, m) = Once(x, m) + Count(Tail(q), m)
    BY <1>2, CountTail DEF x
  <2>6. gone'[m] = gone[m] + IF recv[c].pc = "blocked" THEN 0 ELSE Once(x, m)
    BY <1>8
  <2>7. CASE recv[c].pc = "blocked"
    <3>1. v.msg = x
      BY <1>5, <2>7
    <3>2. gone'[m] = gone[m]
      BY <2>1, <2>6, <2>7
    <3> QED BY SMTT(40), <1>4, <2>1, <2>2, <2>3, <2>4, <2>5, <3>1, <3>2 DEF Around
  <2>8. CASE recv[c].pc # "blocked"
    <3>1. v.msg = None
      BY <1>5, <2>8
    <3>2. gone'[m] = gone[m] + Once(x, m)
      BY <2>6, <2>8
    <3>3. HeldIn(recv', m) = HeldIn(recv, m)
      BY <2>2, <2>3, <3>1
    <3>4. Everywhere(queue', m) = Everywhere(queue, m) - Once(x, m)
      BY <2>2, <2>4, <2>5
    <3>5. dlq' = dlq /\ delivered' = delivered /\ HeldIn(recv, m) \in Nat /\ Everywhere(queue, m) \in Nat
      BY <1>4, <2>3, <2>4
    <3> QED BY <2>1, <2>2, <3>2, <3>3, <3>4, <3>5 DEF Around
  <2> QED BY <2>7, <2>8
<1>10. \A d \in Receivers : recv'[d].msg # None => pushed[recv'[d].msg] > 0
  <2>1. \A d \in Receivers : d # c => recv'[d] = recv[d]
    BY <1>1, <1>4
  <2>2. recv'[c] = v
    BY <1>1, <1>4
  <2> QED BY <1>5, <1>6, <2>1, <2>2 DEF MailboxInv, UnderInv
<1>11. /\ queue' \in [Names -> Seq(Message)] /\ dlq' \in [Names -> Seq(Message)]
       /\ delivered' \in Seq(Message)
  BY <1>1, <1>3, <1>4 DEF TypeOK
<1>12. \A k \in Names : ToSet(queue'[k]) \subseteq ToSet(queue[k]) /\ ToSet(dlq'[k]) = ToSet(dlq[k])
  <2>1. \A k \in Names : queue'[k] = IF k = n THEN Tail(q) ELSE queue[k]
    BY <1>1, <1>4
  <2> QED BY <1>3, <1>4, <2>1 DEF q
<1> QED BY <1>8, <1>9, <1>10, <1>11, <1>12 DEF RecvEffect

\* A parked message is the newest of the dead letters; those trimmed are gone.
LEMMA RecvParks ==
  ASSUME MailboxInv, NEW c \in Receivers, Park(c)
  PROVE  RecvEffect
<1> DEFINE n == recv[c].name
           x == recv[c].msg
           all == <<x>> \o dlq[n]
           t == Trimmed(all)
<1>1. TypeOK /\ recv \in [Receivers -> RecvState] /\ dlq \in [Names -> Seq(Message)]
  BY DEF MailboxInv, TypeOK
<1>2. /\ n \in Names /\ dlq[n] \in Seq(Message) /\ x \in Message /\ x \in Foreign
      /\ Resting \in RecvState /\ Resting.msg = None
  BY RecvTypes DEF Park, RecvFits, Resting
<1>3. /\ recv' = [recv EXCEPT ![c] = Resting] /\ dlq' = [dlq EXCEPT ![n] = t]
      /\ queue' = queue /\ delivered' = delivered /\ gone' = TrimLoses(all)
  BY DEF Park, Receives
<1>4. <<x>> \in Seq(Message) /\ ToSet(<<x>>) = {x}
  BY <1>2 DEF ToSet
<1>5. pushed[x] > 0
  <2>1. x # None
    BY <1>2, MailboxAssumption
  <2> QED BY <2>1 DEF MailboxInv, UnderInv
<1> HIDE DEF n, x
<1>6. all \in Seq(Message) /\ ToSet(all) = {x} \cup ToSet(dlq[n])
  <2> DEFINE a == <<x>>
             b == dlq[n]
  <2>1. a \in Seq(Message) /\ b \in Seq(Message)
    BY <1>2, <1>4
  <2> HIDE DEF a, b
  <2>2. a \o b \in Seq(Message) /\ ToSet(a \o b) = ToSet(a) \cup ToSet(b)
    BY <2>1, JoinSets
  <2> QED BY <1>4, <2>2 DEF a, b
<1>7. ASSUME NEW m PROVE Count(all, m) = Once(x, m) + Count(dlq[n], m)
  <2>1. Count(all, m) = Count(<<x>>, m) + Count(dlq[n], m)
    BY <1>2, <1>4, CountJoin
  <2> QED BY <2>1, CountOne
<1> HIDE DEF all
<1>8. /\ t \in Seq(Message) /\ ToSet(t) \subseteq ToSet(all) /\ gone' \in [Message -> Nat]
      /\ \A m \in Message : /\ Count(t, m) \in Nat /\ Count(all, m) \in Nat
                            /\ gone'[m] + Count(t, m) = gone[m] + Count(all, m)
  BY <1>1, <1>3, <1>6, Trimmings
<1> HIDE DEF t
<1>9. ASSUME NEW m \in Message
      PROVE  Around(queue', dlq', recv', delivered', gone', m)
             = Around(queue, dlq, recv, delivered, gone, m)
  <2>1. /\ gone[m] \in Nat /\ Count(delivered, m) \in Nat /\ Everywhere(queue, m) \in Nat
    BY <1>1, EverywhereType, PositionsFinite DEF TypeOK
  <2>2. Once(None, m) = 0 /\ Once(x, m) \in Nat
    BY MailboxAssumption DEF Once
  <2>3. /\ HeldIn(recv, m) \in Nat /\ HeldIn(recv, m) >= Once(x, m)
        /\ HeldIn(recv', m) = (HeldIn(recv, m) - Once(x, m)) + Once(None, m)
    <3>1. /\ recv \in [Receivers -> RecvState] /\ recv' \in [Receivers -> RecvState]
          /\ recv'[c] = Resting /\ \A d \in Receivers : d # c => recv'[d] = recv[d]
      BY <1>1, <1>2, <1>3
    <3>2. /\ HeldIn(recv, m) \in Nat /\ HeldIn(recv, m) >= Once(recv[c].msg, m)
          /\ HeldIn(recv', m) = (HeldIn(recv, m) - Once(recv[c].msg, m)) + Once(Resting.msg, m)
      BY <3>1, HeldUpdate
    <3> QED BY <1>2, <3>2 DEF x
  <2>4. /\ Everywhere(dlq, m) \in Nat /\ Count(dlq[n], m) \in Nat
        /\ Everywhere(dlq, m) >= Count(dlq[n], m)
        /\ Everywhere(dlq', m) = (Everywhere(dlq, m) - Count(dlq[n], m)) + Count(t, m)
    <3>1. /\ dlq' \in [Names -> Seq(Message)] /\ dlq'[n] = t
          /\ \A k \in Names : k # n => dlq'[k] = dlq[k]
      BY <1>1, <1>2, <1>3, <1>8
    <3> QED BY <1>1, <1>2, <3>1, EverywhereUpdate
  <2>5. /\ gone'[m] \in Nat /\ Count(t, m) \in Nat
        /\ gone'[m] + Count(t, m) = gone[m] + (Once(x, m) + Count(dlq[n], m))
    BY <1>7, <1>8
  <2> QED BY <1>3, <2>1, <2>2, <2>3, <2>4, <2>5 DEF Around
<1>10. \A d \in Receivers : recv'[d].msg # None => pushed[recv'[d].msg] > 0
  <2>1. \A d \in Receivers : recv'[d].msg = None \/ recv'[d].msg = recv[d].msg
    BY <1>1, <1>2, <1>3
  <2> QED BY <2>1 DEF MailboxInv, UnderInv
<1>11. /\ queue' \in [Names -> Seq(Message)] /\ dlq' \in [Names -> Seq(Message)]
       /\ delivered' \in Seq(Message)
  BY <1>1, <1>3, <1>8 DEF TypeOK
<1>12. \A k \in Names : \A m \in ToSet(dlq'[k]) : m \in ToSet(dlq[k]) \/ (m \in Foreign /\ pushed[m] > 0)
  <2>1. \A k \in Names : dlq'[k] = IF k = n THEN t ELSE dlq[k]
    BY <1>1, <1>3
  <2> QED BY <1>2, <1>5, <1>6, <1>8, <2>1
<1>13. \A k \in Names : ToSet(queue'[k]) = ToSet(queue[k])
  BY <1>3
<1> QED BY <1>8, <1>9, <1>10, <1>11, <1>12, <1>13 DEF RecvEffect

LEMMA RecvMail ==
  ASSUME MailboxInv, NEW c \in Receivers, RecvMoves(c)
  PROVE  RecvEffect
<1>1. /\ recv[c] \in RecvState /\ RecvFits(recv[c])
      /\ Resting \in RecvState /\ Resting.msg = None /\ Broken(c) \in RecvState
  BY RecvTypes DEF Resting
<1>2. CASE Pop(c)
  BY <1>2, RecvPops
<1>3. CASE Park(c)
  BY <1>3, RecvParks
<1>4. CASE Deliver(c)
  BY <1>4, RecvDelivers
<1>5. CASE ReceiveFails(c)
  <2>1. /\ recv[c].pc \in {"popped", "parse", "meta"}
        /\ recv' = [recv EXCEPT ![c] = Resting] /\ gone' = Losing(<<recv[c].msg>>)
        /\ UNCHANGED <<queue, dlq, delivered>>
    BY <1>5 DEF ReceiveFails, Receives, mail
  <2> QED BY <2>1, RecvLoses
<1>6. CASE Cancel(c) \/ CloseReceives(c)
  <2>1. CASE recv[c].pc = "popped"
    <3>1. /\ recv' = [recv EXCEPT ![c] = Resting] /\ gone' = Losing(<<recv[c].msg>>)
          /\ UNCHANGED <<queue, dlq, delivered>>
      BY <1>6, <2>1 DEF Cancel, CloseReceives, Receives, Broken, BrokenLoses, mail
    <3> QED BY <2>1, <3>1, RecvLoses
  <2>2. CASE recv[c].pc # "popped"
    <3>1. \/ recv' = [recv EXCEPT ![c] = Resting] /\ recv[c].pc = "connect"
          \/ recv' = [recv EXCEPT ![c] = Broken(c)]
      BY <1>6, <2>2 DEF Cancel, CloseReceives, Receives
    <3>2. UNCHANGED <<queue, dlq, gone, delivered>>
      BY <1>6, <2>2 DEF Cancel, CloseReceives, BrokenLoses, mail
    <3>3. Broken(c).msg = recv[c].msg
      BY <1>1, <2>2 DEF Broken, RecvState
    <3>4. recv[c].pc = "connect" => recv[c].msg = None
      BY <1>1 DEF RecvFits
    <3> QED BY <1>1, <3>1, <3>2, <3>3, <3>4, RecvQuiet
  <2> QED BY <2>1, <2>2
<1>7. CASE \/ \E n \in Names : Receive(c, n)
           \/ Connect(c) \/ PopEnds(c) \/ Arrive(c)
  <2>1. UNCHANGED <<queue, dlq, gone, delivered>>
    BY <1>7 DEF Receive, Connect, PopEnds, Arrive, mail, history
  <2>2. PICK v \in RecvState : recv' = [recv EXCEPT ![c] = v]
    BY RecvBecomes
  <2>3. recv'[c] = v /\ recv \in [Receivers -> RecvState]
    BY <2>2 DEF MailboxInv, TypeOK
  <2>4. recv'[c].msg = recv[c].msg
    BY <1>1, <1>7, <2>3 DEF Receive, Connect, PopEnds, Arrive, Receives, RecvFits, RecvState
  <2> QED BY <2>1, <2>2, <2>3, <2>4, RecvQuiet
<1> QED BY <1>2, <1>3, <1>4, <1>5, <1>6, <1>7 DEF RecvMoves

-----------------------------------------------------------------------------
(***************************************************************************)
(* Names, claims and renames.                                              *)
(***************************************************************************)

\* How often a message is under the names, delivered or gone.
Whole(q, d, c, e, l, g, m) ==
  Everywhere(q, m) + Everywhere(d, m) + Everywhere(c, m) + Everywhere(e, m) + Count(l, m) + g[m]

\* What these steps do to the mail: each message moves, is delivered or counted as gone,
\* and what is under a name afterwards was under one before.
NameEffect ==
  /\ queue' \in [Names -> Seq(Message)] /\ dlq' \in [Names -> Seq(Message)]
  /\ claims' \in [Names -> Seq(Message)] /\ expired' \in [Names -> Seq(Message)]
  /\ gone' \in [Message -> Nat]
  /\ delivered' \in Seq(Message)
  /\ \A m \in Message : Whole(queue', dlq', claims', expired', delivered', gone', m)
                         = Whole(queue, dlq, claims, expired, delivered, gone, m)
  /\ \A n \in Names : \A m \in Under(n)' : \E k \in Names : m \in Under(k)
  /\ rename'.pc = "retire" =>
       \/ rename' = rename /\ \A n \in Names : Under(n)' \subseteq Under(n)
       \/ Under(rename.from)' = {} /\ rename'.from = rename.from /\ rename'.held = rename.held

\* The lists, and what they count to.
LEMMA MailTypes ==
  ASSUME MailboxInv
  PROVE  /\ queue \in [Names -> Seq(Message)] /\ dlq \in [Names -> Seq(Message)]
         /\ claims \in [Names -> Seq(Message)] /\ expired \in [Names -> Seq(Message)]
         /\ gone \in [Message -> Nat] /\ delivered \in Seq(Message) /\ TypeOK
         /\ \A m \in Message : /\ gone[m] \in Nat /\ Count(delivered, m) \in Nat
                               /\ Everywhere(queue, m) \in Nat /\ Everywhere(dlq, m) \in Nat
                               /\ Everywhere(claims, m) \in Nat /\ Everywhere(expired, m) \in Nat
<1>1. /\ queue \in [Names -> Seq(Message)] /\ dlq \in [Names -> Seq(Message)]
      /\ claims \in [Names -> Seq(Message)] /\ expired \in [Names -> Seq(Message)]
      /\ gone \in [Message -> Nat] /\ delivered \in Seq(Message) /\ TypeOK
  BY DEF MailboxInv, TypeOK
<1> QED BY <1>1, EverywhereType, PositionsFinite

\* The same, of one name's lists.
Local(q, d, c, e, l, g, m) ==
  Count(q, m) + Count(d, m) + Count(c, m) + Count(e, m) + Count(l, m) + g[m]

\* A step that changes one name's lists only keeps the sum when it keeps it there.
LEMMA LocalSum ==
  ASSUME MailboxInv, NEW n \in Names, NEW m \in Message,
         queue' \in [Names -> Seq(Message)] /\ \A k \in Names : k # n => queue'[k] = queue[k],
         dlq' \in [Names -> Seq(Message)] /\ \A k \in Names : k # n => dlq'[k] = dlq[k],
         claims' \in [Names -> Seq(Message)] /\ \A k \in Names : k # n => claims'[k] = claims[k],
         expired' \in [Names -> Seq(Message)] /\ \A k \in Names : k # n => expired'[k] = expired[k],
         delivered' \in Seq(Message), gone' \in [Message -> Nat],
         Local(queue'[n], dlq'[n], claims'[n], expired'[n], delivered', gone', m)
           = Local(queue[n], dlq[n], claims[n], expired[n], delivered, gone, m)
  PROVE  Whole(queue', dlq', claims', expired', delivered', gone', m)
           = Whole(queue, dlq, claims, expired, delivered, gone, m)
<1>1. /\ queue \in [Names -> Seq(Message)] /\ dlq \in [Names -> Seq(Message)]
      /\ claims \in [Names -> Seq(Message)] /\ expired \in [Names -> Seq(Message)]
      /\ gone[m] \in Nat /\ Count(delivered, m) \in Nat
  BY MailTypes
<1>2. gone'[m] \in Nat /\ Count(delivered', m) \in Nat
  BY PositionsFinite
<1>3. ASSUME NEW f \in [Names -> Seq(Message)], NEW g \in [Names -> Seq(Message)],
             \A k \in Names : k # n => g[k] = f[k]
      PROVE  /\ Everywhere(f, m) \in Nat /\ Everywhere(g, m) \in Nat
             /\ Count(f[n], m) \in Nat /\ Count(g[n], m) \in Nat
             /\ Everywhere(g, m) = (Everywhere(f, m) - Count(f[n], m)) + Count(g[n], m)
  BY ONLY ZenonT(60), <1>3, f \in [Names -> Seq(Message)], g \in [Names -> Seq(Message)],
     n \in Names,
          EverywhereUpdate
<1>4. /\ Everywhere(queue, m) \in Nat /\ Count(queue[n], m) \in Nat /\ Count(queue'[n], m) \in Nat
      /\ Everywhere(queue', m) = (Everywhere(queue, m) - Count(queue[n], m)) + Count(queue'[n], m)
  BY <1>1, <1>3
<1>5. /\ Everywhere(dlq, m) \in Nat /\ Count(dlq[n], m) \in Nat /\ Count(dlq'[n], m) \in Nat
      /\ Everywhere(dlq', m) = (Everywhere(dlq, m) - Count(dlq[n], m)) + Count(dlq'[n], m)
  BY <1>1, <1>3
<1>6. /\ Everywhere(claims, m) \in Nat /\ Count(claims[n], m) \in Nat /\ Count(claims'[n], m) \in Nat
      /\ Everywhere(claims', m) = (Everywhere(claims, m) - Count(claims[n], m)) + Count(claims'[n], m)
  BY <1>1, <1>3
<1>7. /\ Everywhere(expired, m) \in Nat /\ Count(expired[n], m) \in Nat /\ Count(expired'[n], m) \in Nat
      /\ Everywhere(expired', m) = (Everywhere(expired, m) - Count(expired[n], m)) + Count(expired'[n], m)
  BY <1>1, <1>3
<1>8. Local(queue'[n], dlq'[n], claims'[n], expired'[n], delivered', gone', m)
        = Local(queue[n], dlq[n], claims[n], expired[n], delivered, gone, m)
  OBVIOUS
<1>9. gone[m] \in Nat /\ Count(delivered, m) \in Nat
  BY <1>1
<1> QED BY ONLY <1>2, <1>4, <1>5, <1>6, <1>7, <1>8, <1>9 DEF Whole, Local

\* A step that changes one name's lists only, keeps their sum and adds nothing to them.
LEMMA LocalEffect ==
  ASSUME MailboxInv, NEW n \in Names, rename' = rename \/ rename'.pc # "retire",
         queue' \in [Names -> Seq(Message)] /\ \A k \in Names : k # n => queue'[k] = queue[k],
         dlq' \in [Names -> Seq(Message)] /\ \A k \in Names : k # n => dlq'[k] = dlq[k],
         claims' \in [Names -> Seq(Message)] /\ \A k \in Names : k # n => claims'[k] = claims[k],
         expired' \in [Names -> Seq(Message)] /\ \A k \in Names : k # n => expired'[k] = expired[k],
         delivered' \in Seq(Message), gone' \in [Message -> Nat],
         \A m \in Message : Local(queue'[n], dlq'[n], claims'[n], expired'[n], delivered', gone', m)
                              = Local(queue[n], dlq[n], claims[n], expired[n], delivered, gone, m),
         ToSet(queue'[n]) \cup ToSet(dlq'[n]) \cup ToSet(claims'[n]) \cup ToSet(expired'[n])
           \subseteq Under(n)
  PROVE  NameEffect
<1>1. ASSUME NEW m \in Message
      PROVE  Whole(queue', dlq', claims', expired', delivered', gone', m)
               = Whole(queue, dlq, claims, expired, delivered, gone, m)
  BY LocalSum
<1>2. ASSUME NEW k \in Names PROVE Under(k)' \subseteq Under(k)
  <2>1. CASE k = n
    BY <2>1 DEF Under
  <2>2. CASE k # n
    BY <2>2 DEF Under
  <2> QED BY <2>1, <2>2
<1>3. \A k \in Names : \A m \in Under(k)' : \E j \in Names : m \in Under(j)
  BY <1>2
<1>4. rename'.pc = "retire" => rename' = rename /\ \A k \in Names : Under(k)' \subseteq Under(k)
  BY <1>2
<1> QED BY <1>1, <1>3, <1>4 DEF NameEffect

LEMMA ClaimMail ==
  ASSUME MailboxInv, NEW n \in Names, Claim(n)
  PROVE  NameEffect
<1> DEFINE q == queue[n]
           x == Head(q)
           rest == Tail(q)
           more == Append(claims[n], x)
<1>1. q \in Seq(Message) /\ claims[n] \in Seq(Message) /\ q # <<>>
  BY MailTypes DEF Claim
<1>2. x \in Message /\ rest \in Seq(Message) /\ x \in ToSet(q) /\ ToSet(rest) \subseteq ToSet(q)
  BY <1>1, ListSets
<1>3. \A m : Count(q, m) = Once(x, m) + Count(rest, m)
  BY <1>1, CountTail
<1>4. queue' = [queue EXCEPT ![n] = rest] /\ claims' = [claims EXCEPT ![n] = more]
      /\ UNCHANGED <<dlq, expired, rename, gone, delivered>>
  BY MailTypes DEF Claim, history
<1> HIDE DEF x, rest
<1>5. more \in Seq(Message) /\ ToSet(more) = ToSet(claims[n]) \cup {x}
  BY <1>1, <1>2, ListSets
<1>6. \A m : Count(more, m) = Count(claims[n], m) + Once(x, m)
  BY <1>1, <1>2, CountAppend
<1> HIDE DEF more, q
<1>7. /\ queue' \in [Names -> Seq(Message)] /\ queue'[n] = rest
      /\ \A k \in Names : k # n => queue'[k] = queue[k]
  BY <1>2, <1>4, MailTypes
<1>8. /\ claims' \in [Names -> Seq(Message)] /\ claims'[n] = more
      /\ \A k \in Names : k # n => claims'[k] = claims[k]
  BY <1>4, <1>5, MailTypes
<1>9. /\ dlq' = dlq /\ expired' = expired /\ gone' = gone /\ delivered' = delivered
      /\ rename' = rename
  BY <1>4
<1>10. ASSUME NEW m \in Message
       PROVE  Local(queue'[n], dlq'[n], claims'[n], expired'[n], delivered', gone', m)
              = Local(queue[n], dlq[n], claims[n], expired[n], delivered, gone, m)
  <2>1. /\ Count(rest, m) \in Nat /\ Count(claims[n], m) \in Nat /\ Count(dlq[n], m) \in Nat
        /\ Count(expired[n], m) \in Nat /\ Count(delivered, m) \in Nat /\ gone[m] \in Nat
        /\ Once(x, m) \in Nat
    BY <1>1, <1>2, MailTypes, PositionsFinite DEF Once
  <2>2. Count(queue[n], m) = Once(x, m) + Count(rest, m)
    BY <1>3 DEF q
  <2>3. Count(more, m) = Count(claims[n], m) + Once(x, m)
    BY <1>6
  <2> QED BY <1>7, <1>8, <1>9, <2>1, <2>2, <2>3 DEF Local
<1>11. ToSet(queue'[n]) \cup ToSet(dlq'[n]) \cup ToSet(claims'[n]) \cup ToSet(expired'[n])
         \subseteq Under(n)
  BY <1>2, <1>5, <1>7, <1>8, <1>9 DEF Under, q
<1> QED BY <1>7, <1>8, <1>9, <1>10, <1>11, MailTypes, LocalEffect

\* A resent claim: the head of the inbox takes the place of what the claim held.
LEMMA ResentMail ==
  ASSUME MailboxInv, NEW n \in Names, ClaimResent(n)
  PROVE  NameEffect
<1> DEFINE q == queue[n]
           c == claims[n]
           e == expired[n]
           x == Head(q)
           rest == Tail(q)
<1>1. q \in Seq(Message) /\ c \in Seq(Message) /\ e \in Seq(Message) /\ q # <<>>
  BY MailTypes DEF ClaimResent
<1>2. x \in Message /\ rest \in Seq(Message) /\ x \in ToSet(q) /\ ToSet(rest) \subseteq ToSet(q)
  BY <1>1, ListSets
<1>3. \A m : Count(q, m) = Once(x, m) + Count(rest, m)
  BY <1>1, CountTail
<1>4. /\ queue' = [queue EXCEPT ![n] = rest] /\ dlq' = dlq /\ delivered' = delivered
      /\ rename' = rename
  BY MailTypes DEF ClaimResent
<1>5. \/ \E i \in DOMAIN c : /\ claims' = [claims EXCEPT ![n] = Append(RemoveAt(c, i), x)]
                            /\ gone' = Losing(<<c[i]>>) /\ expired' = expired
      \/ \E i \in DOMAIN e : /\ expired' = [expired EXCEPT ![n] = RemoveAt(e, i)]
                            /\ claims' = [claims EXCEPT ![n] = Append(c, x)]
                            /\ gone' = Losing(<<e[i]>>)
  BY MailTypes DEF ClaimResent
<1> HIDE DEF x, rest, q
<1>6. /\ queue' \in [Names -> Seq(Message)] /\ queue'[n] = rest
      /\ \A k \in Names : k # n => queue'[k] = queue[k]
  BY <1>2, <1>4, MailTypes
<1>7. ASSUME NEW l \in Seq(Message), NEW i \in DOMAIN l
      PROVE  /\ i \in 1..Len(l) /\ l[i] \in Message /\ <<l[i]>> \in Seq(Message)
             /\ RemoveAt(l, i) \in Seq(Message) /\ ToSet(RemoveAt(l, i)) \subseteq ToSet(l)
             /\ \A m : Count(l, m) = Count(RemoveAt(l, i), m) + Once(l[i], m)
  <2>1. i \in 1..Len(l) /\ l[i] \in Message /\ <<l[i]>> \in Seq(Message)
    BY ONLY <1>7, l \in Seq(Message)
  <2>2. RemoveAt(l, i) \in Seq(Message) /\ ToSet(RemoveAt(l, i)) \subseteq ToSet(l)
    BY <2>1, ListSets
  <2>3. ASSUME NEW m PROVE Count(l, m) = Count(RemoveAt(l, i), m) + Once(l[i], m)
    BY ONLY <2>1, l \in Seq(Message), CountRemoveAt
  <2> QED BY <2>1, <2>2, <2>3
<1>8. ASSUME NEW y \in Message, gone' = Losing(<<y>>)
      PROVE  /\ gone' \in [Message -> Nat]
             /\ \A m \in Message : gone'[m] = gone[m] + Once(y, m)
  <2>1. <<y>> \in Seq(Message) /\ TypeOK
    BY <1>8, MailTypes
  <2> QED BY <1>8, <2>1, Losings, CountOne
<1>9. ASSUME NEW l \in Seq(Message)
      PROVE  /\ Append(l, x) \in Seq(Message) /\ ToSet(Append(l, x)) = ToSet(l) \cup {x}
             /\ \A m : Count(Append(l, x), m) = Count(l, m) + Once(x, m)
  BY <1>2, <1>9, ListSets, CountAppend
<1>10. ASSUME NEW m \in Message
       PROVE  /\ Count(rest, m) \in Nat /\ Count(dlq[n], m) \in Nat /\ Count(c, m) \in Nat
              /\ Count(e, m) \in Nat /\ Count(delivered, m) \in Nat /\ gone[m] \in Nat
              /\ Once(x, m) \in Nat /\ Count(queue[n], m) = Once(x, m) + Count(rest, m)
  BY <1>1, <1>2, <1>3, <1>10, MailTypes, PositionsFinite DEF Once, q
<1>11. ASSUME NEW i \in DOMAIN c, claims' = [claims EXCEPT ![n] = Append(RemoveAt(c, i), x)],
              gone' = Losing(<<c[i]>>), expired' = expired
       PROVE  NameEffect
  <2> DEFINE y == c[i]
             less == RemoveAt(c, i)
             more == Append(less, x)
  <2>1. /\ y \in Message /\ less \in Seq(Message) /\ ToSet(less) \subseteq ToSet(c)
        /\ \A m : Count(c, m) = Count(less, m) + Once(y, m)
    BY <1>1, <1>7
  <2>2. claims' = [claims EXCEPT ![n] = more] /\ gone' = Losing(<<y>>) /\ expired' = expired
    BY <1>11
  <2> HIDE DEF y, less
  <2>3. more \in Seq(Message) /\ ToSet(more) = ToSet(less) \cup {x}
        /\ \A m : Count(more, m) = Count(less, m) + Once(x, m)
    BY <1>9, <2>1
  <2> HIDE DEF more
  <2>4. /\ claims' \in [Names -> Seq(Message)] /\ claims'[n] = more
        /\ \A k \in Names : k # n => claims'[k] = claims[k]
    BY <2>2, <2>3, MailTypes
  <2>5. gone' \in [Message -> Nat] /\ \A m \in Message : gone'[m] = gone[m] + Once(y, m)
    BY <1>8, <2>1, <2>2
  <2>6. ASSUME NEW m \in Message
        PROVE  Local(queue'[n], dlq'[n], claims'[n], expired'[n], delivered', gone', m)
               = Local(queue[n], dlq[n], claims[n], expired[n], delivered, gone, m)
    <3>1. Count(less, m) \in Nat /\ Once(y, m) \in Nat
      BY <2>1, PositionsFinite DEF Once
    <3>2. /\ Count(c, m) = Count(less, m) + Once(y, m)
          /\ Count(more, m) = Count(less, m) + Once(x, m) /\ gone'[m] = gone[m] + Once(y, m)
      BY <2>1, <2>3, <2>5
    <3>3. /\ queue'[n] = rest /\ dlq'[n] = dlq[n] /\ claims'[n] = more /\ expired'[n] = e
          /\ delivered' = delivered
      BY <1>4, <1>6, <2>2, <2>4
    <3>4. /\ Count(rest, m) \in Nat /\ Count(dlq[n], m) \in Nat /\ Count(c, m) \in Nat
          /\ Count(e, m) \in Nat /\ Count(delivered, m) \in Nat /\ gone[m] \in Nat
          /\ Once(x, m) \in Nat /\ Count(queue[n], m) = Once(x, m) + Count(rest, m)
      BY <1>10
    <3> QED BY ONLY <3>1, <3>2, <3>3, <3>4 DEF Local
  <2>7. ToSet(queue'[n]) \cup ToSet(dlq'[n]) \cup ToSet(claims'[n]) \cup ToSet(expired'[n])
          \subseteq Under(n)
    BY <1>2, <1>4, <1>6, <2>1, <2>2, <2>3, <2>4 DEF Under, q
  <2> QED BY <1>4, <1>6, <2>2, <2>4, <2>5, <2>6, <2>7, MailTypes, LocalEffect
<1>12. ASSUME NEW i \in DOMAIN e, expired' = [expired EXCEPT ![n] = RemoveAt(e, i)],
              claims' = [claims EXCEPT ![n] = Append(c, x)], gone' = Losing(<<e[i]>>)
       PROVE  NameEffect
  <2> DEFINE y == e[i]
             less == RemoveAt(e, i)
             more == Append(c, x)
  <2>1. /\ y \in Message /\ less \in Seq(Message) /\ ToSet(less) \subseteq ToSet(e)
        /\ \A m : Count(e, m) = Count(less, m) + Once(y, m)
    BY <1>1, <1>7
  <2>2. /\ claims' = [claims EXCEPT ![n] = more] /\ gone' = Losing(<<y>>)
        /\ expired' = [expired EXCEPT ![n] = less]
    BY <1>12
  <2> HIDE DEF y, less
  <2>3. more \in Seq(Message) /\ ToSet(more) = ToSet(c) \cup {x}
        /\ \A m : Count(more, m) = Count(c, m) + Once(x, m)
    BY <1>1, <1>9
  <2> HIDE DEF more
  <2>4. /\ claims' \in [Names -> Seq(Message)] /\ claims'[n] = more
        /\ \A k \in Names : k # n => claims'[k] = claims[k]
    BY <2>2, <2>3, MailTypes
  <2>5. /\ expired' \in [Names -> Seq(Message)] /\ expired'[n] = less
        /\ \A k \in Names : k # n => expired'[k] = expired[k]
    BY <2>1, <2>2, MailTypes
  <2>6. gone' \in [Message -> Nat] /\ \A m \in Message : gone'[m] = gone[m] + Once(y, m)
    BY <1>8, <2>1, <2>2
  <2>7. ASSUME NEW m \in Message
        PROVE  Local(queue'[n], dlq'[n], claims'[n], expired'[n], delivered', gone', m)
               = Local(queue[n], dlq[n], claims[n], expired[n], delivered, gone, m)
    <3>1. Count(less, m) \in Nat /\ Once(y, m) \in Nat
      BY <2>1, PositionsFinite DEF Once
    <3>2. /\ Count(e, m) = Count(less, m) + Once(y, m)
          /\ Count(more, m) = Count(c, m) + Once(x, m) /\ gone'[m] = gone[m] + Once(y, m)
      BY <2>1, <2>3, <2>6
    <3>3. /\ queue'[n] = rest /\ dlq'[n] = dlq[n] /\ claims'[n] = more /\ expired'[n] = less
          /\ delivered' = delivered
      BY <1>4, <1>6, <2>4, <2>5
    <3>4. /\ Count(rest, m) \in Nat /\ Count(dlq[n], m) \in Nat /\ Count(c, m) \in Nat
          /\ Count(e, m) \in Nat /\ Count(delivered, m) \in Nat /\ gone[m] \in Nat
          /\ Once(x, m) \in Nat /\ Count(queue[n], m) = Once(x, m) + Count(rest, m)
      BY <1>10
    <3> QED BY ONLY <3>1, <3>2, <3>3, <3>4 DEF Local
  <2>8. ToSet(queue'[n]) \cup ToSet(dlq'[n]) \cup ToSet(claims'[n]) \cup ToSet(expired'[n])
          \subseteq Under(n)
    BY <1>2, <1>4, <1>6, <2>1, <2>3, <2>4, <2>5 DEF Under, q
  <2> QED BY <1>4, <1>6, <2>4, <2>5, <2>6, <2>7, <2>8, MailTypes, LocalEffect
<1> QED BY <1>5, <1>11, <1>12

LEMMA ExpireMail ==
  ASSUME MailboxInv, NEW n \in Names, ClaimExpires(n)
  PROVE  NameEffect
<1> DEFINE c == claims[n]
           e == expired[n]
<1>1. PICK i \in DOMAIN c : /\ claims' = [claims EXCEPT ![n] = RemoveAt(@, i)]
                            /\ expired' = [expired EXCEPT ![n] = Append(@, c[i])]
  BY DEF ClaimExpires
<1> DEFINE x == c[i]
           less == RemoveAt(c, i)
           more == Append(e, x)
<1>2. c \in Seq(Message) /\ e \in Seq(Message) /\ i \in 1..Len(c) /\ x \in Message
  <2>1. c \in Seq(Message) /\ e \in Seq(Message)
    BY MailTypes
  <2>2. i \in 1..Len(c) /\ x \in Message
    BY ONLY <2>1, i \in DOMAIN c
  <2> QED BY <2>1, <2>2
<1>3. claims' = [claims EXCEPT ![n] = less] /\ expired' = [expired EXCEPT ![n] = more]
  BY <1>1, MailTypes
<1>4. less \in Seq(Message) /\ ToSet(less) \subseteq ToSet(c) /\ x \in ToSet(c)
  BY <1>2, ListSets
<1>5. ASSUME NEW m PROVE Count(c, m) = Count(less, m) + Once(x, m)
  BY ONLY <1>2, CountRemoveAt
<1>6. more \in Seq(Message) /\ ToSet(more) = ToSet(e) \cup {x}
  BY <1>2, ListSets
<1>7. \A m : Count(more, m) = Count(e, m) + Once(x, m)
  BY <1>2, CountAppend
<1> HIDE DEF x, less, more
<1>8. /\ claims' \in [Names -> Seq(Message)] /\ claims'[n] = less
      /\ \A k \in Names : k # n => claims'[k] = claims[k]
  BY <1>3, <1>4, MailTypes
<1>9. /\ expired' \in [Names -> Seq(Message)] /\ expired'[n] = more
      /\ \A k \in Names : k # n => expired'[k] = expired[k]
  BY <1>3, <1>6, MailTypes
<1>10. /\ queue' = queue /\ dlq' = dlq /\ gone' = gone /\ delivered' = delivered
       /\ rename' = rename
  BY DEF ClaimExpires, history
<1>11. ASSUME NEW m \in Message
       PROVE  Local(queue'[n], dlq'[n], claims'[n], expired'[n], delivered', gone', m)
              = Local(queue[n], dlq[n], claims[n], expired[n], delivered, gone, m)
  <2>1. /\ Count(less, m) \in Nat /\ Count(e, m) \in Nat /\ Count(dlq[n], m) \in Nat
        /\ Count(queue[n], m) \in Nat /\ Count(delivered, m) \in Nat /\ gone[m] \in Nat
        /\ Once(x, m) \in Nat
    BY <1>2, <1>4, MailTypes, PositionsFinite DEF Once
  <2>2. Count(c, m) = Count(less, m) + Once(x, m)
    BY <1>5
  <2>3. Count(more, m) = Count(e, m) + Once(x, m)
    BY <1>7
  <2> QED BY <1>8, <1>9, <1>10, <2>1, <2>2, <2>3 DEF Local
<1>12. ToSet(queue'[n]) \cup ToSet(dlq'[n]) \cup ToSet(claims'[n]) \cup ToSet(expired'[n])
         \subseteq Under(n)
  BY <1>4, <1>6, <1>8, <1>9, <1>10 DEF Under
<1> QED BY <1>8, <1>9, <1>10, <1>11, <1>12, MailTypes, LocalEffect

LEMMA AcknowledgeMail ==
  ASSUME MailboxInv, NEW n \in Names, Acknowledge(n)
  PROVE  NameEffect
<1> DEFINE c == claims[n]
<1>1. PICK i \in DOMAIN c : /\ delivered' = Append(delivered, c[i])
                            /\ claims' = [claims EXCEPT ![n] = RemoveAt(@, i)]
  BY DEF Acknowledge
<1> DEFINE x == c[i]
           less == RemoveAt(c, i)
<1>2. c \in Seq(Message) /\ i \in 1..Len(c) /\ x \in Message /\ delivered \in Seq(Message)
  <2>1. c \in Seq(Message) /\ delivered \in Seq(Message)
    BY MailTypes
  <2>2. i \in 1..Len(c) /\ x \in Message
    BY ONLY <2>1, i \in DOMAIN c
  <2> QED BY <2>1, <2>2
<1>3. claims' = [claims EXCEPT ![n] = less] /\ delivered' = Append(delivered, x)
  BY <1>1, MailTypes
<1>4. less \in Seq(Message) /\ ToSet(less) \subseteq ToSet(c)
  BY <1>2, ListSets
<1>5. ASSUME NEW m PROVE Count(c, m) = Count(less, m) + Once(x, m)
  BY ONLY <1>2, CountRemoveAt
<1> HIDE DEF x, less
<1>6. \A m : Count(delivered', m) = Count(delivered, m) + Once(x, m)
  BY <1>2, <1>3, CountAppend
<1>7. delivered' \in Seq(Message)
  BY <1>2, <1>3
<1>8. /\ claims' \in [Names -> Seq(Message)] /\ claims'[n] = less
      /\ \A k \in Names : k # n => claims'[k] = claims[k]
  BY <1>3, <1>4, MailTypes
<1>9. /\ queue' = queue /\ dlq' = dlq /\ gone' = gone /\ expired' = expired
      /\ rename' = rename
  BY DEF Acknowledge
<1>10. ASSUME NEW m \in Message
       PROVE  Local(queue'[n], dlq'[n], claims'[n], expired'[n], delivered', gone', m)
              = Local(queue[n], dlq[n], claims[n], expired[n], delivered, gone, m)
  <2>1. /\ Count(less, m) \in Nat /\ Count(expired[n], m) \in Nat /\ Count(dlq[n], m) \in Nat
        /\ Count(queue[n], m) \in Nat /\ Count(delivered, m) \in Nat /\ gone[m] \in Nat
        /\ Once(x, m) \in Nat
    BY <1>2, <1>4, MailTypes, PositionsFinite DEF Once
  <2>2. Count(c, m) = Count(less, m) + Once(x, m)
    BY <1>5
  <2>3. Count(delivered', m) = Count(delivered, m) + Once(x, m)
    BY <1>6
  <2> QED BY <1>8, <1>9, <2>1, <2>2, <2>3 DEF Local
<1>11. ToSet(queue'[n]) \cup ToSet(dlq'[n]) \cup ToSet(claims'[n]) \cup ToSet(expired'[n])
         \subseteq Under(n)
  BY <1>4, <1>8, <1>9 DEF Under
<1> QED BY <1>7, <1>8, <1>9, <1>10, <1>11, MailTypes, LocalEffect

LEMMA UnregisterMail ==
  ASSUME MailboxInv, NEW n \in Names, Unregister(n)
  PROVE  NameEffect
<1> DEFINE q == queue[n]
           d == dlq[n]
           c == claims[n]
           e == expired[n]
           all == q \o d \o c \o e
<1>1. q \in Seq(Message) /\ d \in Seq(Message) /\ c \in Seq(Message) /\ e \in Seq(Message)
      /\ <<>> \in Seq(Message) /\ TypeOK
  BY MailTypes
<1>2. gone' = Losing(all) /\ delivered' = delivered /\ rename' = rename
  BY DEF Unregister
<1> HIDE DEF q, d, c, e
<1>3. /\ q \o d \in Seq(Message) /\ q \o d \o c \in Seq(Message) /\ all \in Seq(Message)
  BY <1>1
<1>4. ASSUME NEW m PROVE Count(all, m) = Count(q, m) + Count(d, m) + Count(c, m) + Count(e, m)
  <2>1. Count(q \o d, m) = Count(q, m) + Count(d, m)
    BY <1>1, CountJoin
  <2>2. Count(q \o d \o c, m) = Count(q \o d, m) + Count(c, m)
    BY <1>1, <1>3, CountJoin
  <2>3. Count(all, m) = Count(q \o d \o c, m) + Count(e, m)
    BY <1>1, <1>3, CountJoin
  <2> QED BY <2>1, <2>2, <2>3
<1> HIDE DEF all
<1>5. gone' \in [Message -> Nat] /\ \A m \in Message : gone'[m] = gone[m] + Count(all, m)
  BY <1>1, <1>2, <1>3, Losings
<1>6. /\ queue' = [queue EXCEPT ![n] = <<>>] /\ dlq' = [dlq EXCEPT ![n] = <<>>]
      /\ claims' = [claims EXCEPT ![n] = <<>>] /\ expired' = [expired EXCEPT ![n] = <<>>]
  BY DEF Unregister
<1>7. /\ queue' \in [Names -> Seq(Message)] /\ queue'[n] = <<>>
      /\ \A k \in Names : k # n => queue'[k] = queue[k]
  BY <1>1, <1>6, MailTypes
<1>8. /\ dlq' \in [Names -> Seq(Message)] /\ dlq'[n] = <<>>
      /\ \A k \in Names : k # n => dlq'[k] = dlq[k]
  BY <1>1, <1>6, MailTypes
<1>9. /\ claims' \in [Names -> Seq(Message)] /\ claims'[n] = <<>>
      /\ \A k \in Names : k # n => claims'[k] = claims[k]
  BY <1>1, <1>6, MailTypes
<1>10. /\ expired' \in [Names -> Seq(Message)] /\ expired'[n] = <<>>
       /\ \A k \in Names : k # n => expired'[k] = expired[k]
  BY <1>1, <1>6, MailTypes
<1>11. ASSUME NEW m \in Message
       PROVE  Local(queue'[n], dlq'[n], claims'[n], expired'[n], delivered', gone', m)
              = Local(queue[n], dlq[n], claims[n], expired[n], delivered, gone, m)
  <2>1. /\ Count(q, m) \in Nat /\ Count(d, m) \in Nat /\ Count(c, m) \in Nat /\ Count(e, m) \in Nat
        /\ Count(delivered, m) \in Nat /\ gone[m] \in Nat
    BY <1>1, MailTypes, PositionsFinite
  <2>2. gone'[m] = gone[m] + (Count(q, m) + Count(d, m) + Count(c, m) + Count(e, m))
    BY <1>4, <1>5
  <2>3. Local(queue'[n], dlq'[n], claims'[n], expired'[n], delivered', gone', m)
        = 0 + 0 + 0 + 0 + Count(delivered, m) + gone'[m]
    BY <1>2, <1>7, <1>8, <1>9, <1>10, CountNone DEF Local
  <2>4. Local(queue[n], dlq[n], claims[n], expired[n], delivered, gone, m)
        = Count(q, m) + Count(d, m) + Count(c, m) + Count(e, m) + Count(delivered, m) + gone[m]
    BY DEF Local, q, d, c, e
  <2> QED BY ONLY <2>1, <2>2, <2>3, <2>4
<1>12. ToSet(queue'[n]) \cup ToSet(dlq'[n]) \cup ToSet(claims'[n]) \cup ToSet(expired'[n])
         \subseteq Under(n)
  <2>1. ToSet(<<>>) = {}
    BY DEF ToSet
  <2> QED BY <1>7, <1>8, <1>9, <1>10, <2>1
<1> QED BY <1>2, <1>5, <1>7, <1>8, <1>9, <1>10, <1>11, <1>12, MailTypes, LocalEffect

LEMMA RecoverMail ==
  ASSUME MailboxInv, RenameRecover
  PROVE  NameEffect
<1> DEFINE n == rename.from
<1>1. PICK capped \in BOOLEAN : Recovered(n, capped)
  BY DEF RenameRecover
<1>2. n \in Names
  BY DEF MailboxInv, RenameInv, RenameRecover
<1> DEFINE q == queue[n]
           d == dlq[n]
           e == expired[n]
           top == IF capped THEN e ELSE <<>>
           back == IF capped THEN <<>> ELSE e
           dead == top \o d
           t == Trimmed(dead)
<1>3. /\ q \in Seq(Message) /\ d \in Seq(Message) /\ e \in Seq(Message)
      /\ <<>> \in Seq(Message) /\ TypeOK
  BY <1>2, MailTypes
<1>4. /\ expired' = [expired EXCEPT ![n] = <<>>] /\ dlq' = [dlq EXCEPT ![n] = t]
      /\ gone' = TrimLoses(dead)
  BY <1>1 DEF Recovered
<1>5. queue' = [queue EXCEPT ![n] = q \o back]
  <2>1. q \o <<>> = q
    BY <1>3
  <2>2. queue' = IF capped THEN queue ELSE [queue EXCEPT ![n] = @ \o e]
    BY <1>1 DEF Recovered
  <2>3. [queue EXCEPT ![n] = q] = queue
    BY <1>2, MailTypes
  <2> QED BY <2>1, <2>2, <2>3
<1>6. claims' = claims /\ delivered' = delivered /\ rename'.pc # "retire"
  BY DEF RenameRecover, MailboxInv, TypeOK, RenameState
<1>7. top \in Seq(Message) /\ back \in Seq(Message)
      /\ ToSet(top) \subseteq ToSet(e) /\ ToSet(back) \subseteq ToSet(e)
  <2>1. ToSet(<<>>) = {}
    BY DEF ToSet
  <2> QED BY <1>3, <2>1
<1>8. \A m : Count(e, m) = Count(top, m) + Count(back, m)
  <2>1. \A m : Count(<<>>, m) = 0 /\ Count(e, m) \in Nat
    BY <1>3, CountNone, PositionsFinite
  <2> QED BY <2>1
<1> HIDE DEF q, d, e, top, back, n
<1>9. ToSet(dead) = ToSet(top) \cup ToSet(d) /\ ToSet(q \o back) = ToSet(q) \cup ToSet(back)
  BY <1>3, <1>7, JoinSets
<1>10. /\ dead \in Seq(Message) /\ q \o back \in Seq(Message)
       /\ \A m : /\ Count(dead, m) = Count(top, m) + Count(d, m)
                 /\ Count(q \o back, m) = Count(q, m) + Count(back, m)
  BY <1>3, <1>7, CountJoin
<1> DEFINE more == q \o back
<1> HIDE DEF dead, more
<1>11. /\ t \in Seq(Message) /\ ToSet(t) \subseteq ToSet(dead) /\ gone' \in [Message -> Nat]
       /\ \A m \in Message : /\ Count(t, m) \in Nat /\ Count(dead, m) \in Nat
                             /\ gone'[m] + Count(t, m) = gone[m] + Count(dead, m)
  BY <1>3, <1>4, <1>10, Trimmings
<1> HIDE DEF t
<1>12. /\ queue' \in [Names -> Seq(Message)] /\ queue'[n] = more
       /\ \A k \in Names : k # n => queue'[k] = queue[k]
  BY <1>2, <1>5, <1>10, MailTypes DEF more
<1>13. /\ dlq' \in [Names -> Seq(Message)] /\ dlq'[n] = t
       /\ \A k \in Names : k # n => dlq'[k] = dlq[k]
  BY <1>2, <1>4, <1>11, MailTypes
<1>14. /\ expired' \in [Names -> Seq(Message)] /\ expired'[n] = <<>>
       /\ \A k \in Names : k # n => expired'[k] = expired[k]
  BY <1>2, <1>3, <1>4, MailTypes
<1>15. ASSUME NEW m \in Message
       PROVE  Local(queue'[n], dlq'[n], claims'[n], expired'[n], delivered', gone', m)
              = Local(queue[n], dlq[n], claims[n], expired[n], delivered, gone, m)
  <2>1. /\ Count(q, m) \in Nat /\ Count(d, m) \in Nat /\ Count(top, m) \in Nat /\ Count(back, m) \in Nat
        /\ Count(delivered, m) \in Nat /\ gone[m] \in Nat /\ Count(claims[n], m) \in Nat
    BY <1>2, <1>3, <1>7, MailTypes, PositionsFinite
  <2>2. gone'[m] \in Nat /\ Count(t, m) \in Nat
        /\ gone'[m] + Count(t, m) = gone[m] + (Count(top, m) + Count(d, m))
    BY <1>10, <1>11
  <2>3. Local(queue'[n], dlq'[n], claims'[n], expired'[n], delivered', gone', m)
        = (Count(q, m) + Count(back, m)) + Count(t, m) + Count(claims[n], m) + 0
          + Count(delivered, m) + gone'[m]
    BY <1>6, <1>10, <1>12, <1>13, <1>14, CountNone DEF Local, more
  <2>4. Local(queue[n], dlq[n], claims[n], expired[n], delivered, gone, m)
        = Count(q, m) + Count(d, m) + Count(claims[n], m) + (Count(top, m) + Count(back, m))
          + Count(delivered, m) + gone[m]
    BY <1>8 DEF Local, q, d, e
  <2> QED BY ONLY <2>1, <2>2, <2>3, <2>4
<1>16. ToSet(queue'[n]) \cup ToSet(dlq'[n]) \cup ToSet(claims'[n]) \cup ToSet(expired'[n])
         \subseteq Under(n)
  <2>1. ToSet(<<>>) = {}
    BY DEF ToSet
  <2> QED BY <1>6, <1>7, <1>9, <1>11, <1>12, <1>13, <1>14, <2>1 DEF Under, q, d, e, more
<1> QED BY <1>2, <1>6, <1>11, <1>12, <1>13, <1>14, <1>15, <1>16, MailTypes, LocalEffect

\* A change under two names only.
Moves(f, g, n, t) ==
  /\ f \in [Names -> Seq(Message)] /\ g \in [Names -> Seq(Message)]
  /\ n \in Names /\ t \in Names /\ n # t
  /\ \A k \in Names : k # n /\ k # t => g[k] = f[k]

LEMMA EverywhereMove ==
  ASSUME NEW f, NEW g, NEW n, NEW t, Moves(f, g, n, t), NEW m
  PROVE  /\ Everywhere(f, m) \in Nat /\ Everywhere(g, m) \in Nat
         /\ Count(f[n], m) \in Nat /\ Count(g[n], m) \in Nat
         /\ Count(f[t], m) \in Nat /\ Count(g[t], m) \in Nat
         /\ Everywhere(g, m) + (Count(f[n], m) + Count(f[t], m))
            = Everywhere(f, m) + (Count(g[n], m) + Count(g[t], m))
<1> DEFINE h == [f EXCEPT ![t] = g[t]]
<1>1. /\ h \in [Names -> Seq(Message)] /\ h[t] = g[t] /\ h[n] = f[n]
      /\ \A k \in Names : k # t => h[k] = f[k]
      /\ \A k \in Names : k # n => g[k] = h[k]
      /\ f \in [Names -> Seq(Message)] /\ g \in [Names -> Seq(Message)] /\ n \in Names /\ t \in Names
  BY DEF Moves
<1> HIDE DEF h
<1>2. /\ Everywhere(f, m) \in Nat /\ Everywhere(h, m) \in Nat
      /\ Count(f[t], m) \in Nat /\ Count(h[t], m) \in Nat
      /\ Everywhere(h, m) = (Everywhere(f, m) - Count(f[t], m)) + Count(h[t], m)
  <2>1. /\ f \in [Names -> Seq(Message)] /\ h \in [Names -> Seq(Message)] /\ t \in Names
        /\ \A k \in Names : k # t => h[k] = f[k]
    BY <1>1
  <2> QED BY ONLY ZenonT(60), <2>1, EverywhereUpdate
<1>3. /\ Everywhere(g, m) \in Nat
      /\ Count(h[n], m) \in Nat /\ Count(g[n], m) \in Nat
      /\ Everywhere(g, m) = (Everywhere(h, m) - Count(h[n], m)) + Count(g[n], m)
  <2>1. /\ h \in [Names -> Seq(Message)] /\ g \in [Names -> Seq(Message)] /\ n \in Names
        /\ \A k \in Names : k # n => g[k] = h[k]
    BY <1>1
  <2> QED BY ONLY ZenonT(60), <2>1, EverywhereUpdate
<1>4. h[t] = g[t] /\ h[n] = f[n]
  BY <1>1
<1>5. /\ Everywhere(h, m) = (Everywhere(f, m) - Count(f[t], m)) + Count(g[t], m)
      /\ Everywhere(g, m) = (Everywhere(h, m) - Count(f[n], m)) + Count(g[n], m)
  BY ONLY <1>2, <1>3, <1>4
<1>6. /\ Count(f[n], m) \in Nat /\ Count(f[t], m) \in Nat /\ Count(g[n], m) \in Nat
      /\ Count(g[t], m) \in Nat /\ Everywhere(f, m) \in Nat /\ Everywhere(h, m) \in Nat
      /\ Everywhere(g, m) \in Nat
  BY ONLY <1>2, <1>3, <1>4
<1> QED BY ONLY <1>5, <1>6

LEMMA MigrateMail ==
  ASSUME MailboxInv, RenameMigrate
  PROVE  NameEffect
<1> DEFINE n == rename.from
           t == rename.to
           dead == dlq[n] \o dlq[t]
           kept == Trimmed(dead)
           both == queue[t] \o queue[n]
<1>1. n \in Names /\ t \in Names /\ n # t
  BY DEF MailboxInv, RenameInv, RenameMigrate
<1>2. /\ claims[n] = <<>> /\ expired[n] = <<>>
      /\ queue' = [queue EXCEPT ![t] = both, ![n] = <<>>]
      /\ dlq' = [dlq EXCEPT ![t] = kept, ![n] = <<>>]
      /\ gone' = TrimLoses(dead)
  BY <1>1, MailTypes DEF RenameMigrate, MigrateMessages
<1>3. claims' = claims /\ expired' = expired /\ delivered' = delivered
      /\ rename' = [rename EXCEPT !.pc = "retire"]
  BY DEF RenameMigrate
<1>4. rename'.from = n /\ rename'.held = rename.held
  BY <1>3 DEF MailboxInv, TypeOK, RenameState
<1> HIDE DEF n, t
<1>5. /\ queue[n] \in Seq(Message) /\ queue[t] \in Seq(Message)
      /\ dlq[n] \in Seq(Message) /\ dlq[t] \in Seq(Message) /\ <<>> \in Seq(Message) /\ TypeOK
  BY <1>1, MailTypes
<1>6. /\ dead \in Seq(Message) /\ ToSet(dead) = ToSet(dlq[n]) \cup ToSet(dlq[t])
      /\ both \in Seq(Message) /\ ToSet(both) = ToSet(queue[t]) \cup ToSet(queue[n])
  BY <1>5, JoinSets
<1>7. \A m : /\ Count(dead, m) = Count(dlq[n], m) + Count(dlq[t], m)
            /\ Count(both, m) = Count(queue[t], m) + Count(queue[n], m)
  BY <1>5, CountJoin
<1> HIDE DEF dead, both
<1>8. /\ kept \in Seq(Message) /\ ToSet(kept) \subseteq ToSet(dead) /\ gone' \in [Message -> Nat]
      /\ \A m \in Message : /\ Count(kept, m) \in Nat /\ Count(dead, m) \in Nat
                            /\ gone'[m] + Count(kept, m) = gone[m] + Count(dead, m)
  BY <1>2, <1>5, <1>6, Trimmings
<1> HIDE DEF kept
<1>9. /\ queue' \in [Names -> Seq(Message)] /\ queue'[n] = <<>> /\ queue'[t] = both
      /\ \A k \in Names : k # n /\ k # t => queue'[k] = queue[k]
  BY <1>1, <1>2, <1>5, <1>6, MailTypes
<1>10. /\ dlq' \in [Names -> Seq(Message)] /\ dlq'[n] = <<>> /\ dlq'[t] = kept
       /\ \A k \in Names : k # n /\ k # t => dlq'[k] = dlq[k]
  BY <1>1, <1>2, <1>5, <1>8, MailTypes
<1>11. ASSUME NEW m \in Message
       PROVE  Whole(queue', dlq', claims', expired', delivered', gone', m)
              = Whole(queue, dlq, claims, expired, delivered, gone, m)
  <2>1. /\ gone[m] \in Nat /\ Count(delivered, m) \in Nat
        /\ Everywhere(claims, m) \in Nat /\ Everywhere(expired, m) \in Nat
        /\ queue \in [Names -> Seq(Message)] /\ dlq \in [Names -> Seq(Message)]
    BY MailTypes
  <2>2. /\ Everywhere(queue, m) \in Nat /\ Everywhere(queue', m) \in Nat
        /\ Count(queue[n], m) \in Nat /\ Count(queue[t], m) \in Nat
        /\ Everywhere(queue', m) + (Count(queue[n], m) + Count(queue[t], m))
           = Everywhere(queue, m) + (Count(queue'[n], m) + Count(queue'[t], m))
    <3>1. Moves(queue, queue', n, t)
      BY <1>1, <1>9, MailTypes DEF Moves
    <3> QED BY ONLY <3>1, EverywhereMove
  <2>3. /\ Everywhere(dlq, m) \in Nat /\ Everywhere(dlq', m) \in Nat
        /\ Count(dlq[n], m) \in Nat /\ Count(dlq[t], m) \in Nat
        /\ Everywhere(dlq', m) + (Count(dlq[n], m) + Count(dlq[t], m))
           = Everywhere(dlq, m) + (Count(dlq'[n], m) + Count(dlq'[t], m))
    <3>1. Moves(dlq, dlq', n, t)
      BY <1>1, <1>10, MailTypes DEF Moves
    <3> QED BY ONLY <3>1, EverywhereMove
  <2>4. /\ Count(queue'[n], m) = 0 /\ Count(dlq'[n], m) = 0 /\ Count(dlq'[t], m) = Count(kept, m)
        /\ Count(queue'[t], m) = Count(queue[t], m) + Count(queue[n], m)
    BY <1>7, <1>9, <1>10, CountNone
  <2>5. /\ gone'[m] \in Nat /\ Count(kept, m) \in Nat
        /\ gone'[m] + Count(kept, m) = gone[m] + (Count(dlq[n], m) + Count(dlq[t], m))
    BY <1>7, <1>8
  <2>6. Everywhere(queue', m) = Everywhere(queue, m)
    BY ONLY <2>2, <2>4
  <2>7. Everywhere(dlq', m) + gone'[m] = Everywhere(dlq, m) + gone[m]
    <3>1. Everywhere(dlq', m) + (Count(dlq[n], m) + Count(dlq[t], m))
          = Everywhere(dlq, m) + (0 + Count(kept, m))
      BY <2>3, <2>4
    <3>2. /\ Everywhere(dlq, m) \in Nat /\ Everywhere(dlq', m) \in Nat /\ gone[m] \in Nat
          /\ Count(dlq[n], m) \in Nat /\ Count(dlq[t], m) \in Nat
      BY <2>1, <2>3
    <3> QED BY ONLY <2>5, <3>1, <3>2
  <2>8. Whole(queue', dlq', claims', expired', delivered', gone', m)
        = Everywhere(queue, m) + Everywhere(dlq', m) + Everywhere(claims, m)
          + Everywhere(expired, m) + Count(delivered, m) + gone'[m]
    BY <1>3, <2>6 DEF Whole
  <2>9. /\ gone[m] \in Nat /\ Count(delivered, m) \in Nat /\ gone'[m] \in Nat
        /\ Everywhere(claims, m) \in Nat /\ Everywhere(expired, m) \in Nat
        /\ Everywhere(queue, m) \in Nat /\ Everywhere(dlq, m) \in Nat /\ Everywhere(dlq', m) \in Nat
    BY <2>1, <2>2, <2>3, <2>5
  <2> QED BY ONLY <2>7, <2>8, <2>9 DEF Whole
<1>12. ToSet(<<>>) = {}
  BY DEF ToSet
<1>13. ASSUME NEW k \in Names, NEW m \in Under(k)'
       PROVE  \E j \in Names : m \in Under(j)
  <2>1. CASE k = n
    BY <1>1, <1>3, <1>9, <1>10, <1>12, <2>1 DEF Under
  <2>2. CASE k = t
    <3>1. m \in Under(t) \/ m \in Under(n)
      BY <1>3, <1>6, <1>8, <1>9, <1>10, <2>2 DEF Under
    <3> QED BY <1>1, <3>1
  <2>3. CASE k # n /\ k # t
    BY <1>3, <1>9, <1>10, <2>3 DEF Under
  <2> QED BY <2>1, <2>2, <2>3
<1>14. Under(rename.from)' = {}
  BY <1>2, <1>3, <1>4, <1>9, <1>10, <1>12 DEF Under
<1> QED BY <1>3, <1>4, <1>8, <1>9, <1>10, <1>11, <1>13, <1>14, MailTypes DEF NameEffect, n

-----------------------------------------------------------------------------
(***************************************************************************)
(* Sends.                                                                  *)
(***************************************************************************)

\* The pushes of one request say nothing about another.
LEMMA OtherSendsKeep ==
  ASSUME MailboxInv, NEW r \in Requests,
         send'[r] = send[r], dedupe'[r] = dedupe[r], window'[r] = window[r],
         \A k \in Calls : pushed'[<<r, k>>] = pushed[<<r, k>>]
  PROVE  SendInv(r)'
<1> DEFINE s == send[r]
           key == dedupe[r]
           times == window[r]
<1>1. SendFits(r, s, key, times, pushed)
  BY DEF MailboxInv, SendInv
<1>2. s \in SendState /\ \A i \in {r} \X Calls : pushed'[i] = pushed[i]
  BY DEF MailboxInv, TypeOK
<1> HIDE DEF s, key, times
<1>3. s.pc = "push" => pushed'[<<r, s.call>>] = pushed[<<r, s.call>>]
  BY <1>1, <1>2 DEF SendFits
<1>4. SendFits(r, s, key, times, pushed')
  BY <1>1, <1>2, <1>3 DEF SendFits
<1> QED BY <1>4 DEF SendInv, SendFits, s, key, times

LEMMA CallKeeps ==
  ASSUME MailboxInv, NEW r \in Requests, NEW n \in Names, Call(r, n)
  PROVE  SendFits(r, send'[r], dedupe'[r], window'[r], pushed')
<1> DEFINE s == send[r]
           key == dedupe[r]
           times == window[r]
           v == send'[r]
<1>1. SendFits(r, s, key, times, pushed) /\ s \in SendState /\ send \in [Requests -> SendState]
  BY DEF MailboxInv, SendInv, TypeOK
<1>2. UNCHANGED <<dedupe, window, pushed>>
  BY DEF Call, history
<1>3. s.call \in Nat /\ s.call + 1 \in Calls
  BY <1>1, MailboxAssumption DEF Call, SendState, Calls
<1>4. \/ v = [[Unsent EXCEPT !.to = n, !.call = s.call + 1] EXCEPT !.pc = "push"]
      \/ v = [[Unsent EXCEPT !.to = n, !.call = s.call + 1] EXCEPT !.pc = "ended", !.answer = "rejected"]
  BY <1>1 DEF Call
<1>5. /\ v.to = n /\ v.call = s.call + 1
      /\ \/ v.pc = "push" /\ v.answer = None
         \/ v.pc = "ended" /\ v.answer = "rejected"
  BY <1>4 DEF Unsent
<1>6. \A k \in Calls : k > s.call + 1 => k > s.call
  BY <1>3 DEF Calls
<1>7. pushed[<<r, s.call + 1>>] = 0
  <2>1. s.call + 1 > s.call
    BY <1>3
  <2> QED BY <1>1, <1>3, <2>1 DEF SendFits
<1> HIDE DEF s, key, times, v
<1>8. SendFits(r, v, key, times, pushed)
  BY <1>1, <1>3, <1>5, <1>6, <1>7, MailboxAssumption DEF SendFits
<1> QED BY <1>2, <1>8 DEF key, times, v

\* What the run of the push script leaves: the message queued and the key recorded, or
\* everything as it was.
LEMMA PushKeeps ==
  ASSUME MailboxInv, NEW r \in Requests, send[r].pc = "push", RunPush(r),
         NEW v \in SendState,
         \/ v = [send[r] EXCEPT !.resends = @ + 1]
         \/ v = [send[r] EXCEPT !.pc = "ended", !.answer = "lost"]
         \/ v = Answered(send[r], BoundedPush(r))
  PROVE  SendFits(r, v, dedupe'[r], window'[r], pushed')
<1> DEFINE s == send[r]
           m == <<r, s.call>>
           out == BoundedPush(r)
           key == dedupe[r]
           times == window[r]
<1>1. /\ SendFits(r, s, key, times, pushed) /\ s \in SendState /\ TypeOK
      /\ pushed \in [Message -> Nat]
  BY DEF MailboxInv, SendInv, TypeOK
<1>2. /\ s.call \in Calls /\ m \in Message /\ m \in {r} \X Calls /\ s.to \in Names /\ s.answer = None
      /\ \A k \in Calls : k > s.call => <<r, k>> # m /\ <<r, k>> \in Message
  <2>1. s.call \in Calls /\ m \in Message /\ s.to \in Names
    BY PushCases
  <2>2. s.answer = None
    BY <1>1 DEF SendFits
  <2> QED BY <2>1, <2>2 DEF Calls, Message
<1>3. \A i \in {r} \X Calls : i \in Message /\ pushed[i] \in Nat
  BY <1>1 DEF Message
<1>4. CASE /\ out = [answer |-> "sent", id |-> m, pushes |-> TRUE]
           /\ r \in Keyed => key = None
           /\ dedupe' = IF r \in Keyed THEN [dedupe EXCEPT ![r] = m] ELSE dedupe
           /\ pushed' = [pushed EXCEPT ![m] = @ + 1]
           /\ window' = [window EXCEPT ![r] = @ + 1]
  <2> HIDE DEF m, s, out, key, times
  <2>1. /\ pushed'[m] = pushed[m] + 1 /\ pushed[m] \in Nat
        /\ \A i \in Message : i # m => pushed'[i] = pushed[i]
    BY <1>1, <1>2, <1>4
  <2>2. dedupe'[r] = IF r \in Keyed THEN m ELSE key
    BY <1>1, <1>4 DEF TypeOK, key
  <2>3. window'[r] = times + 1
    BY <1>1, <1>4 DEF TypeOK, times
  <2>4. \A i \in {r} \X Calls : pushed[i] > 0 => pushed'[i] > 0
    BY <1>3, <2>1
  <2>5. \A k \in Calls : k > s.call => pushed'[<<r, k>>] = 0
    BY <1>1, <1>2, <2>1 DEF SendFits
  <2>6. pushed'[m] > 0 /\ m # None
    BY <1>2, <2>1, MailboxAssumption
  <2>7. r \in Keyed => times = 0
    BY <1>1, <1>4 DEF SendFits
  <2>8. /\ v.to = s.to /\ v.call = s.call
        /\ \/ v.pc = "push" /\ v.answer = None
           \/ v.pc = "ended" /\ v.answer = "lost"
           \/ v.pc = "ended" /\ v.answer = "sent" /\ v.id = m
    <3>1. out.answer = "sent" /\ out.id = m
      BY <1>4
    <3>2. s \in SendState
      BY <1>1
    <3>3. s.pc = "push" /\ s.answer = None
      BY <1>2 DEF s
    <3>4. CASE v = [s EXCEPT !.resends = @ + 1]
      BY <3>2, <3>3, <3>4 DEF SendState
    <3>5. CASE v = [s EXCEPT !.pc = "ended", !.answer = "lost"]
      BY <3>2, <3>5 DEF SendState
    <3>6. CASE v = Answered(s, out)
      <4>1. v = [s EXCEPT !.pc = "ended", !.answer = out.answer, !.id = out.id]
        BY <3>1, <3>6 DEF Answered
      <4> QED BY <3>1, <3>2, <4>1 DEF SendState
    <3> QED BY <3>4, <3>5, <3>6 DEF s, out
  <2>9. window'[r] = IF r \in Keyed THEN 1 ELSE times + 1
    BY <2>3, <2>7
  <2> QED BY <1>1, <1>2, <2>2, <2>4, <2>5, <2>6, <2>8, <2>9, MailboxAssumption DEF SendFits
<1>5. CASE /\ UNCHANGED <<dedupe, pushed, window>>
           /\ \/ out = [answer |-> "duplicate", id |-> key, pushes |-> FALSE] /\ r \in Keyed /\ key # None
              \/ /\ out = [answer |-> "full", id |-> m, pushes |-> FALSE]
                 /\ r \in Keyed => key = None
  <2> HIDE DEF m, s, out, key, times
  <2>1. dedupe'[r] = key /\ window'[r] = times /\ pushed' = pushed
    BY <1>5 DEF key, times
  <2>2. s.pc = "push" /\ s.answer = None /\ s \in SendState
    BY <1>1, <1>2 DEF s
  <2>3. /\ v.to = s.to /\ v.call = s.call
        /\ \/ v.pc = "push" /\ v.answer = None
           \/ v.pc = "ended" /\ v.answer = "lost"
           \/ v.pc = "ended" /\ v.answer = "duplicate" /\ v.id = key /\ key # None
           \/ v.pc = "ended" /\ v.answer = "full" /\ v.id = m /\ (r \in Keyed => key = None)
    <3>1. CASE v = [s EXCEPT !.resends = @ + 1]
      BY <2>2, <3>1 DEF SendState
    <3>2. CASE v = [s EXCEPT !.pc = "ended", !.answer = "lost"]
      BY <2>2, <3>2 DEF SendState
    <3>3. CASE v = Answered(s, out)
      <4>1. CASE v = [s EXCEPT !.tries = @ + 1]
        BY <2>2, <4>1 DEF SendState
      <4>2. CASE v = [s EXCEPT !.pc = "ended", !.answer = out.answer, !.id = out.id]
        <5>1. /\ v.to = s.to /\ v.call = s.call
              /\ v.pc = "ended" /\ v.answer = out.answer /\ v.id = out.id
          BY <2>2, <4>2 DEF SendState
        <5> QED BY <1>5, <5>1
      <4> QED BY <3>3, <4>1, <4>2 DEF Answered
    <3> QED BY <3>1, <3>2, <3>3 DEF s, out
  <2>4. r \in Keyed /\ key = None => pushed[m] = 0
    BY <1>1, <1>2, <1>3, <2>2 DEF SendFits, m
  <2>5. SendFits(r, v, key, times, pushed)
    BY <1>1, <1>2, <2>2, <2>3, <2>4, MailboxAssumption DEF SendFits
  <2> QED BY <2>1, <2>5
<1> QED BY <1>4, <1>5, PushCases

LEMMA SendStep ==
  ASSUME MailboxInv, NEW r \in Requests, SendMoves(r)
  PROVE  \A q \in Requests : SendInv(q)'
<1>1. /\ send \in [Requests -> SendState] /\ dedupe \in [Requests -> Message \cup {None}]
      /\ window \in [Requests -> Nat] /\ pushed \in [Message -> Nat]
      /\ send' \in [Requests -> SendState]
  BY SendTyped DEF MailboxInv, TypeOK
<1>2. SendFits(r, send'[r], dedupe'[r], window'[r], pushed')
  <2>1. CASE \E n \in Names : Call(r, n)
    BY <2>1, CallKeeps
  <2>2. CASE Push(r)
    <3>1. send'[r] = Answered(send[r], BoundedPush(r)) /\ send'[r] \in SendState
      BY <1>1, <2>2 DEF Push
    <3>2. send[r].pc = "push" /\ RunPush(r)
      BY <2>2 DEF Push
    <3> QED BY <3>1, <3>2, PushKeeps
  <2>3. CASE PushUnanswered(r)
    <3>1. /\ send'[r] \in SendState
          /\ \/ send'[r] = [send[r] EXCEPT !.resends = @ + 1]
             \/ send'[r] = [send[r] EXCEPT !.pc = "ended", !.answer = "lost"]
      BY <1>1, <2>3 DEF PushUnanswered
    <3>2. send[r].pc = "push" /\ RunPush(r)
      BY <2>3 DEF PushUnanswered
    <3> QED BY <3>1, <3>2, PushKeeps
  <2>4. CASE KeyExpires(r)
    <3>1. /\ send' = send /\ pushed' = pushed /\ dedupe'[r] = None /\ window'[r] = 0
          /\ send[r].pc # "push"
      BY <1>1, <2>4 DEF KeyExpires
    <3>2. SendFits(r, send[r], dedupe[r], window[r], pushed)
      BY DEF MailboxInv, SendInv
    <3> QED BY <3>1, <3>2 DEF SendFits
  <2> QED BY <2>1, <2>2, <2>3, <2>4 DEF SendMoves
<1>3. ASSUME NEW q \in Requests, q # r
      PROVE  /\ send'[q] = send[q] /\ dedupe'[q] = dedupe[q] /\ window'[q] = window[q]
             /\ \A k \in Calls : pushed'[<<q, k>>] = pushed[<<q, k>>]
  <2>1. send'[q] = send[q]
    BY <1>1, <1>3 DEF SendMoves, Call, Push, PushUnanswered, KeyExpires
  <2>2. CASE send[r].pc = "push" /\ RunPush(r)
    <3>1. /\ dedupe' = dedupe \/ \E m : dedupe' = [dedupe EXCEPT ![r] = m]
          /\ window' = window \/ window' = [window EXCEPT ![r] = @ + 1]
          /\ pushed' = pushed \/ pushed' = [pushed EXCEPT ![<<r, send[r].call>>] = @ + 1]
      BY <2>2, PushCases
    <3>2. \A k \in Calls : <<q, k>> \in Message /\ <<q, k>> # <<r, send[r].call>>
      BY <1>3 DEF Message
    <3>3. \A k \in Calls : pushed'[<<q, k>>] = pushed[<<q, k>>]
      BY <1>1, <3>1, <3>2
    <3> QED BY <1>1, <1>3, <2>1, <3>1, <3>3
  <2>3. CASE \E n \in Names : Call(r, n)
    BY <2>1, <2>3 DEF Call, history
  <2>4. CASE KeyExpires(r)
    BY <1>1, <1>3, <2>1, <2>4 DEF KeyExpires
  <2> QED BY <2>2, <2>3, <2>4 DEF SendMoves, Push, PushUnanswered
<1>4. SendInv(r)'
  BY <1>2 DEF SendInv, SendFits
<1>5. ASSUME NEW q \in Requests, q # r PROVE SendInv(q)'
  BY <1>3, <1>5, OtherSendsKeep
<1> QED BY <1>4, <1>5

-----------------------------------------------------------------------------
(***************************************************************************)
(* The steps.                                                              *)
(***************************************************************************)

MailInv == UnderInv /\ RenameInv /\ Conservation

\* A step that leaves the mail alone.
LEMMA MailKept ==
  ASSUME MailboxInv, UNCHANGED <<queue, dlq, claims, expired, recv, rename, pushed, gone, delivered>>
  PROVE  MailInv'
<1>1. UnderInv'
  BY DEF MailboxInv, UnderInv, Under
<1>2. RenameInv'
  BY DEF MailboxInv, RenameInv, Under
<1>3. Conservation'
  BY DEF MailboxInv, Conservation, Held
<1> QED BY <1>1, <1>2, <1>3 DEF MailInv

\* A message is put in an inbox, by a send or by another program.
LEMMA MailQueued ==
  ASSUME MailboxInv, NEW n \in Names, NEW x \in Message,
         queue' = [queue EXCEPT ![n] = Append(@, x)],
         pushed' = [pushed EXCEPT ![x] = @ + 1],
         UNCHANGED <<dlq, claims, expired, recv, rename, gone, delivered>>
  PROVE  MailInv'
<1> DEFINE more == Append(queue[n], x)
<1>1. /\ queue \in [Names -> Seq(Message)] /\ queue[n] \in Seq(Message)
      /\ pushed \in [Message -> Nat] /\ rename \in RenameState
      /\ recv \in [Receivers -> RecvState]
  BY MailTypes DEF TypeOK
<1>2. more \in Seq(Message) /\ ToSet(more) = ToSet(queue[n]) \cup {x}
  BY <1>1, ListSets
<1>3. ASSUME NEW m \in Message PROVE Count(more, m) = Count(queue[n], m) + Once(x, m)
  BY <1>1, CountAppend
<1> HIDE DEF more
<1>4. /\ queue' \in [Names -> Seq(Message)] /\ queue'[n] = more
      /\ \A k \in Names : k # n => queue'[k] = queue[k]
  BY <1>1, <1>2 DEF more
<1>5. /\ dlq' = dlq /\ claims' = claims /\ expired' = expired /\ recv' = recv
      /\ rename' = rename /\ gone' = gone /\ delivered' = delivered
  OBVIOUS
<1>6. \A m \in Message : pushed[m] \in Nat /\ pushed'[m] = pushed[m] + Once(x, m)
  BY <1>1 DEF Once
<1>7. ASSUME NEW k \in Names PROVE Under(k)' \subseteq Under(k) \cup {x}
  <2>1. CASE k = n
    BY <1>2, <1>4, <1>5, <2>1 DEF Under
  <2>2. CASE k # n
    BY <1>4, <1>5, <2>2 DEF Under
  <2> QED BY <2>1, <2>2
<1>8. \A m \in Message : pushed[m] > 0 => pushed'[m] > 0
  BY <1>6 DEF Once
<1>9. pushed'[x] > 0 /\ pushed'[x] = pushed[x] + 1
  BY <1>6 DEF Once
<1>10. ASSUME NEW k \in Names PROVE Under(k) \subseteq Message
  BY <1>10, MailTypes, ListSets DEF Under
<1>11. UnderInv'
  <2>1. ASSUME NEW k \in Names, NEW m \in Under(k)' PROVE pushed'[m] > 0
    BY <1>7, <1>8, <1>9, <1>10, <2>1 DEF MailboxInv, UnderInv
  <2>2. ASSUME NEW c \in Receivers, recv[c].msg # None PROVE pushed'[recv[c].msg] > 0
    <3>1. recv[c].msg \in Message
      BY <1>1, <2>2 DEF RecvState
    <3> QED BY <1>8, <2>2, <3>1 DEF MailboxInv, UnderInv
  <2> QED BY <1>5, <2>1, <2>2 DEF UnderInv
<1>12. RenameInv'
  <2>1. \A m \in rename.held : m \in Message /\ pushed[m] > 0
    BY <1>1 DEF RenameState, MailboxInv, RenameInv
  <2>2. ASSUME NEW m \in rename.held \cap Under(rename.from)', rename.pc = "retire", m \notin Foreign
        PROVE  pushed'[m] > 1
    <3>1. rename.from \in Names
      BY <2>2 DEF MailboxInv, RenameInv
    <3>2. CASE m = x
      BY <1>6, <1>9, <2>1, <3>2
    <3>3. CASE m \in Under(rename.from)
      <4>1. pushed[m] > 1
        BY <2>2, <3>3 DEF MailboxInv, RenameInv
      <4> QED BY <1>6, <2>1, <4>1 DEF Once
    <3> QED BY <1>7, <3>1, <3>2, <3>3
  <2>3. \A m \in rename.held : pushed'[m] > 0
    BY <1>8, <2>1
  <2> QED BY <1>5, <2>2, <2>3 DEF MailboxInv, RenameInv
<1>13. Conservation'
  <2>1. ASSUME NEW m \in Message
        PROVE  pushed'[m] = Everywhere(queue', m) + Everywhere(dlq, m) + Everywhere(claims, m)
                            + Everywhere(expired, m) + Held(m) + Count(delivered, m) + gone[m]
    <3>1. /\ Everywhere(queue, m) \in Nat /\ Count(queue[n], m) \in Nat
          /\ Everywhere(queue', m) = (Everywhere(queue, m) - Count(queue[n], m)) + Count(queue'[n], m)
      BY ONLY ZenonT(60), <1>1, <1>4, n \in Names, EverywhereUpdate
    <3>2. Count(queue'[n], m) = Count(queue[n], m) + Once(x, m)
      BY <1>3, <1>4
    <3>3. Held(m) \in Nat
      <4>1. Held(m) = HeldIn(recv, m)
        BY DEF Held, HeldIn
      <4> QED BY <1>1, <4>1, HeldType
    <3>4. pushed[m] = Everywhere(queue, m) + Everywhere(dlq, m) + Everywhere(claims, m)
                      + Everywhere(expired, m) + Held(m) + Count(delivered, m) + gone[m]
      BY DEF MailboxInv, Conservation
    <3>5. /\ gone[m] \in Nat /\ Count(delivered, m) \in Nat /\ Everywhere(dlq, m) \in Nat
          /\ Everywhere(claims, m) \in Nat /\ Everywhere(expired, m) \in Nat
      BY MailTypes
    <3>6. pushed'[m] = pushed[m] + Once(x, m) /\ Once(x, m) \in Nat
      BY <1>6 DEF Once
    <3> QED BY ONLY <3>1, <3>2, <3>3, <3>4, <3>5, <3>6
  <2> QED BY <1>5, <2>1 DEF Conservation, Held
<1> QED BY <1>11, <1>12, <1>13 DEF MailInv

\* A receive moves.
LEMMA MailReceived ==
  ASSUME MailboxInv, RecvEffect, UNCHANGED <<claims, expired, rename, pushed>>
  PROVE  MailInv'
<1>1. claims' = claims /\ expired' = expired /\ rename' = rename /\ pushed' = pushed
  OBVIOUS
<1>2. ASSUME NEW n \in Names, NEW m \in Under(n)'
      PROVE  m \in Under(n) \/ (m \in Foreign /\ pushed[m] > 0)
  <2>1. ToSet(queue'[n]) \subseteq ToSet(queue[n])
    BY DEF RecvEffect
  <2>2. m \in ToSet(dlq'[n]) => m \in ToSet(dlq[n]) \/ (m \in Foreign /\ pushed[m] > 0)
    BY DEF RecvEffect
  <2> QED BY <1>1, <1>2, <2>1, <2>2 DEF Under
<1>3. UnderInv'
  <2>1. ASSUME NEW n \in Names, NEW m \in Under(n)' PROVE pushed[m] > 0
    BY <1>2, <2>1 DEF MailboxInv, UnderInv
  <2>2. \A c \in Receivers : recv'[c].msg # None => pushed[recv'[c].msg] > 0
    BY DEF RecvEffect
  <2> QED BY <1>1, <2>1, <2>2 DEF UnderInv
<1>4. RenameInv'
  <2>1. ASSUME NEW m \in rename.held \cap Under(rename.from)', rename.pc = "retire"
        PROVE  m \in Foreign \/ pushed[m] > 1
    <3>1. rename.from \in Names /\ rename'.from = rename.from
      BY <1>1, <2>1 DEF MailboxInv, RenameInv
    <3>2. m \in Under(rename.from) \/ m \in Foreign
      BY <1>2, <2>1, <3>1
    <3> QED BY <2>1, <3>2 DEF MailboxInv, RenameInv
  <2> QED BY <1>1, <2>1 DEF MailboxInv, RenameInv
<1>5. Conservation'
  <2>1. ASSUME NEW m \in Message
        PROVE  pushed[m] = Everywhere(queue', m) + Everywhere(dlq', m) + Everywhere(claims, m)
                           + Everywhere(expired, m) + HeldIn(recv', m) + Count(delivered', m) + gone'[m]
    <3>1. /\ gone[m] \in Nat /\ Count(delivered, m) \in Nat /\ Everywhere(queue, m) \in Nat
          /\ Everywhere(dlq, m) \in Nat /\ Everywhere(claims, m) \in Nat
          /\ Everywhere(expired, m) \in Nat
      BY MailTypes
    <3>2. /\ gone'[m] \in Nat /\ Count(delivered', m) \in Nat /\ Everywhere(queue', m) \in Nat
          /\ Everywhere(dlq', m) \in Nat
      <4>1. /\ gone' \in [Message -> Nat] /\ delivered' \in Seq(Message)
            /\ queue' \in [Names -> Seq(Message)] /\ dlq' \in [Names -> Seq(Message)]
        BY DEF RecvEffect
      <4> QED BY ONLY <4>1, m \in Message, EverywhereType, PositionsFinite
    <3>3. HeldIn(recv, m) \in Nat /\ HeldIn(recv', m) \in Nat
      BY HeldType
    <3>4. Around(queue', dlq', recv', delivered', gone', m) = Around(queue, dlq, recv, delivered, gone, m)
      BY DEF RecvEffect
    <3>5. pushed[m] = Everywhere(queue, m) + Everywhere(dlq, m) + Everywhere(claims, m)
                      + Everywhere(expired, m) + HeldIn(recv, m) + Count(delivered, m) + gone[m]
      BY DEF MailboxInv, Conservation, Held, HeldIn
    <3> DEFINE others == Everywhere(claims, m) + Everywhere(expired, m)
    <3>6. pushed[m] = Around(queue, dlq, recv, delivered, gone, m) + others
      BY ONLY <3>1, <3>3, <3>5 DEF Around
    <3>7. Around(queue', dlq', recv', delivered', gone', m) + others
            = Everywhere(queue', m) + Everywhere(dlq', m) + Everywhere(claims, m)
              + Everywhere(expired, m) + HeldIn(recv', m) + Count(delivered', m) + gone'[m]
      BY ONLY <3>1, <3>2, <3>3 DEF Around
    <3> QED BY <3>4, <3>6, <3>7
  <2> QED BY <1>1, <2>1 DEF Conservation, Held, HeldIn
<1> QED BY <1>3, <1>4, <1>5 DEF MailInv

\* A claim, an unregistration or a rename moves mail.
LEMMA MailMoved ==
  ASSUME MailboxInv, NameEffect, UNCHANGED <<recv, pushed>>,
         \/ rename' = rename
         \/ /\ rename.pc # "idle" /\ rename'.held = rename.held
            /\ rename'.from = rename.from /\ rename'.to = rename.to
  PROVE  MailInv'
<1>1. recv' = recv /\ pushed' = pushed
  OBVIOUS
<1>2. UnderInv'
  <2>1. ASSUME NEW n \in Names, NEW m \in Under(n)' PROVE pushed[m] > 0
    <3>1. \E k \in Names : m \in Under(k)
      BY <2>1 DEF NameEffect
    <3> QED BY <3>1 DEF MailboxInv, UnderInv
  <2> QED BY <1>1, <2>1 DEF UnderInv, MailboxInv
<1>3. RenameInv'
  <2>1. ASSUME NEW m \in rename'.held \cap Under(rename.from)', rename'.pc = "retire"
        PROVE  m \in Foreign \/ pushed[m] > 1
    <3>1. CASE rename' = rename /\ \A n \in Names : Under(n)' \subseteq Under(n)
      <4>1. rename.from \in Names /\ rename'.from = rename.from
        BY <2>1, <3>1 DEF MailboxInv, RenameInv
      <4>2. m \in Under(rename.from)
        BY <2>1, <3>1, <4>1
      <4> QED BY <2>1, <3>1, <4>2 DEF MailboxInv, RenameInv
    <3>2. CASE Under(rename.from)' = {}
      BY <2>1, <3>2
    <3> QED BY <2>1, <3>1, <3>2 DEF NameEffect
  <2>2. rename'.pc # "idle" => /\ rename'.from \in Names /\ rename'.to \in Names
                               /\ rename'.from # rename'.to
    BY DEF MailboxInv, RenameInv
  <2>3. \A m \in rename'.held : pushed[m] > 0
    BY DEF MailboxInv, RenameInv
  <2> QED BY <1>1, <2>1, <2>2, <2>3 DEF RenameInv
<1>4. Conservation'
  <2>1. ASSUME NEW m \in Message
        PROVE  pushed[m] = Everywhere(queue', m) + Everywhere(dlq', m) + Everywhere(claims', m)
                           + Everywhere(expired', m) + HeldIn(recv, m) + Count(delivered', m) + gone'[m]
    <3>1. /\ gone[m] \in Nat /\ Count(delivered, m) \in Nat /\ Everywhere(queue, m) \in Nat
          /\ Everywhere(dlq, m) \in Nat /\ Everywhere(claims, m) \in Nat
          /\ Everywhere(expired, m) \in Nat
      BY MailTypes
    <3>2. /\ gone'[m] \in Nat /\ Count(delivered', m) \in Nat /\ Everywhere(queue', m) \in Nat
          /\ Everywhere(dlq', m) \in Nat /\ Everywhere(claims', m) \in Nat
          /\ Everywhere(expired', m) \in Nat
      BY EverywhereType, PositionsFinite DEF NameEffect
    <3>3. HeldIn(recv, m) \in Nat
      BY HeldType
    <3>4. Whole(queue', dlq', claims', expired', delivered', gone', m)
            = Whole(queue, dlq, claims, expired, delivered, gone, m)
      BY DEF NameEffect
    <3>5. pushed[m] = Everywhere(queue, m) + Everywhere(dlq, m) + Everywhere(claims, m)
                      + Everywhere(expired, m) + HeldIn(recv, m) + Count(delivered, m) + gone[m]
      BY DEF MailboxInv, Conservation, Held, HeldIn
    <3> QED BY ONLY <3>1, <3>2, <3>3, <3>4, <3>5 DEF Whole
  <2> QED BY <1>1, <2>1 DEF Conservation, Held, HeldIn
<1> QED BY <1>2, <1>3, <1>4 DEF MailInv

\* A rename begins, or ends with the mail where it is.
LEMMA MailRenamed ==
  ASSUME MailboxInv, UNCHANGED <<queue, dlq, claims, expired, recv, pushed, gone, delivered>>,
         \/ rename' = NoRename
         \/ /\ rename'.pc = "recover" /\ rename'.from \in Names /\ rename'.to \in Names
            /\ rename'.from # rename'.to /\ rename'.held \in {Under(n) : n \in Names}
  PROVE  MailInv'
<1>1. UnderInv'
  BY DEF MailboxInv, UnderInv, Under
<1>2. RenameInv'
  <2>1. rename'.pc # "retire"
    BY DEF NoRename
  <2>2. \A m \in rename'.held : pushed[m] > 0
    BY DEF NoRename, MailboxInv, UnderInv
  <2> QED BY <2>1, <2>2 DEF RenameInv, NoRename
<1>3. Conservation'
  BY DEF MailboxInv, Conservation, Held
<1> QED BY <1>1, <1>2, <1>3 DEF MailInv

LEMMA SendsKept ==
  ASSUME MailboxInv, UNCHANGED <<send, dedupe, window, pushed>>
  PROVE  \A r \in Requests : SendInv(r)'
BY OtherSendsKeep

LEMMA ReceivesKept ==
  ASSUME MailboxInv, UNCHANGED <<recv, closed>>
  PROVE  (\A c \in Receivers : RecvInv(c)') /\ ClosedNeverParked'
<1>1. \A c \in Receivers : RecvInv(c)'
  BY DEF MailboxInv, RecvInv, RecvFits
<1> QED BY <1>1 DEF MailboxInv, ClosedNeverParked

LEMMA SendsStep ==
  ASSUME MailboxInv, NEW r \in Requests, SendMoves(r)
  PROVE  MailboxInv'
<1>1. UNCHANGED <<recv, closed>>
  BY DEF SendMoves, Call, Push, PushUnanswered, KeyExpires
<1>2. MailInv'
  <2>1. CASE send[r].pc = "push" /\ RunPush(r) /\ (Push(r) \/ PushUnanswered(r))
    <3>1. UNCHANGED <<dlq, claims, expired, recv, rename, gone, delivered>>
      BY <2>1 DEF Push, PushUnanswered
    <3>2. CASE UNCHANGED <<queue, pushed>>
      BY <3>1, <3>2, MailKept
    <3>3. CASE /\ queue' = [queue EXCEPT ![send[r].to] = Append(@, <<r, send[r].call>>)]
               /\ pushed' = [pushed EXCEPT ![<<r, send[r].call>>] = @ + 1]
      <4>1. send[r].to \in Names /\ <<r, send[r].call>> \in Message
        BY <2>1, PushCases
      <4> QED BY <3>1, <3>3, <4>1, MailQueued
    <3> QED BY <2>1, <3>2, <3>3, PushCases
  <2>2. CASE (\E n \in Names : Call(r, n)) \/ KeyExpires(r)
    <3>1. UNCHANGED <<queue, dlq, claims, expired, recv, rename, pushed, gone, delivered>>
      BY <2>2 DEF Call, KeyExpires, mail, history
    <3> QED BY <3>1, MailKept
  <2> QED BY <2>1, <2>2 DEF SendMoves, Push, PushUnanswered
<1> QED BY SMTT(40), <1>1, <1>2, SendTyped, SendStep, ReceivesKept DEF MailboxInv, MailInv

LEMMA ForeignStep ==
  ASSUME MailboxInv, NEW g \in Foreign, NEW n \in Names, ForeignPush(g, n)
  PROVE  MailboxInv'
<1>1. TypeOK /\ g \in Message /\ queue[n] \in Seq(Message) /\ pushed[g] = 0
  BY DEF MailboxInv, TypeOK, Message, ForeignPush
<1>2. /\ queue' = [queue EXCEPT ![n] = Append(@, g)]
      /\ pushed' = [pushed EXCEPT ![g] = @ + 1]
      /\ UNCHANGED <<dlq, claims, expired, recv, closed, rename, gone, delivered, send, dedupe, window,
                     registered, durable, scenario>>
  BY <1>1 DEF ForeignPush, names, TypeOK
<1>3. Append(queue[n], g) \in Seq(Message)
  BY <1>1
<1>4. queue' \in [Names -> Seq(Message)]
  BY <1>1, <1>2, <1>3 DEF TypeOK
<1>5. pushed' \in [Message -> Nat]
  BY <1>1, <1>2 DEF TypeOK
<1>6. TypeOK'
  BY <1>1, <1>2, <1>4, <1>5 DEF TypeOK
<1>7. ASSUME NEW r \in Requests PROVE SendInv(r)'
  <2>1. \A k \in Calls : <<r, k>> \in Message /\ <<r, k>> # g
    BY MailboxAssumption DEF Message
  <2>2. \A k \in Calls : pushed'[<<r, k>>] = pushed[<<r, k>>]
    BY <1>1, <1>2, <2>1 DEF TypeOK
  <2> QED BY <1>2, <2>2, OtherSendsKeep
<1>8. MailInv'
  BY <1>1, <1>2, MailQueued
<1> QED BY <1>2, <1>6, <1>7, <1>8, ReceivesKept DEF MailboxInv, MailInv

\* A parking whose answer was lost: the payload is parked, and will be again.
LEMMA ParkedAgain ==
  ASSUME MailboxInv, NEW c \in Receivers, ParkUnanswered(c)
  PROVE  MailboxInv'
<1> DEFINE n == recv[c].name
           x == recv[c].msg
           all == <<x>> \o dlq[n]
           t == Trimmed(all)
<1>1. TypeOK /\ dlq \in [Names -> Seq(Message)] /\ pushed \in [Message -> Nat]
  BY DEF MailboxInv, TypeOK
<1>2. n \in Names /\ dlq[n] \in Seq(Message) /\ x \in Message /\ x \in Foreign
  BY RecvTypes DEF ParkUnanswered, RecvFits
<1>3. /\ dlq' = [dlq EXCEPT ![n] = t] /\ gone' = TrimLoses(all)
      /\ pushed' = [pushed EXCEPT ![x] = @ + 1]
      /\ UNCHANGED <<queue, claims, expired, registered, durable, dedupe, send, recv, closed, rename,
                     scenario, delivered, window>>
  BY DEF ParkUnanswered, names
<1> HIDE DEF n, x
<1>4. /\ all \in Seq(Message) /\ ToSet(all) = {x} \cup ToSet(dlq[n])
      /\ \A m : Count(all, m) = Once(x, m) + Count(dlq[n], m)
  <2> DEFINE a == <<x>>
  <2>1. a \in Seq(Message) /\ ToSet(a) = {x} /\ \A m : Count(a, m) = Once(x, m)
    BY <1>2, CountOne DEF ToSet
  <2> HIDE DEF a
  <2>2. /\ a \o dlq[n] \in Seq(Message) /\ ToSet(a \o dlq[n]) = ToSet(a) \cup ToSet(dlq[n])
        /\ \A m : Count(a \o dlq[n], m) = Count(a, m) + Count(dlq[n], m)
    BY <1>2, <2>1, JoinSets, CountJoin
  <2>3. all = a \o dlq[n]
    BY DEF a
  <2> HIDE DEF all
  <2> QED BY <2>1, <2>2, <2>3
<1> HIDE DEF all
<1>5. /\ t \in Seq(Message) /\ ToSet(t) \subseteq ToSet(all) /\ gone' \in [Message -> Nat]
      /\ \A m \in Message : /\ Count(t, m) \in Nat /\ Count(all, m) \in Nat
                            /\ gone'[m] + Count(t, m) = gone[m] + Count(all, m)
  BY <1>1, <1>3, <1>4, Trimmings
<1> HIDE DEF t
<1>6. /\ dlq' \in [Names -> Seq(Message)] /\ dlq'[n] = t
      /\ \A k \in Names : k # n => dlq'[k] = dlq[k]
  BY <1>1, <1>2, <1>3, <1>5
<1>7. /\ pushed' \in [Message -> Nat]
      /\ \A m \in Message : pushed[m] \in Nat /\ pushed'[m] = pushed[m] + Once(x, m)
  BY <1>1, <1>2, <1>3 DEF Once
<1>8. TypeOK'
  BY <1>1, <1>3, <1>5, <1>6, <1>7 DEF TypeOK
<1>9. ASSUME NEW r \in Requests PROVE SendInv(r)'
  <2>1. \A k \in Calls : <<r, k>> \in Message /\ <<r, k>> # x
    BY <1>2, MailboxAssumption DEF Message
  <2>2. \A k \in Calls : pushed'[<<r, k>>] = pushed[<<r, k>>]
    BY <1>1, <1>3, <2>1
  <2> QED BY <1>3, <2>2, OtherSendsKeep
<1>10. ASSUME NEW k \in Names PROVE Under(k)' \subseteq Under(k) \cup {x} /\ Under(k) \subseteq Message
  <2>1. Under(k) \subseteq Message
    <3>1. /\ queue[k] \in Seq(Message) /\ dlq[k] \in Seq(Message)
          /\ claims[k] \in Seq(Message) /\ expired[k] \in Seq(Message)
      BY <1>10, MailTypes
    <3>2. \A s \in Seq(Message) : ToSet(s) \subseteq Message
      BY DEF ToSet
    <3> QED BY <3>1, <3>2 DEF Under
  <2>2. ToSet(dlq'[k]) \subseteq ToSet(dlq[k]) \cup {x}
    BY <1>4, <1>5, <1>6
  <2> QED BY <1>3, <2>1, <2>2 DEF Under
<1>11. \A m \in Message : pushed[m] > 0 => pushed'[m] > 0
  BY <1>7 DEF Once
<1>12. pushed'[x] > 0
  BY <1>2, <1>7 DEF Once
<1>13. UnderInv'
  <2>1. ASSUME NEW k \in Names, NEW m \in Under(k)' PROVE pushed'[m] > 0
    BY <1>10, <1>11, <1>12, <2>1 DEF MailboxInv, UnderInv
  <2>2. ASSUME NEW d \in Receivers, recv[d].msg # None PROVE pushed'[recv[d].msg] > 0
    <3>1. recv[d].msg \in Message
      BY <1>1, <2>2 DEF TypeOK, RecvState
    <3> QED BY <1>11, <2>2, <3>1 DEF MailboxInv, UnderInv
  <2> QED BY <1>3, <2>1, <2>2 DEF UnderInv
<1>14. RenameInv'
  <2>1. \A m \in rename.held : m \in Message /\ pushed[m] > 0
    BY <1>1 DEF TypeOK, RenameState, MailboxInv, RenameInv
  <2>2. ASSUME NEW m \in rename.held \cap Under(rename.from)', rename.pc = "retire", m \notin Foreign
        PROVE  pushed'[m] > 1
    <3>1. rename.from \in Names
      BY <2>2 DEF MailboxInv, RenameInv
    <3>2. m \in Under(rename.from)
      <4>1. Under(rename.from)' \subseteq Under(rename.from) \cup {x}
        <5>1. rename' = rename
          BY <1>3
        <5> QED BY <1>10, <3>1, <5>1
      <4> QED BY <1>2, <2>2, <4>1
    <3>3. pushed[m] > 1
      BY <2>2, <3>2 DEF MailboxInv, RenameInv
    <3> QED BY <1>7, <2>1, <3>3 DEF Once
  <2>3. \A m \in rename.held : pushed'[m] > 0
    BY <1>11, <2>1
  <2>4. rename' = rename
    BY <1>3
  <2> QED BY <2>2, <2>3, <2>4 DEF MailboxInv, RenameInv
<1>15. Conservation'
  <2>1. ASSUME NEW m \in Message
        PROVE  pushed'[m] = Everywhere(queue, m) + Everywhere(dlq', m) + Everywhere(claims, m)
                            + Everywhere(expired, m) + Held(m) + Count(delivered, m) + gone'[m]
    <3>1. /\ Everywhere(dlq, m) \in Nat /\ Count(dlq[n], m) \in Nat
          /\ Everywhere(dlq', m) = (Everywhere(dlq, m) - Count(dlq[n], m)) + Count(t, m)
      BY <1>1, <1>2, <1>6, EverywhereUpdate
    <3>2. /\ gone'[m] \in Nat /\ Count(t, m) \in Nat
          /\ gone'[m] + Count(t, m) = gone[m] + (Once(x, m) + Count(dlq[n], m))
      BY <1>4, <1>5
    <3>3. Held(m) \in Nat
      <4>1. Held(m) = HeldIn(recv, m)
        BY DEF Held, HeldIn
      <4> QED BY <4>1, HeldType DEF MailboxInv, TypeOK
    <3>4. pushed[m] = Everywhere(queue, m) + Everywhere(dlq, m) + Everywhere(claims, m)
                      + Everywhere(expired, m) + Held(m) + Count(delivered, m) + gone[m]
      BY DEF MailboxInv, Conservation
    <3>5. /\ gone[m] \in Nat /\ Count(delivered, m) \in Nat /\ Everywhere(queue, m) \in Nat
          /\ Everywhere(claims, m) \in Nat /\ Everywhere(expired, m) \in Nat
      BY MailTypes
    <3>6. pushed'[m] = pushed[m] + Once(x, m) /\ Once(x, m) \in Nat
      BY <1>7 DEF Once
    <3> QED BY ONLY <3>1, <3>2, <3>3, <3>4, <3>5, <3>6
  <2>2. /\ queue' = queue /\ claims' = claims /\ expired' = expired /\ recv' = recv
        /\ delivered' = delivered
    BY <1>3
  <2> QED BY <2>1, <2>2 DEF Conservation, Held
<1> QED BY <1>3, <1>8, <1>9, <1>13, <1>14, <1>15, ReceivesKept DEF MailboxInv

LEMMA ReceivesStep ==
  ASSUME MailboxInv, NEW c \in Receivers, RecvMoves(c)
  PROVE  MailboxInv'
<1>1. /\ UNCHANGED <<claims, expired, registered, durable, dedupe, send, rename, scenario, pushed, window>>
      /\ closed' = closed \/ closed' = closed \cup {c}
  BY DEF RecvMoves, Receive, Connect, Pop, PopEnds, Arrive, Park, Deliver, ReceiveFails, Cancel,
         CloseReceives, mail, names, history
<1>2. RecvEffect
  BY RecvMail
<1>3. TypeOK'
  BY <1>1, <1>2, RecvStep DEF MailboxInv, TypeOK, RecvEffect
<1>4. MailInv'
  BY <1>1, <1>2, MailReceived
<1> QED BY <1>1, <1>3, <1>4, RecvStep, SendsKept DEF MailboxInv, MailInv

\* The steps that move mail between the lists of names.
LEMMA NamesStep ==
  ASSUME MailboxInv, NameEffect,
         UNCHANGED <<durable, dedupe, send, recv, closed, scenario, pushed, window>>,
         registered' \subseteq Names,
         \/ rename' = rename
         \/ /\ rename.pc # "idle"
            /\ rename' = [rename EXCEPT !.pc = "migrate"] \/ rename' = [rename EXCEPT !.pc = "retire"]
  PROVE  MailboxInv'
<1>1. rename \in RenameState /\ TypeOK
  BY DEF MailboxInv, TypeOK
<1>2. rename' \in RenameState
  BY <1>1 DEF RenameState
<1>3. \/ rename' = rename
      \/ /\ rename.pc # "idle" /\ rename'.held = rename.held
         /\ rename'.from = rename.from /\ rename'.to = rename.to
  BY <1>1 DEF RenameState
<1>4. TypeOK'
  BY <1>1, <1>2 DEF TypeOK, NameEffect
<1>5. MailInv'
  BY <1>3, MailMoved
<1> QED BY <1>4, <1>5, SendsKept, ReceivesKept DEF MailboxInv, MailInv

\* The steps that change who is registered or the rename in progress, and no mail.
LEMMA QuietStep ==
  ASSUME MailboxInv,
         UNCHANGED <<queue, dlq, claims, expired, dedupe, send, recv, closed, scenario, pushed,
                     gone, delivered, window>>,
         registered' \subseteq Names, durable' \subseteq Names, rename' \in RenameState, MailInv'
  PROVE  MailboxInv'
<1>1. TypeOK'
  BY DEF MailboxInv, TypeOK
<1> QED BY <1>1, SendsKept, ReceivesKept DEF MailboxInv, MailInv

LEMMA MailboxStep ==
  ASSUME MailboxInv, [Next]_vars
  PROVE  MailboxInv'
<1>1. /\ registered \subseteq Names /\ durable \subseteq Names /\ rename \in RenameState
      /\ NoRename \in RenameState
  BY DEF MailboxInv, TypeOK, RenameState, NoRename
<1>2. ASSUME NEW r \in Requests, SendMoves(r) PROVE MailboxInv'
  BY <1>2, SendsStep
<1>3. ASSUME NEW g \in Foreign, NEW n \in Names, ForeignPush(g, n) PROVE MailboxInv'
  BY <1>3, ForeignStep
<1>4. ASSUME NEW c \in Receivers, RecvMoves(c) \/ ParkUnanswered(c) PROVE MailboxInv'
  BY <1>4, ReceivesStep, ParkedAgain
<1>5. ASSUME NEW n \in Names, Join(n) \/ BecomeDurable(n) PROVE MailboxInv'
  <2>1. /\ UNCHANGED <<queue, dlq, claims, expired, dedupe, send, recv, closed, rename, scenario, pushed,
                       gone, delivered, window>>
        /\ registered' \subseteq Names /\ durable' \subseteq Names
    BY <1>1, <1>5 DEF Join, BecomeDurable, mail, history
  <2>2. MailInv'
    BY <2>1, MailKept
  <2> QED BY <1>1, <2>1, <2>2, QuietStep
<1>6. ASSUME NEW n \in Names, Unregister(n) PROVE MailboxInv'
  <2>1. /\ UNCHANGED <<durable, dedupe, send, recv, closed, rename, scenario, pushed, window>>
        /\ registered' \subseteq Names
    BY <1>1, <1>6 DEF Unregister
  <2> QED BY <1>6, <2>1, UnregisterMail, NamesStep
<1>7. ASSUME NEW n \in Names, Claim(n) \/ ClaimResent(n) \/ ClaimExpires(n) \/ Acknowledge(n)
      PROVE  MailboxInv'
  <2>1. /\ UNCHANGED <<durable, dedupe, send, recv, closed, rename, scenario, pushed, window>>
        /\ registered' \subseteq Names
    BY <1>1, <1>7 DEF Claim, ClaimResent, ClaimExpires, Acknowledge, names, history
  <2>2. NameEffect
    BY <1>7, ClaimMail, ResentMail, ExpireMail, AcknowledgeMail
  <2> QED BY <2>1, <2>2, NamesStep
<1>8. ASSUME NEW n \in Names, NEW m \in Names, BeginRename(n, m) PROVE MailboxInv'
  <2>1. /\ UNCHANGED <<queue, dlq, claims, expired, durable, dedupe, send, recv, closed, scenario, pushed,
                       gone, delivered, window>>
        /\ registered' \subseteq Names
    BY <1>1, <1>8 DEF BeginRename, mail, history
  <2>2. Under(n) \subseteq Message
    <3>1. \A s \in Seq(Message) : ToSet(s) \subseteq Message
      BY DEF ToSet
    <3>2. /\ queue[n] \in Seq(Message) /\ dlq[n] \in Seq(Message)
          /\ claims[n] \in Seq(Message) /\ expired[n] \in Seq(Message)
      BY MailTypes
    <3> QED BY <3>1, <3>2 DEF Under
  <2>3. rename' = [pc |-> "recover", from |-> n, to |-> m, fresh |-> m \notin registered,
                   held |-> Under(n)] /\ n # m
    BY <1>8 DEF BeginRename
  <2>4. rename' \in RenameState
    BY <2>2, <2>3 DEF RenameState
  <2>5. /\ rename'.pc = "recover" /\ rename'.from \in Names /\ rename'.to \in Names
        /\ rename'.from # rename'.to /\ rename'.held \in {Under(k) : k \in Names}
    BY <2>3
  <2>6. MailInv'
    BY <2>1, <2>5, MailRenamed
  <2> QED BY <1>1, <2>1, <2>4, <2>6, QuietStep
<1>9. CASE RenameRecover
  <2>1. /\ UNCHANGED <<durable, dedupe, send, recv, closed, scenario, pushed, window>>
        /\ registered' \subseteq Names /\ rename.pc # "idle"
        /\ rename' = [rename EXCEPT !.pc = "migrate"]
    BY <1>1, <1>9 DEF RenameRecover, names
  <2> QED BY <1>9, <2>1, RecoverMail, NamesStep
<1>10. CASE RenameMigrate
  <2>1. /\ UNCHANGED <<durable, dedupe, send, recv, closed, scenario, pushed, window>>
        /\ registered' \subseteq Names /\ rename.pc # "idle"
        /\ rename' = [rename EXCEPT !.pc = "retire"]
    BY <1>1, <1>10 DEF RenameMigrate, names
  <2> QED BY <1>10, <2>1, MigrateMail, NamesStep
<1>11. CASE RenameRollback \/ RenameRetire
  <2>1. /\ UNCHANGED <<queue, dlq, claims, expired, durable, dedupe, send, recv, closed, scenario, pushed,
                       gone, delivered, window>>
        /\ registered' \subseteq Names /\ rename' = NoRename
    BY <1>1, <1>11 DEF RenameRollback, RenameRetire, mail, history
  <2>2. MailInv'
    BY <2>1, MailRenamed
  <2> QED BY <1>1, <2>1, <2>2, QuietStep
<1>12. CASE UNCHANGED vars
  <2>1. UNCHANGED <<queue, dlq, claims, expired, registered, durable, dedupe, send, recv, closed, rename,
                    scenario, pushed, gone, delivered, window>>
    BY <1>12 DEF vars, mail, names, history
  <2>2. MailInv'
    BY <2>1, MailKept
  <2> QED BY <1>1, <2>1, <2>2, QuietStep
<1> QED BY <1>2, <1>3, <1>4, <1>5, <1>6, <1>7, <1>8, <1>9, <1>10, <1>11, <1>12
        DEF Next, SendMoves, RecvMoves

LEMMA MailboxInit ==
  ASSUME Init
  PROVE  MailboxInv
<1>1. TypeOK
  <2>1. Unsent \in SendState
    BY MailboxAssumption DEF SendState, Unsent
  <2>2. Resting \in RecvState /\ NoRename \in RenameState
    BY DEF RecvState, Resting, RenameState, NoRename
  <2>3. /\ send \in [Requests -> SendState] /\ recv \in [Receivers -> RecvState]
        /\ rename \in RenameState
    BY <2>1, <2>2 DEF Init
  <2> QED BY <2>3 DEF Init, TypeOK
<1>2. ASSUME NEW r \in Requests PROVE SendInv(r)
  <2>1. send[r] = Unsent /\ dedupe[r] = None /\ window[r] = 0
    BY DEF Init
  <2>2. \A k \in Calls : pushed[<<r, k>>] = 0
    BY DEF Init, Message
  <2> QED BY <2>1, <2>2, MailboxAssumption DEF SendInv, SendFits, Unsent
<1>3. ASSUME NEW c \in Receivers PROVE RecvInv(c) /\ recv[c].msg = None
  BY DEF Init, RecvInv, RecvFits, Resting
<1>4. ASSUME NEW n \in Names PROVE Under(n) = {}
  <2>1. queue[n] = <<>> /\ dlq[n] = <<>> /\ claims[n] = <<>> /\ expired[n] = <<>>
    BY DEF Init
  <2>2. ToSet(<<>>) = {}
    BY DEF ToSet
  <2> QED BY <2>1, <2>2 DEF Under
<1>5. UnderInv
  BY <1>3, <1>4 DEF UnderInv
<1>6. RenameInv
  BY DEF Init, RenameInv, NoRename
<1>7. ClosedNeverParked
  BY DEF Init, ClosedNeverParked
<1>8. Conservation
  <2>1. ASSUME NEW m \in Message, NEW f, \A n \in Names : f[n] = <<>> PROVE Everywhere(f, m) = 0
    <3>1. \A n \in Names : Positions(f[n], m) = {}
      BY <2>1 DEF Positions
    <3>2. Places(f, m) = {}
      BY <3>1 DEF Places
    <3> QED BY <3>2, FS_EmptySet DEF Everywhere
  <2>2. ASSUME NEW m \in Message
        PROVE  pushed[m] = Everywhere(queue, m) + Everywhere(dlq, m) + Everywhere(claims, m)
                           + Everywhere(expired, m) + Held(m) + Count(delivered, m) + gone[m]
    <3>1. /\ Everywhere(queue, m) = 0 /\ Everywhere(dlq, m) = 0
          /\ Everywhere(claims, m) = 0 /\ Everywhere(expired, m) = 0
      BY <2>1 DEF Init
    <3>2. m # None
      BY MailboxAssumption
    <3>3. {c \in Receivers : recv[c].msg = m} = {}
      BY <1>3, <3>2
    <3>4. Held(m) = 0
      BY <3>3, FS_EmptySet DEF Held
    <3>5. pushed[m] = 0 /\ gone[m] = 0 /\ delivered = <<>>
      BY DEF Init
    <3>6. Count(delivered, m) = 0
      BY <3>5, CountNone
    <3> QED BY ONLY <3>1, <3>4, <3>5, <3>6
  <2> QED BY <2>2 DEF Conservation
<1> QED BY <1>1, <1>2, <1>3, <1>5, <1>6, <1>7, <1>8 DEF MailboxInv

\* The inductive invariant holds of every behaviour of the specification.
THEOREM MailboxInvariant == Spec => []MailboxInv
<1>1. Init => MailboxInv
  BY MailboxInit
<1>2. MailboxInv /\ [Next]_vars => MailboxInv'
  BY MailboxStep
<1> QED BY <1>1, <1>2, PTL DEF Spec

-----------------------------------------------------------------------------
(***************************************************************************)
(* What it shows.                                                          *)
(***************************************************************************)

\* Queues, dead letters, claims, calls and receives have the shape the store and the
\* clients give them, whatever interleaves.
THEOREM TypeCorrect == Spec => []TypeOK
<1>1. MailboxInv => TypeOK
  BY DEF MailboxInv
<1> QED BY <1>1, MailboxInvariant, PTL

\* No message put in an inbox is lost or doubled by a pop, a parking, a claim, its expiry
\* and recovery, an acknowledgement, a rename or its rollback: it is in as many places as
\* it was pushed, or was delivered, or left by a way that is counted.
THEOREM NothingIsLost == Spec => []Conservation
<1>1. MailboxInv => Conservation
  BY DEF MailboxInv
<1> QED BY <1>1, MailboxInvariant, PTL

\* A send with a key whose answer is lost, resent or repeated queues its message at most
\* once while the key is remembered, and every answer tells what became of the message.
THEOREM RetriesAreAlwaysSafe == Spec => []RetriesAreSafe
<1>1. ASSUME MailboxInv PROVE RetriesAreSafe
  <2>1. ASSUME NEW r \in Keyed PROVE window[r] <= 1
    <3>1. r \in Requests
      BY MailboxAssumption
    <3>2. window[r] = IF dedupe[r] = None THEN 0 ELSE 1
      BY <1>1, <3>1 DEF MailboxInv, SendInv, SendFits
    <3> QED BY <3>2
  <2>2. ASSUME NEW r \in Requests
        PROVE  /\ send[r].answer \in {"sent", "duplicate"} => send[r].id[1] = r /\ pushed[send[r].id] > 0
               /\ r \in Keyed /\ send[r].answer = "full" => pushed[send[r].id] = 0
    BY <1>1 DEF MailboxInv, SendInv, SendFits
  <2> QED BY <2>1, <2>2 DEF RetriesAreSafe, KeyedOnce, AnswerIsTrue
<1> QED BY <1>1, MailboxInvariant, PTL

\* A receive whose client has shut down is never parked in BLPOP, where it would consume
\* a message that nobody can be given.
THEOREM ClosedIsNeverParked == Spec => []ClosedNeverParked
<1>1. MailboxInv => ClosedNeverParked
  BY DEF MailboxInv
<1> QED BY <1>1, MailboxInvariant, PTL

\* When a rename retires the old name, what that name held when the rename began has gone
\* along, except what was parked or pushed there again meanwhile.
THEOREM RenameTakesTheMail == Spec => RenameMovesTheMail
<1>1. ASSUME MailboxInv
      PROVE  [rename.pc = "retire" /\ rename'.pc = "idle" =>
                \A m \in rename.held \cap Under(rename.from) : m \in Foreign \/ pushed[m] > 1]_vars
  BY <1>1 DEF MailboxInv, RenameInv
<1> QED BY <1>1, MailboxInvariant, PTL DEF RenameMovesTheMail
=============================================================================
