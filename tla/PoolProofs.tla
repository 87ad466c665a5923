----------------------------- MODULE PoolProofs -----------------------------
(***************************************************************************)
(* Theorems about Pool for any tasks, threads and bounds.  They are proved *)
(* of Spec, where the thread that registered a worker also drops its       *)
(* guard.                                                                  *)
(***************************************************************************)
EXTENDS Pool, SequenceTheorems, FiniteSetTheorems, TLAPS

-----------------------------------------------------------------------------
(* Queues without duplicates                                               *)

\* Vec::push and Injector::push
LEMMA AppendFacts ==
  ASSUME NEW S, NEW s \in Seq(S), NEW x \in S
  PROVE  /\ Append(s, x) \in Seq(S)
         /\ Range(Append(s, x)) = Range(s) \cup {x}
         /\ IsInjective(s) /\ x \notin Range(s) => IsInjective(Append(s, x))
<1>1. Append(s, x) \in Seq(S) /\ Len(Append(s, x)) = Len(s) + 1 /\ Len(s) \in Nat
      /\ (\A i \in 1..Len(s) : Append(s, x)[i] = s[i])
      /\ Append(s, x)[Len(s) + 1] = x
      /\ DOMAIN Append(s, x) = 1..Len(s) + 1 /\ DOMAIN s = 1..Len(s)
  BY AppendProperties, LenProperties
<1> DEFINE r == Append(s, x)
<1>2. Range(r) = Range(s) \cup {x}
  <2>1. \A i \in 1..Len(s) : r[i] \in Range(r) /\ r[i] = s[i]
    BY <1>1 DEF Range
  <2>2. x \in Range(r)
    BY <1>1 DEF Range
  <2>3. \A i \in 1..Len(s) + 1 : r[i] \in Range(s) \cup {x}
    BY <1>1 DEF Range
  <2> QED BY <1>1, <2>1, <2>2, <2>3, Zenon DEF Range
<1>3. IsInjective(s) /\ x \notin Range(s) => IsInjective(Append(s, x))
  BY <1>1 DEF Range, IsInjective
<1> QED BY <1>1, <1>2, <1>3

\* A stretch of a queue.
LEMMA SubSeqFacts ==
  ASSUME NEW S, NEW s \in Seq(S), NEW m \in Nat \ {0}, NEW n \in Nat,
         m <= n + 1, n <= Len(s)
  PROVE  /\ SubSeq(s, m, n) \in Seq(S)
         /\ Len(SubSeq(s, m, n)) = (n - m) + 1
         /\ \A i \in 1..(n - m) + 1 : SubSeq(s, m, n)[i] = s[i + (m - 1)]
         /\ \A x : x \in Range(SubSeq(s, m, n)) <=> \E i \in m..n : x = s[i]
         /\ IsInjective(s) => IsInjective(SubSeq(s, m, n))
<1> DEFINE a == SubSeq(s, m, n)
<1>1. Len(s) \in Nat /\ DOMAIN s = 1..Len(s) /\ \A i \in 1..Len(s) : s[i] \in S
  BY LenProperties, ElementOfSeq
<1>2. m \in Int /\ n \in Int /\ \A i \in m..n : s[i] \in S
  BY <1>1
<1>3. a \in Seq(S)
  BY <1>2, SubSeqProperties
<1>4. Len(a) = (n - m) + 1
  <2>1. Len(a) = IF m <= n THEN n - m + 1 ELSE 0
    BY <1>2, SubSeqProperties
  <2> QED BY <2>1
<1>5. \A i \in 1..(n - m) + 1 : a[i] = s[i + (m - 1)]
  <2>1. \A i \in 1..n - m + 1 : a[i] = s[m + i - 1]
    BY <1>2, SubSeqProperties
  <2> QED BY <2>1
<1> HIDE DEF a
<1>6. DOMAIN a = 1..(n - m) + 1
  BY <1>3, <1>4, LenProperties
<1>7. ASSUME NEW i \in m..n PROVE s[i] \in Range(a)
  <2>1. i - (m - 1) \in 1..(n - m) + 1 /\ (i - (m - 1)) + (m - 1) = i
    OBVIOUS
  <2>2. a[i - (m - 1)] = s[i]
    BY <2>1, <1>5
  <2> QED BY <2>1, <2>2, <1>6, Zenon DEF Range
<1>8. ASSUME NEW x \in Range(a) PROVE \E i \in m..n : x = s[i]
  <2>1. PICK j \in 1..(n - m) + 1 : x = a[j]
    BY <1>6 DEF Range
  <2>2. j + (m - 1) \in m..n
    OBVIOUS
  <2> QED BY <2>1, <2>2, <1>5
<1>9. ASSUME IsInjective(s), NEW i \in 1..(n - m) + 1, NEW j \in 1..(n - m) + 1, a[i] = a[j]
      PROVE  i = j
  <2>1. s[i + (m - 1)] = s[j + (m - 1)]
    BY <1>5, <1>9
  <2>2. i + (m - 1) \in 1..Len(s) /\ j + (m - 1) \in 1..Len(s)
    BY <1>1
  <2>3. i + (m - 1) = j + (m - 1)
    BY <1>1, <1>9, <2>1, <2>2 DEF IsInjective
  <2> QED BY <2>3
<1>10. IsInjective(s) => IsInjective(a)
  BY <1>6, <1>9, Zenon DEF IsInjective
<1> QED BY <1>3, <1>4, <1>5, <1>6, <1>7, <1>8, <1>10 DEF a

\* A sequence as its head, the n - 1 elements after it, and the rest.
LEMMA SplitFacts ==
  ASSUME NEW S, NEW s \in Seq(S), NEW n \in 1..Len(s), IsInjective(s)
  PROVE  /\ Head(s) \in S /\ SubSeq(s, 2, n) \in Seq(S) /\ SubSeq(s, n + 1, Len(s)) \in Seq(S)
         /\ IsInjective(SubSeq(s, 2, n)) /\ IsInjective(SubSeq(s, n + 1, Len(s)))
         /\ Head(s) \notin Range(SubSeq(s, 2, n)) \cup Range(SubSeq(s, n + 1, Len(s)))
         /\ Range(SubSeq(s, 2, n)) \cap Range(SubSeq(s, n + 1, Len(s))) = {}
         /\ Range(s) = {Head(s)} \cup Range(SubSeq(s, 2, n)) \cup Range(SubSeq(s, n + 1, Len(s)))
<1> DEFINE a == SubSeq(s, 2, n)
           b == SubSeq(s, n + 1, Len(s))
<1>1. Len(s) \in Nat /\ DOMAIN s = 1..Len(s) /\ \A i \in 1..Len(s) : s[i] \in S
  BY LenProperties, ElementOfSeq
<1>2. Head(s) = s[1]
  OBVIOUS
<1>3. a \in Seq(S) /\ IsInjective(a) /\ \A x : x \in Range(a) <=> \E i \in 2..n : x = s[i]
  <2>1. 2 \in Nat \ {0} /\ n \in Nat /\ 2 <= n + 1 /\ n <= Len(s)
    BY <1>1
  <2> QED BY <2>1, SubSeqFacts
<1>4. b \in Seq(S) /\ IsInjective(b) /\ \A x : x \in Range(b) <=> \E i \in n + 1..Len(s) : x = s[i]
  <2>1. n + 1 \in Nat \ {0} /\ Len(s) \in Nat /\ n + 1 <= Len(s) + 1 /\ Len(s) <= Len(s)
    BY <1>1
  <2> QED BY <2>1, SubSeqFacts
<1> HIDE DEF a, b
<1>8. Head(s) \in S /\ Head(s) \notin Range(a) \cup Range(b) /\ Range(a) \cap Range(b) = {}
  <2>1. Head(s) \in S
    BY <1>1, <1>2
  <2>2. \A i, j \in 1..Len(s) : s[i] = s[j] => i = j
    BY <1>1 DEF IsInjective
  <2>3. Head(s) \notin Range(a)
    BY <1>1, <1>2, <1>3, <2>2
  <2>4. Head(s) \notin Range(b)
    BY <1>1, <1>2, <1>4, <2>2
  <2>5. ASSUME NEW x \in Range(a), x \in Range(b) PROVE FALSE
    <3>1. PICK i \in 2..n : x = s[i]
      BY <1>3
    <3>2. PICK j \in n + 1..Len(s) : x = s[j]
      BY <1>4, <2>5
    <3>3. i \in 1..Len(s) /\ j \in 1..Len(s) /\ i # j
      BY <1>1
    <3> QED BY <2>2, <3>1, <3>2, <3>3
  <2> QED BY <2>1, <2>3, <2>4, <2>5
<1>9. Range(s) = {Head(s)} \cup Range(a) \cup Range(b)
  <2>1. \A i \in 1..Len(s) : i = 1 \/ i \in 2..n \/ i \in n + 1..Len(s)
    BY <1>1
  <2>2. \A i : i = 1 \/ i \in 2..n \/ i \in n + 1..Len(s) => i \in 1..Len(s)
    BY <1>1
  <2> QED BY <1>1, <1>2, <1>3, <1>4, <2>1, <2>2 DEF Range
<1> QED BY <1>3, <1>4, <1>8, <1>9 DEF a, b

\* Tail is what follows the head.
LEMMA TailFacts ==
  ASSUME NEW S, NEW s \in Seq(S), s # <<>>, IsInjective(s)
  PROVE  /\ Head(s) \in S /\ Tail(s) \in Seq(S) /\ IsInjective(Tail(s))
         /\ Head(s) \notin Range(Tail(s))
         /\ Range(s) = {Head(s)} \cup Range(Tail(s))
<1>1. 1 \in 1..Len(s) /\ Tail(s) = SubSeq(s, 2, Len(s))
  BY EmptySeq, LenProperties, TailIsSubSeq
<1> DEFINE a == SubSeq(s, 2, 1)
           b == SubSeq(s, 1 + 1, Len(s))
<1>2. /\ Head(s) \in S /\ b \in Seq(S) /\ IsInjective(b)
      /\ Head(s) \notin Range(a) \cup Range(b)
      /\ Range(s) = {Head(s)} \cup Range(a) \cup Range(b)
  BY <1>1, SplitFacts
<1>3. a = <<>> /\ b = SubSeq(s, 2, Len(s))
  BY SubSeqEmpty
<1>4. Range(a) = {}
  BY <1>3, EmptySeq, LenProperties DEF Range
<1> HIDE DEF a, b
<1> QED BY <1>1, <1>2, <1>3, <1>4

\* Vec::pop of idle_stack
LEMMA FrontFacts ==
  ASSUME NEW S, NEW s \in Seq(S), s # <<>>, IsInjective(s)
  PROVE  /\ Last(s) \in Range(s) /\ Front(s) \in Seq(S) /\ IsInjective(Front(s))
         /\ Range(Front(s)) = Range(s) \ {Last(s)}
<1>1. Len(s) \in Nat /\ Len(s) # 0 /\ DOMAIN s = 1..Len(s) /\ \A i \in 1..Len(s) : s[i] \in S
  BY EmptySeq, LenProperties, ElementOfSeq
<1>2. Front(s) \in Seq(S) /\ DOMAIN Front(s) = 1..Len(s) - 1
      /\ \A i \in 1..Len(s) - 1 : Front(s)[i] = s[i]
  BY <1>1, SubSeqProperties, LenProperties DEF Front
<1>3. IsInjective(Front(s)) /\ Last(s) \in Range(s)
  BY <1>1, <1>2 DEF IsInjective, Range, Last
<1>4. \A i \in 1..Len(s) : i \in 1..Len(s) - 1 <=> s[i] # Last(s)
  BY <1>1 DEF IsInjective, Last
<1>5. \A i \in 1..Len(s) - 1 : i \in 1..Len(s)
  BY <1>1
<1>6. Range(Front(s)) = Range(s) \ {Last(s)}
  BY <1>1, <1>2, <1>4, <1>5, Zenon DEF Range
<1> QED BY <1>2, <1>3, <1>6

\* Vec::retain of idle_stack, which holds an id once
LEMMA RetainFacts ==
  ASSUME NEW S, NEW s \in Seq(S), NEW e, IsInjective(s)
  PROVE  /\ RemoveFirst(s, e) \in Seq(S) /\ IsInjective(RemoveFirst(s, e))
         /\ Range(RemoveFirst(s, e)) = Range(s) \ {e}
<1>1. Len(s) \in Nat /\ DOMAIN s = 1..Len(s) /\ \A i \in 1..Len(s) : s[i] \in S
  BY LenProperties, ElementOfSeq
<1>2. CASE ~\E i \in 1..Len(s) : s[i] = e
  <2>1. RemoveFirst(s, e) = s
    BY <1>2, Zenon DEF RemoveFirst
  <2> QED BY <1>1, <1>2, <2>1 DEF Range
<1>3. CASE \E i \in 1..Len(s) : s[i] = e
  <2>1. PICK k \in 1..Len(s) : s[k] = e
    BY <1>3
  <2> DEFINE I == {i \in 1..Len(s) : s[i] = e}
             r == RemoveFirst(s, e)
  <2>2. I = {k}
    BY <1>1, <2>1 DEF IsInjective
  <2>3. Min(I) = k
    BY <2>2, <1>1 DEF Min
  <2>4. SelectInSeq(s, LAMBDA v: v = e) = k
    BY <2>2, <2>3 DEF SelectInSeq
  <2>5. r = SubSeq(s, 1, k - 1) \o SubSeq(s, k + 1, Len(s))
    BY <1>3, <2>4 DEF RemoveFirst, RemoveAt
  <2> DEFINE a == SubSeq(s, 1, k - 1)
             b == SubSeq(s, k + 1, Len(s))
  <2>6. a \in Seq(S) /\ Len(a) = k - 1 /\ \A i \in 1..k - 1 : a[i] = s[i]
    <3>1. 1 \in Nat \ {0} /\ k - 1 \in Nat /\ 1 <= (k - 1) + 1 /\ k - 1 <= Len(s)
          /\ ((k - 1) - 1) + 1 = k - 1 /\ \A i \in Int : i + (1 - 1) = i
      BY <1>1
    <3> QED BY <3>1, SubSeqFacts
  <2>7. b \in Seq(S) /\ Len(b) = Len(s) - k /\ \A i \in 1..Len(s) - k : b[i] = s[i + k]
    <3>1. k + 1 \in Nat \ {0} /\ Len(s) \in Nat /\ k + 1 <= Len(s) + 1 /\ Len(s) <= Len(s)
      BY <1>1
    <3>2. (Len(s) - (k + 1)) + 1 = Len(s) - k /\ (k + 1) - 1 = k
      BY <1>1
    <3>3. b \in Seq(S) /\ Len(b) = (Len(s) - (k + 1)) + 1
          /\ \A i \in 1..(Len(s) - (k + 1)) + 1 : b[i] = s[i + ((k + 1) - 1)]
      BY <3>1, SubSeqFacts
    <3> HIDE DEF b
    <3> QED BY <3>2, <3>3
  <2> HIDE DEF r, a, b
  <2>8. r \in Seq(S) /\ DOMAIN r = 1..Len(s) - 1
        /\ \A i \in 1..Len(s) - 1 : r[i] = IF i <= k - 1 THEN s[i] ELSE s[i + 1]
    <3>1. r = a \o b
      BY <2>5 DEF a, b
    <3>2. r \in Seq(S) /\ Len(r) = Len(a) + Len(b)
          /\ \A i \in 1..Len(a) + Len(b) : r[i] = IF i <= Len(a) THEN a[i] ELSE b[i - Len(a)]
      BY <2>6, <2>7, <3>1, ConcatProperties
    <3>3. Len(r) = Len(s) - 1 /\ DOMAIN r = 1..Len(s) - 1
      BY <1>1, <2>6, <2>7, <3>2, LenProperties
    <3>4. ASSUME NEW i \in 1..Len(s) - 1 PROVE r[i] = IF i <= k - 1 THEN s[i] ELSE s[i + 1]
      <4>1. i <= k - 1 => i \in 1..k - 1
        OBVIOUS
      <4>2. ~(i <= k - 1) => i - (k - 1) \in 1..Len(s) - k /\ (i - (k - 1)) + k = i + 1
        BY <1>1
      <4>3. Len(a) + Len(b) = Len(s) - 1
        BY <1>1, <2>6, <2>7
      <4> QED BY <2>6, <2>7, <3>2, <4>1, <4>2, <4>3
    <3> QED BY <3>2, <3>3, <3>4
  <2>9. IsInjective(r)
    <3> DEFINE at(i) == IF i <= k - 1 THEN i ELSE i + 1
    <3>1. \A i \in 1..Len(s) - 1 : at(i) \in 1..Len(s) /\ r[i] = s[at(i)]
      BY <1>1, <2>8
    <3>2. \A i, j \in 1..Len(s) - 1 : at(i) = at(j) => i = j
      BY <1>1
    <3> HIDE DEF at
    <3>3. ASSUME NEW i \in 1..Len(s) - 1, NEW j \in 1..Len(s) - 1, r[i] = r[j] PROVE i = j
      <4>1. s[at(i)] = s[at(j)]
        BY <3>1, <3>3
      <4>2. at(i) = at(j)
        BY <1>1, <3>1, <4>1, Zenon DEF IsInjective
      <4> QED BY <3>2, <4>2
    <3> QED BY <2>8, <3>3, Zenon DEF IsInjective
  <2>10. \A i \in 1..Len(s) - 1 : r[i] \in Range(s) \ {e}
    BY <1>1, <2>1, <2>8 DEF IsInjective, Range
  <2>11. \A i \in 1..Len(s) : s[i] # e => s[i] \in Range(r)
    <3>1. \A i \in 1..Len(s) : i < k => i \in 1..Len(s) - 1 /\ r[i] = s[i]
      BY <1>1, <2>8
    <3>2. \A i \in 1..Len(s) : i > k => i - 1 \in 1..Len(s) - 1 /\ r[i - 1] = s[i]
      BY <1>1, <2>8
    <3>3. \A i \in 1..Len(s) : i = k \/ i < k \/ i > k
      BY <1>1
    <3>4. \A i \in 1..Len(s) - 1 : r[i] \in Range(r)
      BY <2>8 DEF Range
    <3> QED BY <2>1, <3>1, <3>2, <3>3, <3>4
  <2>12. Range(r) = Range(s) \ {e}
    BY <1>1, <2>8, <2>10, <2>11, Zenon DEF Range
  <2> QED BY <2>8, <2>9, <2>12 DEF r
<1> QED BY <1>2, <1>3
\* steal_batch_and_pop moves tasks to the end of a deque that had none of them.
LEMMA ConcatFacts ==
  ASSUME NEW S, NEW s \in Seq(S), NEW r \in Seq(S), IsInjective(s), IsInjective(r),
         Range(s) \cap Range(r) = {}
  PROVE  /\ s \o r \in Seq(S) /\ IsInjective(s \o r)
         /\ Range(s \o r) = Range(s) \cup Range(r)
<1> DEFINE c == s \o r
<1>1. c \in Seq(S) /\ Len(c) = Len(s) + Len(r) /\ Len(s) \in Nat /\ Len(r) \in Nat
      /\ DOMAIN c = 1..Len(c) /\ DOMAIN s = 1..Len(s) /\ DOMAIN r = 1..Len(r)
  BY ConcatProperties, LenProperties
<1>2. \A i \in 1..Len(s) + Len(r) : c[i] = IF i <= Len(s) THEN s[i] ELSE r[i - Len(s)]
  BY ConcatProperties
<1> HIDE DEF c
<1>3. ASSUME NEW i \in DOMAIN c PROVE \/ i \in DOMAIN s /\ c[i] = s[i]
                                      \/ i - Len(s) \in DOMAIN r /\ c[i] = r[i - Len(s)]
  BY <1>1, <1>2
<1>4. \A i \in DOMAIN s : s[i] \in Range(s)
  BY DEF Range
<1>5. \A i \in DOMAIN r : r[i] \in Range(r)
  BY DEF Range
<1>6. ASSUME NEW i \in DOMAIN c, NEW j \in DOMAIN c, c[i] = c[j] PROVE i = j
  <2>1. CASE i \in DOMAIN s /\ c[i] = s[i] /\ j \in DOMAIN s /\ c[j] = s[j]
    BY <1>6, <2>1 DEF IsInjective
  <2>2. CASE i - Len(s) \in DOMAIN r /\ c[i] = r[i - Len(s)]
             /\ j - Len(s) \in DOMAIN r /\ c[j] = r[j - Len(s)]
    <3>1. i - Len(s) = j - Len(s)
      BY <1>6, <2>2, Zenon DEF IsInjective
    <3> QED BY <1>1, <3>1
  <2>3. CASE i \in DOMAIN s /\ c[i] = s[i] /\ j - Len(s) \in DOMAIN r /\ c[j] = r[j - Len(s)]
    BY <1>4, <1>5, <1>6, <2>3
  <2>4. CASE j \in DOMAIN s /\ c[j] = s[j] /\ i - Len(s) \in DOMAIN r /\ c[i] = r[i - Len(s)]
    BY <1>4, <1>5, <1>6, <2>4
  <2> QED BY <1>3, <2>1, <2>2, <2>3, <2>4
<1>7. IsInjective(c)
  BY <1>6, Zenon DEF IsInjective
<1> QED BY <1>1, <1>7, RangeConcatenation DEF c

-----------------------------------------------------------------------------
(* The queues of the pool together                                         *)

\* What is in the injector q and the deques d.
All(q, d) == {x \in Tasks : x \in Range(q) \/ \E i \in Ids : x \in Range(d[i])}

\* No task is in two places of them.
Apart(q, d) ==
    /\ q \in Seq(Tasks) /\ d \in [Ids -> Seq(Tasks)]
    /\ IsInjective(q) /\ \A i \in Ids : IsInjective(d[i])
    /\ \A i \in Ids : Range(q) \cap Range(d[i]) = {}
    /\ \A i, j \in Ids : i # j => Range(d[i]) \cap Range(d[j]) = {}

\* The queues lose one task, x, and may rearrange the others.
Takes(t, x) ==
    /\ Apart(injector', deque')
    /\ \A i \in Ids : deque'[i] # <<>> => deque[i] # <<>> \/ tls[t] = i
    /\ x \in All(injector, deque)
    /\ All(injector', deque') = All(injector, deque) \ {x}

LEMMA Ranges ==
  ASSUME NEW q, NEW d, Apart(q, d)
  PROVE  /\ Range(q) \subseteq All(q, d)
         /\ \A i \in Ids : Range(d[i]) \subseteq All(q, d)
<1>1. Range(q) \subseteq Tasks
  BY RangeOfSeq DEF Apart
<1>2. \A i \in Ids : Range(d[i]) \subseteq Tasks
  BY RangeOfSeq DEF Apart
<1> QED BY <1>1, <1>2 DEF All

\* A batch of n tasks that leaves a queue: how long it is, and where it goes.
LEMMA BatchFacts ==
  ASSUME TypeOK, NEW t \in Threads, NEW q \in Seq(Tasks), q # <<>>, NEW n \in BatchSize(t, q)
  PROVE  n \in 1..Len(q) /\ (n # 1 => tls[t] \in Ids)
<1>1. Len(q) \in Nat /\ Len(q) >= 1
  BY EmptySeq, LenProperties
<1>2. (Len(q) + 1) \div 2 <= Len(q) /\ (Len(q) + 1) \div 2 \in Int
  BY <1>1
<1>3. CASE tls[t] = None
  BY <1>1, <1>3 DEF BatchSize
<1>4. CASE tls[t] # None
  BY <1>1, <1>2, <1>4 DEF BatchSize, TypeOK
<1> QED BY <1>3, <1>4

LEMMA StealTakes ==
  ASSUME TypeOK, Apart(injector, deque), NEW t \in Threads, NEW drain,
         StealInjector(t, drain)
  PROVE  Takes(t, held'[t]) /\ Run(t, held'[t], drain)
<1> DEFINE h == Head(injector)
<1>1. h = held'[t] /\ Run(t, h, drain) /\ injector # <<>>
  BY DEF StealInjector, Run, TypeOK
<1>2. PICK n \in BatchSize(t, injector) :
        /\ injector' = TailAfter(injector, n)
        /\ IF n = 1 THEN UNCHANGED deque
           ELSE deque' = [deque EXCEPT ![tls[t]] = @ \o SubSeq(injector, 2, n)]
  BY Zenon DEF StealInjector
<1>3. n \in 1..Len(injector) /\ (n # 1 => tls[t] \in Ids)
  BY <1>1, <1>2, BatchFacts DEF Apart
<1> DEFINE a == SubSeq(injector, 2, n)
           b == SubSeq(injector, n + 1, Len(injector))
<1>4. /\ h \in Tasks /\ a \in Seq(Tasks) /\ b \in Seq(Tasks)
      /\ IsInjective(a) /\ IsInjective(b)
      /\ h \notin Range(a) \cup Range(b) /\ Range(a) \cap Range(b) = {}
      /\ Range(injector) = {h} \cup Range(a) \cup Range(b)
  BY <1>3, SplitFacts DEF Apart
<1>5. injector' = b
  BY <1>2 DEF TailAfter
<1> HIDE DEF a, b, h
<1>6. CASE n = 1
  <2>1. a = <<>>
    BY <1>6, SubSeqEmpty DEF a
  <2>2. Range(a) = {}
    BY <2>1, EmptySeq, LenProperties DEF Range
  <2>3. deque' = deque
    BY <1>2, <1>6
  <2> QED BY <1>1, <1>4, <1>5, <2>2, <2>3 DEF Takes, Apart, All
<1>7. CASE n # 1
  <2> DEFINE k == tls[t]
             c == deque[k] \o a
  <2>1. k \in Ids /\ deque' = [deque EXCEPT ![k] = c]
    BY <1>2, <1>3, <1>7 DEF a
  <2>2. deque[k] \in Seq(Tasks) /\ IsInjective(deque[k]) /\ Range(deque[k]) \cap Range(a) = {}
    BY <1>4, <2>1 DEF Apart
  <2>3. c \in Seq(Tasks) /\ IsInjective(c) /\ Range(c) = Range(deque[k]) \cup Range(a)
    BY <1>4, <2>2, ConcatFacts
  <2> HIDE DEF c, k
  <2>4. deque' \in [Ids -> Seq(Tasks)] /\ deque'[k] = c
        /\ \A i \in Ids : i # k => deque'[i] = deque[i]
    BY <2>1, <2>3 DEF Apart
  <2>5. Apart(injector', deque')
    BY <1>4, <1>5, <2>1, <2>3, <2>4 DEF Apart
  <2>6. \A x : (\E i \in Ids : x \in Range(deque'[i]))
                 <=> x \in Range(a) \/ \E i \in Ids : x \in Range(deque[i])
    BY <2>1, <2>3, <2>4
  <2>7. All(injector', deque') = All(injector, deque) \ {h}
    BY <1>4, <1>5, <2>6 DEF All, Apart
  <2>8. h \in All(injector, deque)
    BY <1>4 DEF All
  <2> QED BY <1>1, <2>4, <2>5, <2>7, <2>8 DEF Takes, k
<1> QED BY <1>6, <1>7

LEMMA PopTakes ==
  ASSUME TypeOK, Apart(injector, deque), NEW t \in Threads, NEW drain,
         LocalPop(t, drain), UNCHANGED injector
  PROVE  Takes(t, held'[t]) /\ Run(t, held'[t], drain)
<1> DEFINE k == tls[t]
           h == Head(deque[k])
           b == Tail(deque[k])
<1>1. k \in Ids /\ deque[k] # <<>> /\ deque[k] \in Seq(Tasks) /\ IsInjective(deque[k])
  BY DEF LocalPop, LocalEmpty, TypeOK, Apart
<1>2. deque' = [deque EXCEPT ![k] = b] /\ h = held'[t] /\ Run(t, h, drain)
  BY DEF LocalPop, Run, TypeOK
<1>3. /\ h \in Tasks /\ b \in Seq(Tasks) /\ IsInjective(b)
      /\ h \notin Range(b) /\ Range(deque[k]) = {h} \cup Range(b)
  BY <1>1, TailFacts
<1> HIDE DEF h, b, k
<1>4. deque' \in [Ids -> Seq(Tasks)] /\ deque'[k] = b
      /\ \A i \in Ids : i # k => deque'[i] = deque[i]
  BY <1>1, <1>2, <1>3 DEF Apart
<1>5. Apart(injector', deque')
  BY <1>1, <1>3, <1>4 DEF Apart
<1>6. \A i \in Ids : Range(deque'[i]) = Range(deque[i]) \ {h}
  BY <1>1, <1>3, <1>4 DEF Apart
<1>7. h \notin Range(injector)
  BY <1>1, <1>3 DEF Apart
<1>8. All(injector', deque') = All(injector, deque) \ {h}
  BY <1>6, <1>7 DEF All
<1>9. h \in All(injector, deque)
  BY <1>1, <1>3 DEF All
<1> QED BY <1>2, <1>4, <1>5, <1>8, <1>9 DEF Takes, k

LEMMA PeerTakes ==
  ASSUME TypeOK, Apart(injector, deque), NEW t \in Threads, NEW i \in Victims(t),
         StealPeer(t, i), UNCHANGED injector
  PROVE  Takes(t, held'[t]) /\ Run(t, held'[t], BatchMax)
<1> DEFINE h == Head(deque[i])
<1>1. i \in Ids /\ deque[i] # <<>> /\ deque[i] \in Seq(Tasks) /\ IsInjective(deque[i])
  BY DEF Victims, TypeOK, Apart
<1>2. h = held'[t] /\ Run(t, h, BatchMax)
  BY DEF StealPeer, Run, TypeOK
<1>3. PICK n \in BatchSize(t, deque[i]) :
         deque' = IF n = 1 \/ tls[t] = i
                    THEN [deque EXCEPT ![i] = Tail(@)]
                    ELSE [deque EXCEPT ![i] = TailAfter(@, n),
                                       ![tls[t]] = @ \o SubSeq(deque[i], 2, n)]
  BY Zenon DEF StealPeer
<1>4. n \in 1..Len(deque[i]) /\ (n # 1 => tls[t] \in Ids)
  BY <1>1, <1>3, BatchFacts
<1>5. CASE n = 1 \/ tls[t] = i
  <2> DEFINE b == Tail(deque[i])
  <2>1. /\ h \in Tasks /\ b \in Seq(Tasks) /\ IsInjective(b)
        /\ h \notin Range(b) /\ Range(deque[i]) = {h} \cup Range(b)
    BY <1>1, TailFacts
  <2>2. deque' = [deque EXCEPT ![i] = b]
    BY <1>3, <1>5
  <2> HIDE DEF b, h
  <2>3. deque' \in [Ids -> Seq(Tasks)] /\ deque'[i] = b
        /\ \A j \in Ids : j # i => deque'[j] = deque[j]
    BY <1>1, <2>1, <2>2 DEF Apart
  <2>4. Apart(injector', deque')
    BY <1>1, <2>1, <2>3 DEF Apart
  <2>5. \A j \in Ids : Range(deque'[j]) = Range(deque[j]) \ {h}
    BY <1>1, <2>1, <2>3 DEF Apart
  <2>6. h \notin Range(injector)
    BY <1>1, <2>1 DEF Apart
  <2>7. All(injector', deque') = All(injector, deque) \ {h}
    BY <2>5, <2>6 DEF All
  <2>8. h \in All(injector, deque)
    BY <1>1, <2>1 DEF All
  <2> QED BY <1>1, <1>2, <2>3, <2>4, <2>7, <2>8 DEF Takes
<1>6. CASE n # 1 /\ tls[t] # i
  <2> DEFINE k == tls[t]
             a == SubSeq(deque[i], 2, n)
             b == SubSeq(deque[i], n + 1, Len(deque[i]))
             c == deque[k] \o a
  <2>1. /\ h \in Tasks /\ a \in Seq(Tasks) /\ b \in Seq(Tasks)
        /\ IsInjective(a) /\ IsInjective(b)
        /\ h \notin Range(a) \cup Range(b) /\ Range(a) \cap Range(b) = {}
        /\ Range(deque[i]) = {h} \cup Range(a) \cup Range(b)
    BY <1>1, <1>4, SplitFacts
  <2>2. k \in Ids /\ k # i
    BY <1>4, <1>6
  <2>3. deque' = [deque EXCEPT ![i] = b, ![k] = c]
    BY <1>3, <1>6, <2>2 DEF TailAfter, Apart
  <2> HIDE DEF a, b, k, h, c
  <2>4. deque[k] \in Seq(Tasks) /\ IsInjective(deque[k]) /\ Range(deque[k]) \cap Range(a) = {}
    BY <1>1, <2>1, <2>2 DEF Apart
  <2>5. c \in Seq(Tasks) /\ IsInjective(c) /\ Range(c) = Range(deque[k]) \cup Range(a)
    BY <2>1, <2>4, ConcatFacts DEF c
  <2>6. deque' \in [Ids -> Seq(Tasks)] /\ deque'[k] = c /\ deque'[i] = b
        /\ \A j \in Ids : j # i /\ j # k => deque'[j] = deque[j]
    BY <1>1, <2>1, <2>2, <2>3, <2>5 DEF Apart
  <2>7. \A j \in Ids : IsInjective(deque'[j])
    BY <2>1, <2>5, <2>6 DEF Apart
  <2>8. Range(c) \cap Range(b) = {} /\ Range(c) \cap Range(injector) = {}
        /\ Range(b) \cap Range(injector) = {}
    BY <1>1, <2>1, <2>2, <2>5 DEF Apart
  <2>9. \A j \in Ids : j # i /\ j # k =>
            Range(c) \cap Range(deque[j]) = {} /\ Range(b) \cap Range(deque[j]) = {}
    BY <1>1, <2>1, <2>2, <2>5 DEF Apart
  <2>10. Apart(injector', deque')
    BY <2>6, <2>7, <2>8, <2>9 DEF Apart
  <2>11. \A x : (\E j \in Ids : x \in Range(deque'[j]))
                  <=> x # h /\ \E j \in Ids : x \in Range(deque[j])
    <3>1. \A j \in Ids : j # i => h \notin Range(deque[j])
      BY <1>1, <2>1 DEF Apart
    <3>2. h \notin Range(c) /\ h \notin Range(b)
      BY <2>1, <2>2, <2>5, <3>1
    <3> QED BY <1>1, <2>1, <2>2, <2>5, <2>6, <3>1, <3>2
  <2>12. h \notin Range(injector)
    BY <1>1, <2>1 DEF Apart
  <2>13. All(injector', deque') = All(injector, deque) \ {h}
    BY <2>11, <2>12 DEF All
  <2>14. h \in All(injector, deque)
    BY <1>1, <2>1 DEF All
  <2> QED BY <1>1, <1>2, <2>6, <2>10, <2>13, <2>14 DEF Takes, k
<1> QED BY <1>5, <1>6

\* inject of a task that is in no queue
LEMMA PushAdds ==
  ASSUME TypeOK, Apart(injector, deque), NEW t \in Threads, NEW x \in Tasks,
         x \notin All(injector, deque), Push(t, x)
  PROVE  /\ Apart(injector', deque')
         /\ All(injector', deque') = All(injector, deque) \cup {x}
<1>1. x \notin Range(injector) /\ \A i \in Ids : x \notin Range(deque[i])
  BY DEF All
<1>2. CASE tls[t] # None
  <2> DEFINE k == tls[t]
             b == Append(deque[k], x)
  <2>1. k \in Ids /\ deque' = [deque EXCEPT ![k] = b] /\ injector' = injector
    BY <1>2 DEF Push, TypeOK
  <2>2. b \in Seq(Tasks) /\ IsInjective(b) /\ Range(b) = Range(deque[k]) \cup {x}
    BY <1>1, <2>1, AppendFacts DEF Apart
  <2> HIDE DEF b, k
  <2>3. deque' \in [Ids -> Seq(Tasks)] /\ deque'[k] = b
        /\ \A i \in Ids : i # k => deque'[i] = deque[i]
    BY <2>1, <2>2 DEF Apart
  <2>4. Apart(injector', deque')
    BY <1>1, <2>1, <2>2, <2>3 DEF Apart
  <2>5. All(injector', deque') = All(injector, deque) \cup {x}
    BY <2>1, <2>2, <2>3 DEF All
  <2> QED BY <2>4, <2>5
<1>3. CASE tls[t] = None
  <2>1. deque' = deque /\ injector' = Append(injector, x)
    BY <1>3 DEF Push
  <2>2. injector' \in Seq(Tasks) /\ IsInjective(injector')
        /\ Range(injector') = Range(injector) \cup {x}
    BY <1>1, <2>1, AppendFacts DEF Apart
  <2>3. Apart(injector', deque')
    BY <1>1, <2>1, <2>2 DEF Apart
  <2>4. All(injector', deque') = All(injector, deque) \cup {x}
    BY <2>1, <2>2 DEF All
  <2> QED BY <2>3, <2>4
<1> QED BY <1>2, <1>3

\* A task of a flushed deque goes to the injector.
LEMMA FlushKeeps ==
  ASSUME TypeOK, Apart(injector, deque), NEW t \in Threads, Flush(t)
  PROVE  /\ Apart(injector', deque')
         /\ All(injector', deque') = All(injector, deque)
<1> DEFINE k == flush[t]
<1>1. CASE k # None /\ deque[k] # <<>>
  <2> DEFINE h == Head(deque[k])
             b == Tail(deque[k])
  <2>1. k \in Ids /\ deque[k] \in Seq(Tasks) /\ IsInjective(deque[k])
    BY <1>1 DEF TypeOK, Apart
  <2>2. injector' = Append(injector, h) /\ deque' = [deque EXCEPT ![k] = b]
    BY <1>1 DEF Flush
  <2>3. /\ h \in Tasks /\ b \in Seq(Tasks) /\ IsInjective(b)
        /\ h \notin Range(b) /\ Range(deque[k]) = {h} \cup Range(b)
    BY <1>1, <2>1, TailFacts
  <2> HIDE DEF h, b, k
  <2>4. h \notin Range(injector)
    BY <2>1, <2>3 DEF Apart
  <2>5. injector' \in Seq(Tasks) /\ IsInjective(injector')
        /\ Range(injector') = Range(injector) \cup {h}
    BY <2>2, <2>3, <2>4, AppendFacts DEF Apart
  <2>6. deque' \in [Ids -> Seq(Tasks)] /\ deque'[k] = b
        /\ \A i \in Ids : i # k => deque'[i] = deque[i]
    BY <2>1, <2>2, <2>3 DEF Apart
  <2>7. \A i \in Ids : Range(deque'[i]) = Range(deque[i]) \ {h}
    BY <2>1, <2>3, <2>6 DEF Apart
  <2>8. \A i \in Ids : IsInjective(deque'[i])
    BY <2>1, <2>3, <2>6 DEF Apart
  <2>9. Apart(injector', deque')
    BY <2>5, <2>6, <2>7, <2>8 DEF Apart
  <2>10. All(injector', deque') = All(injector, deque)
    BY <2>1, <2>3, <2>5, <2>7 DEF All
  <2> QED BY <2>9, <2>10
<1>2. CASE ~(k # None /\ deque[k] # <<>>)
  BY <1>2 DEF Flush, queueVars
<1> QED BY <1>1, <1>2

-----------------------------------------------------------------------------
(* Where threads are, and what that says of their worker                   *)

\* Where a thread is, or will be once inject has returned.
Pos(t) == IF pc[t] \in {"notify", "deliver"} THEN ret[t] ELSE pc[t]

\* Inside run_loop, run_until_idle or run_one.
LoopPcs == {"loop", "find", "local", "steal", "peers", "spin", "mark", "recheck",
            "found", "park", "unmark", "run"}

\* A thread in a loop acts for a worker it registered; a guard owns one worker,
\* and the thread's deque is that of a worker it owns.
Placed(t) ==
    /\ Pos(t) \in LoopPcs => cur[t] \in workers /\ owner[cur[t]] = t
    /\ Pos(t) \in LoopPcs \cup {"flush", "install", "gone"} => cur[t] \in Ids
    /\ Pos(t) = "install" => owner[cur[t]] = t /\ cur[t] \notin workers
    /\ Pos(t) = "flush" /\ owner[cur[t]] = t => cur[t] \notin workers
    /\ Pos(t) \in {"flush", "install"} /\ owner[cur[t]] = t => tls[t] = None
    /\ pc[t] \in {"notify", "deliver"} => ret[t] \in {"out", "run", "flush", "gone"}
    /\ pc[t] = "deliver" => popped[t] \in Ids
    /\ flush[t] # None => Pos(t) = "flush"
    /\ held[t] # None => Pos(t) \in {"run", "found"}
    /\ tls[t] # None => tls[t] \in workers /\ owner[tls[t]] = t

Owned(i) ==
    /\ i \in workers => owner[i] # None
    /\ owner[i] # None /\ i \notin workers =>
          cur[owner[i]] = i /\ Pos(owner[i]) \in {"flush", "install"}
    /\ i >= next_id => owner[i] = None /\ i \notin workers
    /\ deque[i] # <<>> => \E t \in Threads : tls[t] = i \/ flush[t] = i

\* A task is in one queue or with one thread.
Single ==
    /\ Apart(injector, deque)
    /\ \A t \in Threads : held[t] # None => held[t] \notin All(injector, deque)
    /\ \A t, u \in Threads : held[t] # None /\ held[t] = held[u] => t = u

Inv == /\ TypeOK
       /\ Single
       /\ IdleSound
       /\ \A t \in Threads : Placed(t)
       /\ \A i \in Ids : Owned(i)

\* What a step of a loop does to the thread and leaves of the registry, and
\* what it does to the queues.
Walk(t) ==
    /\ pc[t] \in {"loop", "find", "local", "steal", "peers", "spin", "recheck", "run"}
    /\ UNCHANGED <<running, tls, registryVars, callVars>>
    /\ \/ /\ \E p \in {"loop", "find", "local", "steal", "peers", "spin", "mark", "run"} :
               Goto(t, p)
          /\ pc[t] # "recheck" /\ UNCHANGED <<cur, mode>>
       \/ /\ \E p \in {"found", "park"} : Goto(t, p)
          /\ pc[t] = "recheck" /\ UNCHANGED <<cur, mode>>
       \/ Leave(t) /\ pc[t] # "recheck" /\ (mode[t] = "loop" => ~running)

Served1(t) ==
    /\ \/ UNCHANGED queueVars /\ held'[t] \in {None, held[t]}
       \/ Takes(t, held'[t])
    /\ held' = [held EXCEPT ![t] = held'[t]]
    /\ held'[t] # None => pc'[t] \in {"run", "found"}
    /\ tick' \in [Ids -> 0..TickPeriod - 1]
    /\ batch' \in [Threads -> 0..BatchMax]

LEMMA Walking ==
  ASSUME Inv, NEW t \in Threads,
         \/ FindTick(t) \/ FindLocal(t) \/ FindInjector(t) \/ FindPeers(t)
         \/ Finish(t) \/ Spin(t) \/ Recheck(t)
         \/ LoopTop(t) /\ (running \/ t \in Callers)
  PROVE  Walk(t) /\ Served1(t)
<1> USE PoolAssumption DEF Goto, Leave, registryVars, callVars
<1>1. TypeOK /\ Apart(injector, deque) /\ Placed(t)
  BY DEF Inv, Single
<1>2. \A x : Takes(t, x) => x \in Tasks /\ x # None
  BY DEF Takes, All
<1>3. \A x, d : Run(t, x, d) => /\ held' = [held EXCEPT ![t] = x]
                               /\ batch' = [batch EXCEPT ![t] = d]
                               /\ Goto(t, IF pc[t] = "recheck" THEN "found" ELSE "run")
  BY DEF Run
<1>4. ASSUME NEW d \in 0..BatchMax, NEW x, Run(t, x, d)
      PROVE  /\ held' = [held EXCEPT ![t] = held'[t]] /\ batch' \in [Threads -> 0..BatchMax]
             /\ pc'[t] \in {"run", "found"}
  BY <1>1, <1>4 DEF Run, TypeOK
<1>5. BatchMax \in 0..BatchMax /\ 0 \in 0..BatchMax
  OBVIOUS
<1>6. CASE FindTick(t)
  <2>1. pc[t] = "find" /\ cur[t] \in Ids /\ held[t] = None
    BY <1>1, <1>6 DEF FindTick, Placed, Pos, LoopPcs
  <2>2. tick' \in [Ids -> 0..TickPeriod - 1]
    BY <1>1, <1>6, <2>1 DEF FindTick, TypeOK
  <2>3. CASE StealInjector(t, BatchMax)
    <3>1. Takes(t, held'[t]) /\ Run(t, held'[t], BatchMax)
      BY <1>1, <2>3, StealTakes
    <3>2. Served1(t)
      BY <1>4, <1>5, <2>2, <3>1 DEF Served1
    <3>3. Walk(t)
      BY <1>3, <1>6, <2>1, <3>1 DEF Walk, FindTick
    <3> QED BY <3>2, <3>3
  <2>4. CASE Goto(t, "local") /\ UNCHANGED <<queueVars, held, batch>>
    BY <1>1, <1>6, <2>1, <2>2, <2>4 DEF Walk, Served1, FindTick, TypeOK
  <2> QED BY <1>6, <2>3, <2>4, Zenon DEF FindTick
<1>7. CASE FindLocal(t)
  <2>1. pc[t] = "local" /\ held[t] = None /\ UNCHANGED <<injector, tick>>
    BY <1>1, <1>7 DEF FindLocal, Placed, Pos, LoopPcs
  <2>2. CASE LocalPop(t, BatchMax)
    <3>1. Takes(t, held'[t]) /\ Run(t, held'[t], BatchMax)
      BY <1>1, <2>1, <2>2, PopTakes
    <3>2. Served1(t)
      BY <1>1, <1>4, <1>5, <2>1, <3>1 DEF Served1, TypeOK
    <3>3. Walk(t)
      BY <1>3, <1>7, <2>1, <3>1 DEF Walk, FindLocal
    <3> QED BY <3>2, <3>3
  <2>3. CASE Goto(t, "steal") /\ UNCHANGED <<deque, held, batch>>
    BY <1>1, <1>7, <2>1, <2>3 DEF Walk, Served1, FindLocal, TypeOK, queueVars
  <2> QED BY <1>7, <2>2, <2>3, Zenon DEF FindLocal
<1>8. ASSUME NEW d \in 0..BatchMax, StealInjector(t, d), pc[t] \in {"steal", "spin", "recheck"},
             UNCHANGED <<running, tls, registryVars, tick, cur, mode, callVars>>
      PROVE  Walk(t) /\ Served1(t)
  <2>1. Takes(t, held'[t]) /\ Run(t, held'[t], d)
    BY <1>1, <1>8, StealTakes
  <2>2. Served1(t)
    BY <1>1, <1>4, <1>8, <2>1 DEF Served1, TypeOK
  <2>3. Walk(t)
    BY <1>3, <1>8, <2>1 DEF Walk
  <2> QED BY <2>2, <2>3
<1>9. ASSUME NEW p \in {"peers", "mark", "park"}, Goto(t, p),
             UNCHANGED <<queueVars, held, batch>>,
             pc[t] = CASE p = "peers" -> "steal" [] p = "mark" -> "spin" [] OTHER -> "recheck",
             UNCHANGED <<running, tls, registryVars, tick, cur, mode, callVars>>
      PROVE  Walk(t) /\ Served1(t)
  <2>1. held[t] = None /\ pc[t] \in {"steal", "spin", "recheck"}
    BY <1>1, <1>9 DEF Placed, Pos
  <2>2. Served1(t)
    BY <1>1, <1>9, <2>1 DEF Served1, TypeOK
  <2>3. Walk(t)
    BY <1>9, <2>1 DEF Walk
  <2> QED BY <2>2, <2>3
<1>10. CASE FindInjector(t)
  BY <1>5, <1>8, <1>9, <1>10 DEF FindInjector
<1>11. CASE Spin(t)
  BY <1>5, <1>8, <1>9, <1>11 DEF Spin
<1>12. CASE Recheck(t)
  BY <1>5, <1>8, <1>9, <1>12 DEF Recheck
<1>13. CASE FindPeers(t)
  <2>1. pc[t] = "peers" /\ held[t] = None
        /\ UNCHANGED <<running, injector, tls, registryVars, tick, callVars>>
    BY <1>1, <1>13 DEF FindPeers, Placed, Pos, LoopPcs
  <2>2. ASSUME NEW i \in Victims(t), StealPeer(t, i), UNCHANGED <<cur, mode>>
        PROVE  Walk(t) /\ Served1(t)
    <3>1. Takes(t, held'[t]) /\ Run(t, held'[t], BatchMax)
      BY <1>1, <2>1, <2>2, PeerTakes
    <3>2. Served1(t)
      BY <1>1, <1>4, <1>5, <2>1, <3>1 DEF Served1, TypeOK
    <3>3. Walk(t)
      BY <1>3, <2>1, <2>2, <3>1 DEF Walk
    <3> QED BY <3>2, <3>3
  <2>3. CASE /\ IF mode[t] = "loop" THEN Goto(t, "spin") /\ UNCHANGED <<cur, mode>>
                                    ELSE Leave(t)
             /\ UNCHANGED <<deque, held, batch>>
    <3>1. Served1(t)
      BY <1>1, <2>1, <2>3 DEF Served1, TypeOK, queueVars
    <3>2. Walk(t)
      BY <2>1, <2>3 DEF Walk
    <3> QED BY <3>1, <3>2
  <2> QED BY <1>13, <2>2, <2>3, Zenon DEF FindPeers
<1>14. CASE Finish(t)
  <2>1. pc[t] = "run"
        /\ UNCHANGED <<running, injector, tls, registryVars, tick, callVars>>
    BY <1>14 DEF Finish
  <2>2. CASE LocalPop(t, BatchNext(t)) /\ BatchLeft(t) /\ UNCHANGED <<cur, mode>>
    <3>1. Takes(t, held'[t]) /\ Run(t, held'[t], BatchNext(t))
      BY <1>1, <2>1, <2>2, PopTakes
    <3>2. BatchNext(t) \in 0..BatchMax
      BY <1>1, <2>2 DEF BatchNext, BatchLeft, TypeOK
    <3>3. Served1(t)
      BY <1>1, <1>4, <2>1, <3>1, <3>2 DEF Served1, TypeOK
    <3>4. Walk(t)
      BY <1>3, <2>1, <2>2, <3>1 DEF Walk
    <3> QED BY <3>3, <3>4
  <2>3. CASE /\ held' = [held EXCEPT ![t] = None]
             /\ batch' = [batch EXCEPT ![t] = 0]
             /\ IF mode[t] = "one"
                  THEN Leave(t)
                  ELSE /\ Goto(t, IF mode[t] = "loop" THEN "loop" ELSE "find")
                       /\ UNCHANGED <<cur, mode>>
             /\ UNCHANGED deque
    <3>1. Served1(t)
      BY <1>1, <2>1, <2>3 DEF Served1, TypeOK, queueVars
    <3>2. Walk(t)
      BY <2>1, <2>3 DEF Walk
    <3> QED BY <3>1, <3>2
  <2> QED BY <1>14, <2>2, <2>3, Zenon DEF Finish
<1>15. CASE LoopTop(t) /\ (running \/ t \in Callers)
  <2>1. pc[t] = "loop" /\ held[t] = None /\ UNCHANGED <<running, queueVars, held, batch, popped, ret>>
    BY <1>1, <1>15 DEF LoopTop, Placed, Pos, LoopPcs
  <2>2. Served1(t)
    BY <1>1, <1>15, <2>1 DEF Served1, TypeOK, LoopTop
  <2>3. Walk(t)
    BY <1>15, <2>1 DEF Walk, LoopTop
  <2> QED BY <2>2, <2>3
<1> QED BY <1>6, <1>7, <1>10, <1>11, <1>12, <1>13, <1>14, <1>15

-----------------------------------------------------------------------------
(* The invariant, action by action                                         *)

LEMMA WalkInv ==
  ASSUME Inv, NEW t \in Threads, Walk(t), Served1(t)
  PROVE  Inv'
<1> USE PoolAssumption DEF Goto, Leave, registryVars, callVars, queueVars
<1>1. TypeOK /\ Apart(injector, deque) /\ Single /\ IdleSound /\ Placed(t)
  BY DEF Inv, Single
<1>2. Apart(injector', deque')
  BY <1>1 DEF Served1, Takes
<1>3. /\ held'[t] \in Tasks \cup {None}
      /\ held' = [held EXCEPT ![t] = held'[t]]
  BY <1>1 DEF Served1, Takes, All, TypeOK
<1>4. /\ pc' = [pc EXCEPT ![t] = pc'[t]]
      /\ cur' \in [Threads -> Ids \cup {None}] /\ pc'[t] \in Pcs
      /\ mode' \in [Threads -> {"loop", "drain", "one"}]
  BY <1>1 DEF Walk, TypeOK, Pcs
<1>5. TypeOK'
  <2>1. held' \in [Threads -> Tasks \cup {None}] /\ pc' \in [Threads -> Pcs]
    BY <1>1, <1>3, <1>4 DEF TypeOK
  <2>2. UNCHANGED <<running, tls, registryVars, callVars>>
    BY DEF Walk
  <2>3. /\ injector' \in Seq(Tasks) /\ deque' \in [Ids -> Seq(Tasks)]
        /\ tick' \in [Ids -> 0..TickPeriod - 1] /\ batch' \in [Threads -> 0..BatchMax]
    BY <1>2 DEF Apart, Served1
  <2> QED BY <1>1, <1>4, <2>1, <2>2, <2>3 DEF TypeOK
<1>6. Single'
  <2>1. CASE UNCHANGED queueVars /\ held'[t] \in {None, held[t]}
    BY <1>1, <1>2, <1>3, <2>1 DEF Single, TypeOK
  <2>2. CASE Takes(t, held'[t])
    <3>1. \A u \in Threads : u # t => held'[u] = held[u]
      BY <1>1, <1>3 DEF TypeOK
    <3>2. \A u \in Threads : u # t /\ held[u] # None => held[u] # held'[t]
      BY <1>1, <2>2 DEF Single, Takes
    <3> QED BY <1>1, <1>2, <2>2, <3>1, <3>2 DEF Single, Takes
  <2> QED BY <2>1, <2>2 DEF Served1
<1>7. IdleSound'
  <2>1. \A u \in Threads : u # t => cur'[u] = cur[u] /\ pc'[u] = pc[u]
    BY <1>1, <1>4 DEF Walk, TypeOK
  <2>2. pc[t] = "recheck" => cur'[t] = cur[t] /\ pc'[t] \in {"found", "park"}
    BY <1>1 DEF Walk, TypeOK
  <2>3. pc[t] \notin {"found", "park", "unmark"}
    BY DEF Walk
  <2> QED BY <1>1, <2>1, <2>2, <2>3 DEF IdleSound, Walk
<1>8. ASSUME NEW u \in Threads PROVE Placed(u)'
  <2>1. Placed(u)
    BY DEF Inv
  <2>2. UNCHANGED <<tls, workers, owner, flush, ret, popped>>
    BY DEF Walk
  <2>3. CASE u # t
    <3>1. cur'[u] = cur[u] /\ pc'[u] = pc[u] /\ held'[u] = held[u]
      BY <1>1, <1>3, <1>4, <2>3 DEF Walk, TypeOK
    <3> QED BY <2>1, <2>2, <3>1 DEF Placed, Pos
  <2>4. CASE u = t
    <3>1. pc[t] \in LoopPcs /\ pc[t] \notin {"notify", "deliver", "flush", "install"} /\ Pos(t) = pc[t]
      BY DEF Walk, LoopPcs, Pos
    <3>2. CASE pc'[t] = "out"
      BY <1>1, <2>2, <2>4, <3>1, <3>2 DEF Placed, Pos, Served1, LoopPcs
    <3>3. CASE pc'[t] # "out"
      <4>1. cur' = cur /\ pc'[t] \in LoopPcs
            /\ pc'[t] \notin {"notify", "deliver", "flush", "install", "gone"}
        BY <1>1, <3>3 DEF Walk, LoopPcs, TypeOK
      <4> QED BY <1>1, <2>2, <2>4, <3>1, <4>1 DEF Placed, Pos, Served1
    <3> QED BY <3>2, <3>3
  <2> QED BY <2>3, <2>4
<1>9. ASSUME NEW i \in Ids PROVE Owned(i)'
  <2>1. Owned(i)
    BY DEF Inv
  <2>2. UNCHANGED <<tls, workers, owner, flush, ret, next_id>>
    BY DEF Walk
  <2>3. deque'[i] # <<>> => deque[i] # <<>> \/ tls[t] = i
    BY DEF Served1, Takes
  <2>4. owner[i] # None /\ i \notin workers => owner[i] # t /\ owner[i] \in Threads
    BY <1>1, <2>1 DEF Owned, Walk, Pos, TypeOK
  <2>5. \A u \in Threads : u # t => cur'[u] = cur[u] /\ pc'[u] = pc[u]
    BY <1>1, <1>4 DEF Walk, TypeOK
  <2> QED BY <2>1, <2>2, <2>3, <2>4, <2>5 DEF Owned, Pos
<1> QED BY <1>5, <1>6, <1>7, <1>8, <1>9 DEF Inv

\* inject, by a caller, in a task or for the task that was run
LEMMA PushInv ==
  ASSUME Inv, NEW t \in Threads, NEW x \in Tasks, x \notin All(injector, deque),
         Push(t, x), pc[t] \in {"out", "run"},
         held' = held \/ held' = [held EXCEPT ![t] = None],
         \A u \in Threads : held'[u] # x,
         UNCHANGED <<running, tls, registryVars, tick, cur, mode, batch, flush, popped>>
  PROVE  Inv'
<1> USE PoolAssumption DEF Goto, registryVars
<1>1. TypeOK /\ Apart(injector, deque) /\ Single /\ IdleSound /\ Placed(t)
  BY DEF Inv, Single
<1>2. Apart(injector', deque') /\ All(injector', deque') = All(injector, deque) \cup {x}
  BY <1>1, PushAdds
<1>3. held' \in [Threads -> Tasks \cup {None}]
      /\ \A u \in Threads : held'[u] \in {held[u], None}
  BY <1>1 DEF TypeOK
<1>4. \/ UNCHANGED <<pc, ret>>
      \/ pc' = [pc EXCEPT ![t] = "notify"] /\ ret' = [ret EXCEPT ![t] = pc[t]]
  BY DEF Push
<1>5. TypeOK'
  BY <1>1, <1>2, <1>3, <1>4 DEF TypeOK, Apart, Pcs
<1>6. Single'
  BY <1>1, <1>2, <1>3 DEF Single
<1>7. IdleSound'
  BY <1>1, <1>4 DEF IdleSound, TypeOK
<1>8. \A u \in Threads : Pos(u)' = Pos(u) /\ (pc'[u] = "deliver" <=> pc[u] = "deliver")
                       /\ (pc'[u] \in {"notify", "deliver"} => ret'[u] = Pos(u))
  BY <1>1, <1>4 DEF Pos, TypeOK
<1>9. ASSUME NEW u \in Threads PROVE Placed(u)'
  <2>1. Placed(u) /\ (pc[u] \in {"notify", "deliver"} => ret'[u] = ret[u])
    BY <1>1, <1>4 DEF Inv, TypeOK
  <2>2. u # t => pc'[u] = pc[u] /\ ret'[u] = ret[u]
    BY <1>1, <1>4 DEF TypeOK
  <2>3. u = t => Pos(u) \in {"out", "run"}
    BY DEF Pos
  <2> QED BY <1>3, <1>8, <2>1, <2>2, <2>3 DEF Placed
<1>10. ASSUME NEW i \in Ids PROVE Owned(i)'
  <2>1. Owned(i) /\ (owner[i] # None => owner[i] \in Threads)
    BY <1>1 DEF Inv, TypeOK
  <2>2. deque'[i] # <<>> => deque[i] # <<>> \/ tls[t] = i
    BY <1>1 DEF Push, TypeOK
  <2> QED BY <1>8, <2>1, <2>2 DEF Owned
<1> QED BY <1>5, <1>6, <1>7, <1>9, <1>10 DEF Inv

\* Steps that leave the thread where it is, or where it was when it called
\* inject, and touch no queue and no guard.
Still(t) ==
    /\ UNCHANGED <<queueVars, held, cur, tls, workers, next_id, owner, flush>>
    /\ \A u \in Threads : Pos(u)' = Pos(u)
    /\ \A u \in Threads : u # t => pc'[u] = pc[u] /\ ret'[u] = ret[u] /\ popped'[u] = popped[u]
    /\ pc'[t] \in {"notify", "deliver"} => pc[t] \in {"notify", "deliver"} /\ ret'[t] = ret[t]
    /\ pc'[t] = "deliver" => popped'[t] \in Ids

LEMMA StillInv ==
  ASSUME Inv, NEW t \in Threads, Still(t)
  PROVE  /\ Single'
         /\ \A u \in Threads : Placed(u)'
         /\ \A i \in Ids : Owned(i)'
<1>1. TypeOK /\ Single
  BY DEF Inv
<1>2. Single'
  BY <1>1 DEF Still, Single, queueVars
<1>3. ASSUME NEW u \in Threads PROVE Placed(u)'
  <2>1. Placed(u) /\ (pc'[u] \in {"notify", "deliver"} => ret'[u] = Pos(u))
    <3>1. Placed(u)
      BY DEF Inv
    <3>2. pc'[u] \in {"notify", "deliver"} => Pos(u)' = ret'[u]
      BY DEF Pos
    <3> QED BY <3>1, <3>2 DEF Still
  <2>2. pc'[u] \in {"notify", "deliver"} => ret'[u] \in {"out", "run", "flush", "gone"}
    BY <2>1 DEF Still, Placed, Pos
  <2> QED BY <2>1, <2>2 DEF Still, Placed
<1>4. ASSUME NEW i \in Ids PROVE Owned(i)'
  <2>1. Owned(i) /\ (owner[i] # None => owner[i] \in Threads)
    BY <1>1 DEF Inv, TypeOK
  <2> QED BY <2>1 DEF Still, Owned, queueVars
<1> QED BY <1>2, <1>3, <1>4

LEMMA ResumeStill ==
  ASSUME Inv, NEW t \in Threads, Resume(t), pc[t] \in {"notify", "deliver"}
  PROVE  /\ pc' \in [Threads -> Pcs] /\ ret' \in [Threads -> Pcs]
         /\ \A u \in Threads : Pos(u)' = Pos(u)
         /\ \A u \in Threads : u # t => pc'[u] = pc[u] /\ ret'[u] = ret[u]
         /\ pc'[t] = ret[t] /\ pc'[t] \in {"out", "run", "flush", "gone"}
<1>1. Placed(t) /\ pc \in [Threads -> Pcs] /\ ret \in [Threads -> Pcs]
  BY DEF Inv, TypeOK
<1>2. ret[t] \in {"out", "run", "flush", "gone"}
  BY <1>1 DEF Placed
<1> QED BY <1>1, <1>2 DEF Resume, Goto, Pos, Pcs

LEMMA NotifyInv ==
  ASSUME Inv, NEW t \in Threads, Notify(t)
  PROVE  Inv'
<1> USE DEF Goto, registryVars, loopVars
<1>1. TypeOK /\ IdleSound /\ Placed(t) /\ pc[t] = "notify"
  BY DEF Inv, Notify
<1>2. CASE idle = <<>>
  <2>1. Resume(t) /\ UNCHANGED <<idle, popped>>
    BY <1>2 DEF Notify
  <2>2. Still(t)
    BY <1>1, <2>1, ResumeStill DEF Still, Notify
  <2>3. TypeOK'
    BY <1>1, <2>1, ResumeStill DEF TypeOK, Notify, queueVars
  <2>4. IdleSound'
    BY <1>1, <1>2, <2>1, EmptySeq, LenProperties DEF IdleSound, IsInjective, Range
  <2> QED BY <2>2, <2>3, <2>4, StillInv DEF Inv
<1>3. CASE idle # <<>>
  <2>1. /\ popped' = [popped EXCEPT ![t] = Last(idle)] /\ idle' = Front(idle)
        /\ pc' = [pc EXCEPT ![t] = "deliver"] /\ ret' = ret
    BY <1>3 DEF Notify
  <2>2. /\ Last(idle) \in Range(idle) /\ Front(idle) \in Seq(Ids) /\ IsInjective(Front(idle))
        /\ Range(Front(idle)) = Range(idle) \ {Last(idle)}
    BY <1>1, <1>3, FrontFacts DEF TypeOK, IdleSound
  <2>3. Last(idle) \in Ids
    BY <1>1, <2>2 DEF TypeOK, IdleSound
  <2>4. Still(t)
    BY <1>1, <2>1, <2>3 DEF Still, Notify, Pos, TypeOK, Placed
  <2>5. TypeOK'
    BY <1>1, <2>1, <2>2, <2>3 DEF TypeOK, Notify, queueVars, Pcs
  <2>6. IdleSound'
    BY <1>1, <2>1, <2>2 DEF IdleSound, Notify, TypeOK
  <2> QED BY <2>4, <2>5, <2>6, StillInv DEF Inv
<1> QED BY <1>2, <1>3

LEMMA DeliverInv ==
  ASSUME Inv, NEW t \in Threads, Deliver(t)
  PROVE  Inv'
<1> USE DEF Goto, registryVars, loopVars
<1>1. TypeOK /\ IdleSound /\ Placed(t) /\ pc[t] = "deliver" /\ popped' = [popped EXCEPT ![t] = None]
  BY DEF Inv, Deliver
<1>2. CASE popped[t] \in workers
  <2>1. Resume(t) /\ token' = [token EXCEPT ![popped[t]] = TRUE]
    BY <1>2 DEF Deliver
  <2>2. Still(t)
    BY <1>1, <2>1, ResumeStill DEF Still, Deliver, TypeOK
  <2>3. TypeOK'
    BY <1>1, <2>1, ResumeStill DEF TypeOK, Deliver, queueVars
  <2>4. IdleSound'
    BY <1>1, <2>1, ResumeStill DEF IdleSound, Deliver
  <2> QED BY <2>2, <2>3, <2>4, StillInv DEF Inv
<1>3. CASE popped[t] \notin workers
  <2>1. pc' = [pc EXCEPT ![t] = "notify"] /\ UNCHANGED <<token, ret>>
    BY <1>3 DEF Deliver
  <2>2. Still(t)
    BY <1>1, <2>1 DEF Still, Deliver, Pos, TypeOK
  <2>3. TypeOK'
    BY <1>1, <2>1 DEF TypeOK, Deliver, queueVars, Pcs
  <2>4. IdleSound'
    BY <1>1, <2>1 DEF IdleSound, Deliver, TypeOK
  <2> QED BY <2>2, <2>3, <2>4, StillInv DEF Inv
<1> QED BY <1>2, <1>3

LEMMA MarkInv ==
  ASSUME Inv, NEW t \in Threads,
         MarkIdle(t) \/ Unparked(t) \/ Timeout(t) \/ UnmarkIdle(t)
  PROVE  Inv'
<1> USE DEF Goto, registryVars, loopVars, callVars
<1>1. TypeOK /\ Single /\ IdleSound /\ Placed(t)
  BY DEF Inv
<1>2. /\ pc[t] \in {"mark", "park", "unmark", "found"} /\ cur[t] \in workers
      /\ cur[t] \in Ids /\ owner[cur[t]] = t /\ Pos(t) = pc[t]
  BY <1>1 DEF MarkIdle, Unparked, Timeout, UnmarkIdle, Placed, Pos, LoopPcs
<1>3. /\ \E p \in {"recheck", "unmark", "run", "loop"} : pc' = [pc EXCEPT ![t] = p]
      /\ pc[t] = "found" => pc' = [pc EXCEPT ![t] = "run"]
      /\ UNCHANGED <<running, queueVars, tls, workers, next_id, owner, loopVars, callVars>>
  BY DEF MarkIdle, Unparked, Timeout, UnmarkIdle, ParkReturns
<1>4. \A u \in Threads : u # t => pc'[u] = pc[u]
  BY <1>1, <1>3 DEF TypeOK
<1>5. pc'[t] \in {"recheck", "unmark", "run", "loop"} /\ (pc[t] = "found" => pc'[t] = "run")
  BY <1>1, <1>3 DEF TypeOK
<1>6. Single'
  BY <1>1, <1>3 DEF Single, queueVars
<1>7. ASSUME NEW u \in Threads PROVE Placed(u)'
  <2>1. Placed(u)
    BY DEF Inv
  <2>2. CASE u = t
    BY <1>2, <1>3, <1>5, <2>1, <2>2 DEF Placed, Pos, LoopPcs
  <2>3. CASE u # t
    BY <1>3, <1>4, <2>1, <2>3 DEF Placed, Pos
  <2> QED BY <2>2, <2>3
<1>8. ASSUME NEW i \in Ids PROVE Owned(i)'
  <2>1. Owned(i) /\ (owner[i] # None => owner[i] \in Threads)
    BY <1>1 DEF Inv, TypeOK
  <2>2. owner[i] # None /\ i \notin workers => owner[i] # t
    BY <1>2, <2>1 DEF Owned
  <2> QED BY <1>3, <1>4, <2>1, <2>2 DEF Owned, Pos, queueVars
<1>9. ASSUME /\ idle' \in Seq(Ids) /\ IsInjective(idle')
             /\ Range(idle') \subseteq (Range(idle) \cup {cur[t]})
             /\ cur[t] \in Range(idle') => pc'[t] \in {"recheck", "unmark"},
             token' \in [Ids -> BOOLEAN]
      PROVE  Inv'
  <2>1. TypeOK'
    BY <1>1, <1>3, <1>9 DEF TypeOK, Pcs, queueVars
  <2>2. IdleSound'
    <3>1. ASSUME NEW i \in Range(idle') PROVE \E u \in Threads : cur[u] = i
                    /\ pc'[u] \in {"recheck", "found", "park", "unmark"}
      <4>1. CASE i = cur[t]
        BY <1>9, <4>1
      <4>2. CASE i # cur[t]
        <5>1. PICK u \in Threads : cur[u] = i /\ pc[u] \in {"recheck", "found", "park", "unmark"}
          BY <1>1, <1>9, <4>2 DEF IdleSound
        <5> QED BY <1>4, <4>2, <5>1
      <4> QED BY <4>1, <4>2
    <3> QED BY <1>1, <1>2, <1>3, <1>9, <3>1 DEF IdleSound
  <2> QED BY <1>6, <1>7, <1>8, <2>1, <2>2 DEF Inv
<1>10. CASE MarkIdle(t)
  <2>1. pc'[t] = "recheck" /\ token' = token
    BY <1>1, <1>10 DEF MarkIdle, TypeOK
  <2>2. idle' = IF cur[t] \in Range(idle) THEN idle ELSE Append(idle, cur[t])
    BY <1>10 DEF MarkIdle
  <2>3. idle' \in Seq(Ids) /\ IsInjective(idle') /\ Range(idle') \subseteq (Range(idle) \cup {cur[t]})
    BY <1>1, <1>2, <2>2, AppendFacts DEF TypeOK, IdleSound
  <2> QED BY <1>1, <1>9, <2>1, <2>3 DEF TypeOK
<1>11. CASE Unparked(t) \/ Timeout(t)
  <2>1. pc'[t] = "unmark" /\ idle' = idle /\ token' = [token EXCEPT ![cur[t]] = FALSE]
    BY <1>1, <1>11 DEF Unparked, Timeout, ParkReturns, TypeOK
  <2>2. token' \in [Ids -> BOOLEAN]
    BY <1>1, <2>1 DEF TypeOK
  <2> QED BY <1>1, <1>9, <2>1, <2>2 DEF TypeOK, IdleSound
<1>12. CASE UnmarkIdle(t)
  <2>1. idle' = RemoveFirst(idle, cur[t]) /\ token' = token
    BY <1>12 DEF UnmarkIdle, Unlisted
  <2>2. idle' \in Seq(Ids) /\ IsInjective(idle') /\ Range(idle') = Range(idle) \ {cur[t]}
    BY <1>1, <2>1, RetainFacts DEF TypeOK, IdleSound
  <2> QED BY <1>1, <1>9, <2>1, <2>2 DEF TypeOK
<1> QED BY <1>10, <1>11, <1>12

\* WorkerGuard::drop, of a caller's guard or at the end of a background thread
LEMMA DropInv ==
  ASSUME Inv, NEW t \in Threads, NEW i \in Ids, DropGuard(t, i), pc[t] \in {"out", "loop"}
  PROVE  Inv'
<1> USE DEF Goto, queueVars
<1>1. TypeOK /\ Single /\ IdleSound /\ Placed(t) /\ owner[i] = t /\ Pos(t) = pc[t]
  BY DEF Inv, DropGuard, Pos
<1>2. held[t] = None /\ flush[t] = None
  BY <1>1 DEF Placed
<1>3. /\ UNCHANGED <<running, queueVars, next_id, held, mode, batch, popped, ret>>
      /\ owner' = [owner EXCEPT ![i] = None] /\ workers' = workers \ {i}
      /\ cur' = [cur EXCEPT ![t] = i] /\ pc' = [pc EXCEPT ![t] = "flush"]
  BY DEF DropGuard
<1>4. \/ tls[t] = i /\ flush' = [flush EXCEPT ![t] = i] /\ tls' = [tls EXCEPT ![t] = None]
      \/ tls[t] # i /\ UNCHANGED <<flush, tls>>
  BY DEF DropGuard, Reclaims
<1>5. /\ idle' \in Seq(Ids) /\ IsInjective(idle') /\ Range(idle') = Range(idle) \ {i}
  BY <1>1, RetainFacts DEF DropGuard, TypeOK, IdleSound
<1>6. TypeOK'
  <2>1. tick' \in [Ids -> 0..TickPeriod - 1]
    BY <1>1, PoolAssumption DEF DropGuard, TypeOK
  <2>2. token' \in [Ids -> BOOLEAN]
    BY <1>1 DEF DropGuard, TypeOK
  <2>3. flush' \in [Threads -> Ids \cup {None}] /\ tls' \in [Threads -> Ids \cup {None}]
    <3>1. flush \in [Threads -> Ids \cup {None}] /\ tls \in [Threads -> Ids \cup {None}]
      BY <1>1 DEF TypeOK
    <3> QED BY <1>4, <3>1
  <2> QED BY <1>1, <1>3, <1>5, <2>1, <2>2, <2>3 DEF TypeOK, Pcs
<1>7. Single'
  BY <1>1, <1>3 DEF Single
<1>8. \A u \in Threads : u # t => /\ pc'[u] = pc[u] /\ cur'[u] = cur[u] /\ tls'[u] = tls[u]
                                  /\ flush'[u] = flush[u]
  BY <1>1, <1>3, <1>4 DEF TypeOK
<1>9. IdleSound'
  BY <1>1, <1>3, <1>5, <1>8 DEF IdleSound
<1>10. pc'[t] = "flush" /\ cur'[t] = i /\ owner'[i] = None
       /\ \A j \in Ids : j # i => owner'[j] = owner[j]
  BY <1>1, <1>3 DEF TypeOK
<1>11. ASSUME NEW u \in Threads PROVE Placed(u)'
  <2>1. Placed(u) /\ u # None /\ (tls[u] # None => tls[u] \in Ids)
    BY <1>1, PoolAssumption DEF Inv, TypeOK
  <2>2. CASE u = t
    <3>1. Pos(u)' = "flush"
      BY <1>10, <2>2 DEF Pos
    <3>2. tls'[u] # None => tls'[u] = tls[u] /\ tls[u] # i
      <4>1. tls \in [Threads -> Ids \cup {None}]
        BY <1>1 DEF TypeOK
      <4> QED BY <1>4, <2>2, <4>1
    <3> QED BY <1>2, <1>3, <1>10, <2>1, <2>2, <3>1, <3>2 DEF Placed, LoopPcs
  <2>3. CASE u # t
    <3>1. Pos(u)' = Pos(u)
      BY <1>3, <1>8, <2>3 DEF Pos
    <3>2. \A j \in Ids : owner[j] = u => j # i
      BY <1>1, <2>3
    <3>3. cur[u] \in Ids => (owner'[cur[u]] = u <=> owner[cur[u]] = u)
      BY <1>1, <1>10, <2>1, <2>3
    <3>4. Pos(u) \in LoopPcs => cur[u] \in workers' /\ cur[u] \in Ids
      BY <1>1, <1>3, <2>1, <2>3 DEF Placed
    <3>5. tls[u] # None => tls[u] \in workers' /\ owner'[tls[u]] = u
      BY <1>1, <1>3, <1>10, <2>1, <2>3 DEF Placed
    <3> QED BY <1>3, <1>8, <2>1, <2>3, <3>1, <3>3, <3>4, <3>5 DEF Placed
  <2> QED BY <2>2, <2>3
<1>12. ASSUME NEW j \in Ids PROVE Owned(j)'
  <2>1. Owned(j) /\ (owner[j] # None => owner[j] \in Threads)
    BY <1>1 DEF Inv, TypeOK
  <2>2. owner[j] # None /\ j \notin workers => owner[j] # t
    BY <1>1, <2>1 DEF Owned
  <2>3. j # i => (j \in workers' <=> j \in workers)
    BY <1>3
  <2>4. deque'[j] # <<>> => \E u \in Threads : tls'[u] = j \/ flush'[u] = j
    <3>1. ASSUME deque[j] # <<>> PROVE \E u \in Threads : tls'[u] = j \/ flush'[u] = j
      <4>1. PICK u \in Threads : tls[u] = j \/ flush[u] = j
        BY <2>1, <3>1 DEF Owned
      <4>2. CASE u # t
        BY <1>8, <4>1, <4>2
      <4>3. CASE u = t /\ tls[t] = j
        BY <1>1, <1>4, <4>3 DEF TypeOK
      <4>4. CASE u = t /\ flush[t] = j
        BY <1>2, <4>4, PoolAssumption
      <4> QED BY <4>1, <4>2, <4>3, <4>4
    <3> QED BY <1>3, <3>1
  <2>5. owner'[j] # None /\ j \notin workers' =>
           cur'[owner'[j]] = j /\ Pos(owner[j])' \in {"flush", "install"}
    <3>1. ASSUME owner'[j] # None, j \notin workers'
          PROVE  cur'[owner'[j]] = j /\ Pos(owner[j])' \in {"flush", "install"}
      <4>1. j # i /\ owner'[j] = owner[j] /\ j \notin workers
        BY <1>10, <2>3, <3>1
      <4>2. PICK v \in Threads : v = owner[j] /\ v # t /\ cur[v] = j /\ Pos(v) \in {"flush", "install"}
        BY <2>1, <2>2, <3>1, <4>1 DEF Owned
      <4>3. cur'[v] = j /\ Pos(v)' = Pos(v)
        BY <1>3, <1>8, <4>2 DEF Pos
      <4> QED BY <4>1, <4>2, <4>3
    <3> QED BY <3>1
  <2>6. j >= next_id => owner'[j] = None /\ j \notin workers'
    BY <1>3, <1>10, <2>1 DEF Owned
  <2>7. j \in workers' => owner'[j] # None
    BY <1>3, <1>10, <2>1 DEF Owned
  <2>8. next_id' = next_id
    BY <1>3
  <2> QED BY <2>4, <2>5, <2>6, <2>7, <2>8 DEF Owned
<1> QED BY <1>6, <1>7, <1>9, <1>11, <1>12 DEF Inv

\* WorkerHandle::new, up to the flush of the deque it replaces
LEMMA RegisterInv ==
  ASSUME Inv, NEW t \in Threads, Register(t)
  PROVE  Inv'
<1> USE DEF Goto, queueVars
<1> DEFINE n == next_id
<1>1. TypeOK /\ Single /\ IdleSound /\ Placed(t) /\ Pos(t) = "out" /\ pc[t] = "out"
  BY DEF Inv, Register, Pos
<1>2. n \in Ids /\ n + 1 \in 1..MaxWorkers + 1 /\ n < n + 1
  <2>1. IsFiniteSet(NotStarted \ {t})
    BY PoolAssumption, FS_Subset DEF NotStarted
  <2>2. Cardinality(NotStarted \ {t}) \in Nat
    BY <2>1, FS_CardinalityType
  <2>3. n + Cardinality(NotStarted \ {t}) \in Ids /\ n \in 1..MaxWorkers + 1
    BY <1>1 DEF Register, TypeOK
  <2> HIDE DEF n
  <2> QED BY <2>2, <2>3, PoolAssumption DEF Ids
<1>3. /\ UNCHANGED <<running, queueVars, workers, idle, token, tick, held, mode, batch, popped, ret>>
      /\ next_id' = n + 1 /\ owner' = [owner EXCEPT ![n] = t] /\ cur' = [cur EXCEPT ![t] = n]
      /\ flush' = [flush EXCEPT ![t] = tls[t]] /\ tls' = [tls EXCEPT ![t] = None]
      /\ pc' = [pc EXCEPT ![t] = "flush"]
  BY DEF Register
<1>4. held[t] = None /\ flush[t] = None
  BY <1>1 DEF Placed
<1>5. owner[n] = None /\ n \notin workers
  BY <1>2 DEF Inv, Owned, Ids
<1> HIDE DEF n
<1>6. TypeOK'
  <2>1. flush \in [Threads -> Ids \cup {None}] /\ tls \in [Threads -> Ids \cup {None}]
    BY <1>1 DEF TypeOK
  <2>2. flush' \in [Threads -> Ids \cup {None}] /\ tls' \in [Threads -> Ids \cup {None}]
    BY <1>3, <2>1
  <2> QED BY <1>1, <1>2, <1>3, <2>2 DEF TypeOK, Pcs
<1>7. Single'
  BY <1>1, <1>3 DEF Single
<1>8. \A u \in Threads : u # t => /\ pc'[u] = pc[u] /\ cur'[u] = cur[u] /\ tls'[u] = tls[u]
                                  /\ flush'[u] = flush[u]
  BY <1>1, <1>3 DEF TypeOK
<1>9. IdleSound'
  BY <1>1, <1>3, <1>8 DEF IdleSound
<1>10. /\ pc'[t] = "flush" /\ cur'[t] = n /\ owner'[n] = t /\ tls'[t] = None /\ flush'[t] = tls[t]
       /\ \A j \in Ids : j # n => owner'[j] = owner[j]
  BY <1>1, <1>2, <1>3 DEF TypeOK
<1>11. ASSUME NEW u \in Threads PROVE Placed(u)'
  <2>1. Placed(u) /\ u # None /\ (tls[u] # None => tls[u] \in Ids)
    BY <1>1, PoolAssumption DEF Inv, TypeOK
  <2>2. CASE u = t
    <3>1. Pos(u)' = "flush"
      BY <1>10, <2>2 DEF Pos
    <3> QED BY <1>2, <1>3, <1>4, <1>5, <1>10, <2>1, <2>2, <3>1 DEF Placed, LoopPcs
  <2>3. CASE u # t
    <3>1. Pos(u)' = Pos(u)
      BY <1>3, <1>8, <2>3 DEF Pos
    <3>2. cur[u] \in Ids => (owner'[cur[u]] = u <=> owner[cur[u]] = u)
      BY <1>5, <1>10, <2>1, <2>3
    <3>3. tls[u] # None => owner'[tls[u]] = u
      BY <1>5, <1>10, <2>1, <2>3 DEF Placed
    <3>4. Pos(u) \in LoopPcs => cur[u] \in Ids
      BY <2>1 DEF Placed
    <3> QED BY <1>3, <1>8, <2>1, <2>3, <3>1, <3>2, <3>3, <3>4 DEF Placed
  <2> QED BY <2>2, <2>3
<1>12. ASSUME NEW j \in Ids PROVE Owned(j)'
  <2>1. Owned(j) /\ (owner[j] # None => owner[j] \in Threads)
    BY <1>1 DEF Inv, TypeOK
  <2>2. owner[j] # None /\ j \notin workers => owner[j] # t
    BY <1>1, <2>1 DEF Owned
  <2>3. deque'[j] # <<>> => \E u \in Threads : tls'[u] = j \/ flush'[u] = j
    <3>1. ASSUME deque[j] # <<>> PROVE \E u \in Threads : tls'[u] = j \/ flush'[u] = j
      <4>1. PICK u \in Threads : tls[u] = j \/ flush[u] = j
        BY <2>1, <3>1 DEF Owned
      <4>2. CASE u # t
        BY <1>8, <4>1, <4>2
      <4>3. CASE u = t /\ tls[t] = j
        BY <1>10, <4>3
      <4>4. CASE u = t /\ flush[t] = j
        BY <1>4, <4>4, PoolAssumption
      <4> QED BY <4>1, <4>2, <4>3, <4>4
    <3> QED BY <1>3, <3>1
  <2>4. ASSUME owner'[j] # None, j \notin workers'
        PROVE  cur'[owner'[j]] = j /\ Pos(owner[j])' \in {"flush", "install"}
    <3>1. CASE j = n
      BY <1>10, <3>1 DEF Pos
    <3>2. CASE j # n
      <4>1. owner'[j] = owner[j] /\ j \notin workers
        BY <1>3, <1>10, <2>4, <3>2
      <4>2. PICK v \in Threads : v = owner[j] /\ v # t /\ cur[v] = j /\ Pos(v) \in {"flush", "install"}
        BY <2>1, <2>2, <2>4, <4>1 DEF Owned
      <4>3. cur'[v] = j /\ Pos(v)' = Pos(v)
        BY <1>3, <1>8, <4>2 DEF Pos
      <4> QED BY <4>1, <4>2, <4>3
    <3> QED BY <3>1, <3>2
  <2>5. j >= next_id' => owner'[j] = None /\ j \notin workers'
    <3>1. j >= next_id' => j >= next_id /\ j # n
      BY <1>2, <1>3 DEF Ids, n
    <3> QED BY <1>3, <1>10, <2>1, <3>1 DEF Owned
  <2>6. j \in workers' => owner'[j] # None
    BY <1>3, <1>5, <1>10, <2>1 DEF Owned
  <2> QED BY <2>3, <2>4, <2>5, <2>6 DEF Owned
<1> QED BY <1>6, <1>7, <1>9, <1>11, <1>12 DEF Inv

\* WorkerHandle::new, from the flush on
LEMMA InstallInv ==
  ASSUME Inv, NEW t \in Threads, Install(t) \/ Gone(t)
  PROVE  Inv'
<1> USE DEF Goto, Leave, queueVars, registryVars, callVars
<1>1. /\ TypeOK /\ Single /\ IdleSound /\ Placed(t)
      /\ pc[t] \in {"install", "gone"} /\ Pos(t) = pc[t] /\ cur[t] \in Ids
  BY DEF Inv, Install, Gone, Pos, Placed
<1>2. held[t] = None /\ flush[t] = None
  BY <1>1 DEF Placed
<1>3. UNCHANGED <<running, queueVars, idle, token, next_id, owner, tick, held, batch, callVars>>
  BY DEF Install, Gone
<1>4. \/ /\ pc[t] = "install" /\ workers' = workers \cup {cur[t]} /\ owner[cur[t]] = t
         /\ tls' = [tls EXCEPT ![t] = cur[t]]
      \/ pc[t] = "gone" /\ workers' = workers /\ tls' = tls
  BY <1>1 DEF Install, Gone, Placed
<1>5. \/ pc' = [pc EXCEPT ![t] = "out"] /\ cur' = [cur EXCEPT ![t] = None]
      \/ pc' = [pc EXCEPT ![t] = "loop"] /\ cur' = cur /\ pc[t] = "install"
  BY DEF Install, Gone
<1>6. TypeOK'
  <2>1. tls' \in [Threads -> Ids \cup {None}] /\ workers' \subseteq Ids
    BY <1>1, <1>4 DEF TypeOK
  <2>2. cur' \in [Threads -> Ids \cup {None}] /\ pc' \in [Threads -> Pcs]
    BY <1>1, <1>5 DEF TypeOK, Pcs
  <2>3. mode' \in [Threads -> {"loop", "drain", "one"}]
    BY <1>1 DEF TypeOK, Install, Gone
  <2> QED BY <1>1, <1>3, <2>1, <2>2, <2>3 DEF TypeOK
<1>7. Single'
  BY <1>1, <1>3 DEF Single
<1>8. \A u \in Threads : u # t => pc'[u] = pc[u] /\ cur'[u] = cur[u] /\ tls'[u] = tls[u]
  <2>1. tls \in [Threads -> Ids \cup {None}]
    BY <1>1 DEF TypeOK
  <2> QED BY <1>1, <1>4, <1>5, <2>1 DEF TypeOK
<1>9. IdleSound'
  <2>1. workers \subseteq workers'
    BY <1>4
  <2> QED BY <1>1, <1>3, <1>8, <2>1 DEF IdleSound
<1>10. ASSUME NEW u \in Threads PROVE Placed(u)'
  <2>1. Placed(u)
    BY DEF Inv
  <2>2. CASE u = t
    <3>1. pc'[u] \in {"out", "loop"} /\ Pos(u)' = pc'[u]
      BY <1>1, <1>5, <2>2 DEF TypeOK, Pos
    <3>2. pc'[u] = "loop" => cur'[u] = cur[u] /\ cur[u] \in workers' /\ owner'[cur[u]] = u
      BY <1>1, <1>3, <1>4, <1>5, <2>2 DEF TypeOK
    <3>3. tls'[u] # None => tls'[u] \in workers' /\ owner'[tls'[u]] = u
      BY <1>1, <1>3, <1>4, <2>1, <2>2 DEF TypeOK, Placed
    <3> QED BY <1>1, <1>2, <1>3, <2>2, <3>1, <3>2, <3>3 DEF Placed, LoopPcs
  <2>3. CASE u # t
    <3>1. Pos(u)' = Pos(u)
      BY <1>3, <1>8, <2>3 DEF Pos
    <3>2. \A j : j \in workers => j \in workers'
      BY <1>4
    <3>3. cur[u] \in Ids /\ owner[cur[u]] = u => (cur[u] \in workers' <=> cur[u] \in workers)
      BY <1>4, <2>3
    <3> QED BY <1>3, <1>8, <2>1, <2>3, <3>1, <3>2, <3>3 DEF Placed
  <2> QED BY <2>2, <2>3
<1>11. ASSUME NEW j \in Ids PROVE Owned(j)'
  <2>1. Owned(j) /\ (owner[j] # None => owner[j] \in Threads)
    BY <1>1 DEF Inv, TypeOK
  <2>2. owner[j] # None /\ j \notin workers' => owner[j] # t
    <3>1. ASSUME owner[j] = t, t # None, j \notin workers PROVE j \in workers'
      <4>1. cur[t] = j /\ pc[t] = "install"
        BY <1>1, <2>1, <3>1 DEF Owned
      <4> QED BY <1>4, <4>1
    <3> QED BY <1>4, <3>1, PoolAssumption
  <2>3. deque'[j] # <<>> => \E u \in Threads : tls'[u] = j \/ flush'[u] = j
    <3>1. ASSUME deque[j] # <<>> PROVE \E u \in Threads : tls'[u] = j \/ flush'[u] = j
      <4>1. PICK u \in Threads : tls[u] = j \/ flush[u] = j
        BY <2>1, <3>1 DEF Owned
      <4>2. CASE u # t
        BY <1>3, <1>8, <4>1, <4>2
      <4>3. CASE u = t /\ tls[t] = j
        BY <1>1, <1>4, <4>3, PoolAssumption DEF Placed
      <4>4. CASE u = t /\ flush[t] = j
        BY <1>2, <4>4, PoolAssumption
      <4> QED BY <4>1, <4>2, <4>3, <4>4
    <3> QED BY <1>3, <3>1
  <2>4. ASSUME owner[j] # None, j \notin workers'
        PROVE  cur'[owner[j]] = j /\ Pos(owner[j])' \in {"flush", "install"}
    <3>1. PICK v \in Threads : v = owner[j] /\ v # t /\ cur[v] = j /\ Pos(v) \in {"flush", "install"}
      BY <1>4, <2>1, <2>2, <2>4 DEF Owned
    <3>2. cur'[v] = j /\ Pos(v)' = Pos(v)
      BY <1>3, <1>8, <3>1 DEF Pos
    <3>3. owner' = owner
      BY <1>3
    <3> QED BY <3>1, <3>2, <3>3
  <2>5. j \in workers' => owner[j] # None
    BY <1>4, <2>1, PoolAssumption DEF Owned
  <2>6. j >= next_id => j \notin workers'
    BY <1>4, <2>1, PoolAssumption DEF Owned
  <2> QED BY <1>3, <2>1, <2>3, <2>4, <2>5, <2>6 DEF Owned
<1> QED BY <1>6, <1>7, <1>9, <1>10, <1>11 DEF Inv

LEMMA FlushInv ==
  ASSUME Inv, NEW t \in Threads, Flush(t)
  PROVE  Inv'
<1> USE DEF Goto, registryVars, loopVars
<1>1. /\ TypeOK /\ Single /\ IdleSound /\ Placed(t)
      /\ pc[t] = "flush" /\ Pos(t) = "flush" /\ cur[t] \in Ids
  BY DEF Inv, Flush, Pos, Placed
<1>2. held[t] = None
  BY <1>1 DEF Placed
<1>3. UNCHANGED <<running, tls, workers, idle, token, next_id, owner, tick, cur, held, mode, batch,
                  popped>>
  BY DEF Flush
<1>4. \/ /\ deque' = [deque EXCEPT ![flush[t]] = Tail(@)] /\ flush[t] # None /\ flush' = flush
         /\ deque[flush[t]] # <<>>
         /\ pc' = [pc EXCEPT ![t] = "notify"] /\ ret' = [ret EXCEPT ![t] = "flush"]
      \/ /\ flush' = [flush EXCEPT ![t] = None] /\ owner[cur[t]] = t
         /\ pc' = [pc EXCEPT ![t] = "install"] /\ ret' = ret /\ deque' = deque
         /\ flush[t] = None \/ deque[flush[t]] = <<>>
      \/ /\ flush' = [flush EXCEPT ![t] = None] /\ owner[cur[t]] # t
         /\ pc' = [pc EXCEPT ![t] = "notify"] /\ ret' = [ret EXCEPT ![t] = "gone"] /\ deque' = deque
         /\ flush[t] = None \/ deque[flush[t]] = <<>>
  BY DEF Flush, queueVars
<1>5. Apart(injector', deque') /\ All(injector', deque') = All(injector, deque)
  BY <1>1, FlushKeeps DEF Single
<1>6. TypeOK'
  <2>1. flush' \in [Threads -> Ids \cup {None}]
    <3>1. flush \in [Threads -> Ids \cup {None}]
      BY <1>1 DEF TypeOK
    <3> QED BY <1>4, <3>1
  <2>2. pc' \in [Threads -> Pcs] /\ ret' \in [Threads -> Pcs]
    <3>1. pc \in [Threads -> Pcs] /\ ret \in [Threads -> Pcs]
      BY <1>1 DEF TypeOK
    <3> QED BY <1>4, <3>1 DEF Pcs
  <2> QED BY <1>1, <1>3, <1>5, <2>1, <2>2 DEF TypeOK, Apart
<1>7. Single'
  BY <1>1, <1>3, <1>5 DEF Single
<1>8. \A u \in Threads : u # t => pc'[u] = pc[u] /\ ret'[u] = ret[u] /\ flush'[u] = flush[u]
  <2>1. pc \in [Threads -> Pcs] /\ ret \in [Threads -> Pcs] /\ flush \in [Threads -> Ids \cup {None}]
    BY <1>1 DEF TypeOK
  <2> QED BY <1>4, <2>1
<1>9. IdleSound'
  BY <1>1, <1>3, <1>8 DEF IdleSound
<1>10. \/ pc'[t] = "notify" /\ ret'[t] = "flush" /\ flush'[t] = flush[t]
       \/ pc'[t] = "install" /\ owner[cur[t]] = t /\ flush'[t] = None
       \/ pc'[t] = "notify" /\ ret'[t] = "gone" /\ owner[cur[t]] # t /\ flush'[t] = None
  <2>1. pc \in [Threads -> Pcs] /\ ret \in [Threads -> Pcs] /\ flush \in [Threads -> Ids \cup {None}]
    BY <1>1 DEF TypeOK
  <2> QED BY <1>4, <2>1
<1>11. ASSUME NEW u \in Threads PROVE Placed(u)'
  <2>1. Placed(u)
    BY DEF Inv
  <2>2. CASE u = t
    <3>1. Pos(u)' \in {"flush", "install", "gone"} /\ pc'[u] # "deliver"
          /\ (pc'[u] = "notify" => ret'[u] \in {"flush", "gone"})
          /\ (Pos(u)' # "flush" => flush'[u] = None)
          /\ (Pos(u)' = "install" => owner[cur[u]] = u)
      BY <1>10, <2>2 DEF Pos
    <3> QED BY <1>1, <1>2, <1>3, <2>1, <2>2, <3>1 DEF Placed, LoopPcs
  <2>3. CASE u # t
    <3>1. Pos(u)' = Pos(u)
      BY <1>8, <2>3 DEF Pos
    <3> QED BY <1>3, <1>8, <2>1, <2>3, <3>1 DEF Placed
  <2> QED BY <2>2, <2>3
<1>12. ASSUME NEW j \in Ids PROVE Owned(j)'
  <2>1. Owned(j) /\ (owner[j] # None => owner[j] \in Threads)
    BY <1>1 DEF Inv, TypeOK
  <2>2. ASSUME deque'[j] # <<>> PROVE \E u \in Threads : tls'[u] = j \/ flush'[u] = j
    <3>1. deque \in [Ids -> Seq(Tasks)] /\ flush[t] \in Ids \cup {None}
      BY <1>1 DEF TypeOK
    <3>2. deque[j] # <<>> /\ (j = flush[t] => flush'[t] = flush[t])
      BY <1>4, <1>10, <2>2, <3>1
    <3>3. PICK u \in Threads : tls[u] = j \/ flush[u] = j
      BY <2>1, <3>2 DEF Owned
    <3> QED BY <1>3, <1>8, <3>2, <3>3
  <2>3. ASSUME owner[j] # None, j \notin workers
        PROVE  cur'[owner[j]] = j /\ Pos(owner[j])' \in {"flush", "install"}
    <3>1. PICK v \in Threads : v = owner[j] /\ cur[v] = j /\ Pos(v) \in {"flush", "install"}
      BY <2>1, <2>3 DEF Owned
    <3>2. Pos(v)' \in {"flush", "install"}
      BY <1>8, <1>10, <3>1 DEF Pos
    <3>3. owner' = owner /\ cur' = cur
      BY <1>3
    <3> QED BY <3>1, <3>2, <3>3
  <2> QED BY <1>3, <2>1, <2>2, <2>3 DEF Owned
<1> QED BY <1>6, <1>7, <1>9, <1>11, <1>12 DEF Inv

\* A caller enters run_loop, run_until_idle, run_one or shutdown.
LEMMA CallInv ==
  ASSUME Inv, NEW t \in Threads,
         \/ \E i \in Ids : Call(t, i)
         \/ Shutdown(t) \/ UnparkAll(t)
  PROVE  Inv'
<1> USE DEF Goto, queueVars, registryVars, loopVars, callVars
<1>1. /\ TypeOK /\ Single /\ IdleSound /\ Placed(t)
      /\ pc[t] \in {"out", "unparkall"} /\ Pos(t) = pc[t]
  BY DEF Inv, Call, Shutdown, UnparkAll, Pos
<1>2. /\ UNCHANGED <<queueVars, tls, workers, idle, next_id, owner, tick, held, batch, callVars>>
      /\ \E p \in {"out", "unparkall", "loop", "find"} : pc' = [pc EXCEPT ![t] = p]
  BY DEF Call, Shutdown, UnparkAll
<1>3. \/ cur' = cur /\ pc'[t] \in {"out", "unparkall"}
      \/ /\ \E i \in Ids : owner[i] = t /\ cur' = [cur EXCEPT ![t] = i] /\ i \in workers
         /\ pc'[t] \in {"loop", "find"}
  <2>1. ASSUME NEW i \in Ids, Call(t, i) PROVE owner[i] = t /\ i \in workers
    <3>1. Owned(i) /\ t # None /\ owner[i] = t
      BY <2>1, PoolAssumption DEF Inv, Call
    <3> QED BY <1>1, <3>1 DEF Owned
  <2>2. ASSUME NEW i \in Ids, Call(t, i)
        PROVE  pc'[t] \in {"loop", "find"} /\ cur' = [cur EXCEPT ![t] = i]
    BY <1>1, <2>2 DEF Call, TypeOK
  <2>3. Shutdown(t) \/ UnparkAll(t) => cur' = cur /\ pc'[t] \in {"out", "unparkall"}
    BY <1>1 DEF Shutdown, UnparkAll, TypeOK
  <2> QED BY <2>1, <2>2, <2>3
<1>4. TypeOK'
  <2>1. cur' \in [Threads -> Ids \cup {None}]
    BY <1>1, <1>3 DEF TypeOK
  <2>2. pc' \in [Threads -> Pcs]
    BY <1>1, <1>2 DEF TypeOK, Pcs
  <2>3. mode' \in [Threads -> {"loop", "drain", "one"}]
    <3>1. mode' = mode \/ \E m \in {"loop", "drain", "one"} : mode' = [mode EXCEPT ![t] = m]
      BY DEF Call, Shutdown, UnparkAll
    <3> QED BY <1>1, <3>1 DEF TypeOK
  <2>4. token' \in [Ids -> BOOLEAN]
    <3>1. CASE UnparkAll(t)
      BY <3>1, Zenon DEF UnparkAll
    <3>2. CASE ~UnparkAll(t)
      BY <1>1, <3>2 DEF TypeOK, Call, Shutdown
    <3> QED BY <3>1, <3>2
  <2>5. running' \in BOOLEAN
    BY <1>1 DEF TypeOK, Call, Shutdown, UnparkAll
  <2> QED BY <1>1, <1>2, <2>1, <2>2, <2>3, <2>4, <2>5 DEF TypeOK
<1>5. Single'
  BY <1>1, <1>2 DEF Single
<1>6. \A u \in Threads : u # t => pc'[u] = pc[u] /\ cur'[u] = cur[u]
  BY <1>1, <1>2, <1>3 DEF TypeOK
<1>7. IdleSound'
  BY <1>1, <1>2, <1>6 DEF IdleSound
<1>8. ASSUME NEW u \in Threads PROVE Placed(u)'
  <2>1. Placed(u)
    BY DEF Inv
  <2>2. CASE u = t
    <3>1. Pos(u)' = pc'[u] /\ pc'[u] \in {"out", "unparkall", "loop", "find"}
      BY <1>3, <2>2 DEF Pos
    <3>2. pc'[u] \in {"loop", "find"} =>
            cur'[u] \in Ids /\ cur'[u] \in workers /\ owner[cur'[u]] = u
      BY <1>1, <1>3, <2>2 DEF TypeOK
    <3>3. held[u] = None /\ flush[u] = None
      BY <1>1, <2>2 DEF Placed
    <3> QED BY <1>2, <2>1, <3>1, <3>2, <3>3 DEF Placed, LoopPcs
  <2>3. CASE u # t
    <3>1. Pos(u)' = Pos(u)
      BY <1>2, <1>6, <2>3 DEF Pos
    <3> QED BY <1>2, <1>6, <2>1, <2>3, <3>1 DEF Placed
  <2> QED BY <2>2, <2>3
<1>9. ASSUME NEW j \in Ids PROVE Owned(j)'
  <2>1. Owned(j) /\ (owner[j] # None => owner[j] \in Threads)
    BY <1>1 DEF Inv, TypeOK
  <2>2. owner[j] # None /\ j \notin workers => owner[j] # t
    BY <1>1, <2>1 DEF Owned
  <2>3. \A u \in Threads : u # t => Pos(u)' = Pos(u)
    BY <1>2, <1>6 DEF Pos
  <2> QED BY <1>2, <1>6, <2>1, <2>2, <2>3 DEF Owned
<1> QED BY <1>4, <1>5, <1>7, <1>8, <1>9 DEF Inv

\* Registration, stealing, flushing and parking keep the invariant.
LEMMA InvStep == Inv /\ [Next]_vars => Inv'
<1> SUFFICES ASSUME Inv, [Next]_vars PROVE Inv'
  OBVIOUS
<1>1. TypeOK /\ Single
  BY DEF Inv
<1>2. \A x \in Tasks : Queued(x) <=> x \in All(injector, deque)
  BY DEF Queued, All
<1>3. ASSUME NEW t \in Threads, NEW x \in Tasks, Inject(t, x) PROVE Inv'
  <2>1. x \notin All(injector, deque) /\ \A u \in Threads : held[u] # x
    BY <1>2, <1>3 DEF Inject, Active
  <2>2. /\ Push(t, x) /\ pc[t] \in {"out", "run"} /\ held' = held
        /\ UNCHANGED <<running, tls, registryVars, tick, cur, mode, batch, flush, popped>>
    BY <1>3 DEF Inject, loopVars
  <2> QED BY <2>1, <2>2, PushInv
<1>4. ASSUME NEW t \in Threads, Requeue(t) PROVE Inv'
  <2> DEFINE x == held[t]
  <2>1. /\ Push(t, x) /\ pc[t] \in {"out", "run"} /\ held' = [held EXCEPT ![t] = None] /\ x # None
        /\ UNCHANGED <<running, tls, registryVars, tick, cur, mode, batch, flush, popped>>
    BY <1>4 DEF Requeue
  <2>2. x \in Tasks /\ x \notin All(injector, deque)
    BY <1>1, <2>1 DEF TypeOK, Single
  <2>3. \A u \in Threads : held'[u] # x
    BY <1>1, <2>1 DEF TypeOK, Single
  <2> QED BY <2>1, <2>2, <2>3, PushInv
<1>5. ASSUME NEW t \in Threads, LoopTop(t) PROVE Inv'
  <2>1. CASE running \/ t \in Callers
    BY <1>5, <2>1, Walking, WalkInv
  <2>2. CASE ~(running \/ t \in Callers)
    <3>1. pc[t] = "loop" /\ DropGuard(t, cur[t])
      BY <1>5, <2>2 DEF LoopTop
    <3>2. cur[t] \in Ids
      BY <3>1 DEF Inv, Placed, Pos, LoopPcs
    <3> QED BY <3>1, <3>2, DropInv
  <2> QED BY <2>1, <2>2
<1>6. ASSUME NEW t \in Threads, Deregister(t) PROVE Inv'
  BY <1>6, DropInv DEF Deregister
<1>7. ASSUME NEW t \in Threads, Working(t) PROVE Inv'
  <2>1. FindTick(t) \/ FindLocal(t) \/ FindInjector(t) \/ FindPeers(t) => Inv'
    BY Walking, WalkInv
  <2>6. Finish(t) \/ Spin(t) \/ Recheck(t) => Inv'
    BY Walking, WalkInv
  <2>2. Notify(t) \/ Deliver(t) \/ Flush(t) => Inv'
    BY NotifyInv, DeliverInv, FlushInv
  <2>3. Install(t) \/ Gone(t) => Inv'
    BY InstallInv
  <2>4. MarkIdle(t) \/ Unparked(t) \/ UnmarkIdle(t) => Inv'
    BY MarkInv
  <2>5. UnparkAll(t) => Inv'
    BY CallInv
  <2> QED BY <1>5, <1>7, <2>1, <2>2, <2>3, <2>4, <2>5, <2>6 DEF Working
<1>8. CASE UNCHANGED vars
  BY <1>8 DEF vars, queueVars, registryVars, loopVars, callVars, Inv, TypeOK, Single, IdleSound,
              Placed, Owned, Pos
<1> QED
  BY <1>3, <1>4, <1>6, <1>7, <1>8, RegisterInv, CallInv, MarkInv DEF Next

LEMMA Invariant == Spec => []Inv
<1>1. Init => Inv
  <2> SUFFICES ASSUME Init PROVE Inv
    OBVIOUS
  <2> USE PoolAssumption
  <2>1. token \in [Ids -> BOOLEAN] /\ running \in BOOLEAN
    BY Zenon DEF Init
  <2>2. TypeOK
    BY <2>1 DEF Init, TypeOK, Pcs, Ids
  <2>3. Range(<<>>) = {} /\ IsInjective(<<>>)
    BY EmptySeq, LenProperties DEF Range, IsInjective
  <2>4. All(injector, deque) = {} /\ Apart(injector, deque)
    BY <2>2, <2>3 DEF Init, All, Apart, TypeOK
  <2>5. Single /\ IdleSound
    BY <2>3, <2>4 DEF Init, Single, IdleSound
  <2>6. \A t \in Threads : Placed(t)
    BY DEF Init, Placed, Pos, LoopPcs
  <2>7. \A i \in Ids : Owned(i)
    BY DEF Init, Owned
  <2> QED BY <2>2, <2>5, <2>6, <2>7 DEF Inv
<1> QED BY <1>1, InvStep, PTL DEF Spec

\* The worker loop, registration and injection leave every variable in its type.
THEOREM Typed == Spec => []TypeOK
<1>1. Inv => TypeOK
  BY DEF Inv
<1> QED BY <1>1, Invariant, PTL

\* mark_idle, unmark_idle, deregister and unpark_one_idle keep idle_stack a
\* list of workers about to park.
THEOREM IdleStack == Spec => []IdleSound
<1>1. Inv => IdleSound
  BY DEF Inv
<1> QED BY <1>1, Invariant, PTL

\* Registration and deregistration never leave a task in a deque that neither
\* a peer can steal from nor its owner is flushing.
THEOREM NothingStranded == Spec => []Reachable
<1>1. Inv => Reachable
  <2> SUFFICES ASSUME Inv, NEW i \in Ids, deque[i] # <<>>
               PROVE  i \in workers \/ \E t \in Threads : flush[t] = i
    BY DEF Reachable
  <2>1. PICK t \in Threads : tls[t] = i \/ flush[t] = i
    BY DEF Inv, Owned
  <2>2. Placed(t) /\ i # None
    BY PoolAssumption DEF Inv
  <2> QED BY <2>1, <2>2 DEF Placed
<1> QED BY <1>1, Invariant, PTL

\* take_local_worker(id) leaves a deque alone that is another worker's.
THEOREM StaleGuard == Spec => StaleGuardHarmless
<1> DEFINE Kept == \A t \in Threads : tls[t] # None /\ tls'[t] # tls[t] =>
                     \/ owner[tls[t]] = t /\ owner'[tls[t]] = None
                     \/ next_id \in Ids /\ owner'[next_id] = t
<1>1. Inv /\ [Next]_vars => Kept
  <2> SUFFICES ASSUME Inv, [Next]_vars, NEW u \in Threads, tls[u] # None, tls'[u] # tls[u]
               PROVE  \/ owner[tls[u]] = u /\ owner'[tls[u]] = None
                      \/ next_id \in Ids /\ owner'[next_id] = u
    OBVIOUS
  <2> USE DEF Goto, queueVars, registryVars, loopVars, callVars
  <2>1. TypeOK
    BY DEF Inv
  <2>2. ASSUME NEW t \in Threads, Register(t) PROVE next_id \in Ids /\ owner'[next_id] = u
    <3>1. u = t
      BY <2>1, <2>2 DEF Register, TypeOK
    <3>2. IsFiniteSet(NotStarted \ {t})
      BY PoolAssumption, FS_Subset DEF NotStarted
    <3>3. Cardinality(NotStarted \ {t}) \in Nat
      BY <3>2, FS_CardinalityType
    <3>4. next_id + Cardinality(NotStarted \ {t}) \in Ids /\ next_id \in 1..MaxWorkers + 1
      BY <2>1, <2>2 DEF Register, TypeOK
    <3>5. next_id \in Ids
      BY <3>3, <3>4, PoolAssumption DEF Ids
    <3> QED BY <2>1, <2>2, <3>1, <3>5 DEF Register, TypeOK
  <2>3. ASSUME NEW t \in Threads, NEW i \in Ids, DropGuard(t, i)
        PROVE  owner[tls[u]] = u /\ owner'[tls[u]] = None
    <3>1. u = t /\ tls[t] = i
      BY <2>1, <2>3 DEF DropGuard, Reclaims, TypeOK
    <3> QED BY <2>1, <2>3, <3>1 DEF DropGuard, TypeOK
  <2>4. ASSUME NEW t \in Threads, Install(t) PROVE FALSE
    <3>1. Placed(t) /\ Pos(t) = "install"
      BY <2>4 DEF Inv, Install, Pos
    <3>2. u = t /\ tls[t] = None
      BY <2>1, <2>4, <3>1 DEF Install, Placed, TypeOK
    <3> QED BY <3>2
  <2>5. ASSUME NEW t \in Threads, LoopTop(t) PROVE owner[tls[u]] = u /\ owner'[tls[u]] = None
    <3>1. DropGuard(t, cur[t]) /\ pc[t] = "loop"
      BY <2>5 DEF LoopTop
    <3>2. cur[t] \in Ids
      BY <3>1 DEF Inv, Placed, Pos, LoopPcs
    <3> QED BY <2>3, <3>1, <3>2
  <2>6. ASSUME NEW t \in Threads, Working(t), ~Install(t), ~LoopTop(t) PROVE FALSE
    BY <2>6 DEF Working, Notify, Deliver, Flush, Gone, FindTick, FindLocal, FindInjector,
       FindPeers, Finish, Spin, MarkIdle, Recheck, Unparked, UnmarkIdle, UnparkAll, ParkReturns
  <2>7. ASSUME NEW t \in Threads, Timeout(t) \/ Shutdown(t) \/ Requeue(t)
                 \/ (\E x \in Tasks : Inject(t, x)) \/ \E i \in Ids : Call(t, i)
        PROVE  FALSE
    BY <2>7 DEF Timeout, ParkReturns, Shutdown, Requeue, Inject, Call
  <2>8. CASE UNCHANGED vars
    BY <2>8 DEF vars
  <2> QED BY <2>2, <2>3, <2>4, <2>5, <2>6, <2>7, <2>8 DEF Next, Deregister
<1>2. Kept => [Kept]_<<tls, owner, next_id>>
  OBVIOUS
<1> QED BY <1>1, <1>2, Invariant, PTL DEF Spec, StaleGuardHarmless, Kept

-----------------------------------------------------------------------------
(* No missed wake-up: who will look at the injector                        *)

\* A step of thread t.
Step(t) == \/ \E task \in Tasks : Inject(t, task)
           \/ Requeue(t)
           \/ Register(t) \/ Deregister(t) \/ Shutdown(t)
           \/ \E i \in Ids : Call(t, i)
           \/ Working(t) \/ Timeout(t)

\* Only run_loop spins and parks; mode is "loop" outside a call.
Moded(t) == Pos(t) \in {"find", "local", "steal", "peers", "run"} \/ mode[t] = "loop"

\* A worker between mark_idle and unmark_idle is in idle_stack, has been given
\* its token, or is popped by a thread that is about to give it one.
Listed(t) ==
    pc[t] \in {"recheck", "park"} =>
        \/ cur[t] \in Range(idle)
        \/ token[cur[t]]
        \/ \E u \in Threads : pc[u] = "deliver" /\ popped[u] = cur[t]

\* A worker popped from idle_stack is gone for good or still in run_loop.
Aimed(t) ==
    pc[t] = "deliver" =>
        /\ popped[t] < next_id
        /\ popped[t] \notin workers => owner[popped[t]] = None
        /\ running /\ popped[t] \in workers =>
              \E u \in Threads : cur[u] = popped[t] /\ mode[u] = "loop" /\ Pos(u) \in LoopPcs

Awake == /\ \A t \in Threads : Moded(t) /\ Listed(t) /\ Aimed(t)
         /\ NoMissedUnpark

\* A thread moves no other thread.
LEMMA OwnSteps ==
  ASSUME Inv, NEW t \in Threads, Step(t), NEW u \in Threads, u # t
  PROVE  /\ pc'[u] = pc[u] /\ cur'[u] = cur[u] /\ mode'[u] = mode[u]
         /\ popped'[u] = popped[u] /\ ret'[u] = ret[u] /\ Pos(u)' = Pos(u)
<1> USE DEF Goto, Leave, Resume, registryVars, loopVars, callVars
<1> DEFINE Same == /\ pc'[u] = pc[u] /\ cur'[u] = cur[u] /\ mode'[u] = mode[u]
                   /\ popped'[u] = popped[u] /\ ret'[u] = ret[u]
<1>1. TypeOK
  BY DEF Inv
<1>2. Walk(t) => Same
  BY <1>1 DEF Walk, TypeOK
<1>3. \/ FindTick(t) \/ FindLocal(t) \/ FindInjector(t) \/ FindPeers(t) \/ Finish(t)
      \/ Spin(t) \/ Recheck(t)
      => Same
  BY <1>2, Walking
<1>4. Notify(t) \/ Deliver(t) \/ Flush(t) \/ Install(t) \/ Gone(t) => Same
  BY <1>1 DEF TypeOK, Notify, Deliver, Flush, Install, Gone
<1>5. MarkIdle(t) \/ Unparked(t) \/ Timeout(t) \/ UnmarkIdle(t) \/ UnparkAll(t) => Same
  BY <1>1 DEF TypeOK, MarkIdle, Unparked, Timeout, ParkReturns, UnmarkIdle, UnparkAll
<1>6. ASSUME NEW i, DropGuard(t, i) PROVE Same
  BY <1>1, <1>6 DEF TypeOK, DropGuard
<1>7. LoopTop(t) \/ Deregister(t) => Same
  BY <1>1, <1>6 DEF TypeOK, LoopTop, Deregister
<1>8. Register(t) \/ Shutdown(t) \/ (\E i \in Ids : Call(t, i)) => Same
  BY <1>1 DEF TypeOK, Register, Shutdown, Call
<1>9. Requeue(t) \/ (\E x \in Tasks : Inject(t, x)) => Same
  BY <1>1 DEF TypeOK, Requeue, Inject, Push
<1>10. Same
  BY <1>3, <1>4, <1>5, <1>7, <1>8, <1>9 DEF Step, Working
<1> QED BY <1>10 DEF Pos

LEMMA ModedStep ==
  ASSUME Inv, NEW t \in Threads, Step(t), Moded(t)
  PROVE  Moded(t)'
<1> USE DEF Goto, Leave, Resume, registryVars, loopVars, callVars, Moded, Pos
<1>1. TypeOK /\ Placed(t)
  BY DEF Inv
<1>2. \A x, d : Run(t, x, d) => pc'[t] \in {"found", "run"} /\ (pc'[t] = "found" => pc[t] = "recheck")
  BY <1>1 DEF Run, TypeOK
<1>3. FindTick(t) \/ FindLocal(t) \/ FindInjector(t) => Moded(t)'
  BY <1>1, <1>2 DEF FindTick, FindLocal, FindInjector, StealInjector, LocalPop, TypeOK
<1>4. FindPeers(t) => Moded(t)'
  BY <1>1, <1>2 DEF FindPeers, StealPeer, TypeOK
<1>5. Finish(t) => Moded(t)'
  BY <1>1, <1>2 DEF Finish, LocalPop, TypeOK
<1>6. Spin(t) \/ Recheck(t) => Moded(t)'
  BY <1>1, <1>2 DEF Spin, Recheck, StealInjector, TypeOK
<1>7. Notify(t) \/ Deliver(t) => Moded(t)'
  <2>1. ASSUME Notify(t) \/ Deliver(t) PROVE Pos(t)' = Pos(t) /\ mode' = mode
    <3>1. Resume(t) => Pos(t)' = Pos(t)
      BY <2>1, ResumeStill DEF Notify, Deliver
    <3> QED BY <1>1, <2>1, <3>1 DEF Notify, Deliver, TypeOK
  <2> QED BY <2>1
<1>8. Flush(t) \/ Gone(t) => Moded(t)'
  BY <1>1 DEF Flush, Gone, TypeOK
<1>9. Install(t) => Moded(t)'
  BY <1>1 DEF Install, TypeOK
<1>10. MarkIdle(t) \/ Unparked(t) \/ Timeout(t) \/ UnmarkIdle(t) \/ UnparkAll(t) => Moded(t)'
  BY <1>1 DEF TypeOK, MarkIdle, Unparked, Timeout, ParkReturns, UnmarkIdle, UnparkAll
<1>11. LoopTop(t) \/ Deregister(t) => Moded(t)'
  BY <1>1 DEF TypeOK, LoopTop, Deregister, DropGuard
<1>12. Register(t) \/ Shutdown(t) \/ (\E i \in Ids : Call(t, i)) => Moded(t)'
  BY <1>1 DEF TypeOK, Register, Shutdown, Call
<1>13. Requeue(t) \/ (\E x \in Tasks : Inject(t, x)) => Moded(t)'
  BY <1>1 DEF TypeOK, Requeue, Inject, Push
<1> QED
  BY <1>3, <1>4, <1>5, <1>6, <1>7, <1>8, <1>9, <1>10, <1>11, <1>12, <1>13 DEF Step, Working

\* What a step does to the idle list and the token of another thread's worker.
LEMMA Neighbours ==
  ASSUME Inv, NEW t \in Threads, Step(t), NEW i \in workers, owner[i] # t
  PROVE  /\ i \in Range(idle) => i \in Range(idle') \/ (pc'[t] = "deliver" /\ popped'[t] = i)
         /\ token[i] => token'[i]
<1> USE DEF Goto, Leave, Resume, registryVars, loopVars, callVars
<1> DEFINE Same == UNCHANGED <<idle, token>>
<1> DEFINE Kept == /\ i \in Range(idle) => i \in Range(idle') \/ (pc'[t] = "deliver" /\ popped'[t] = i)
                   /\ token[i] => token'[i]
<1>1. TypeOK /\ IdleSound /\ Placed(t) /\ i \in Ids
  BY DEF Inv, TypeOK
<1>2. Same => Kept
  OBVIOUS
<1>3. Walk(t) => Same
  BY DEF Walk
<1>4. \/ FindTick(t) \/ FindLocal(t) \/ FindInjector(t) \/ FindPeers(t) \/ Finish(t)
      \/ Spin(t) \/ Recheck(t)
      => Same
  BY <1>3, Walking
<1>5. Flush(t) \/ Install(t) \/ Gone(t) => Same
  BY DEF Flush, Install, Gone
<1>6. Register(t) \/ Shutdown(t) \/ (\E j \in Ids : Call(t, j)) => Same
  BY DEF Register, Shutdown, Call
<1>7. Requeue(t) \/ (\E x \in Tasks : Inject(t, x)) => Same
  BY DEF Requeue, Inject
<1>8. Notify(t) => Kept
  <2>1. idle # <<>> => Range(Front(idle)) = Range(idle) \ {Last(idle)}
    BY <1>1, FrontFacts DEF TypeOK, IdleSound
  <2> QED BY <1>1, <2>1 DEF Notify, TypeOK
<1>9. Deliver(t) \/ UnparkAll(t) => Kept
  BY <1>1 DEF Deliver, UnparkAll, TypeOK
<1>10. MarkIdle(t) => Kept
  <2>1. MarkIdle(t) => cur[t] \in Ids
    BY <1>1 DEF MarkIdle, Placed, Pos, LoopPcs
  <2>2. MarkIdle(t) => Range(Append(idle, cur[t])) = Range(idle) \cup {cur[t]}
    BY <1>1, <2>1, AppendFacts DEF TypeOK
  <2> QED BY <2>2 DEF MarkIdle
<1>11. Unparked(t) \/ Timeout(t) => Kept
  <2>1. Unparked(t) \/ Timeout(t) => owner[cur[t]] = t
    BY <1>1 DEF Unparked, Timeout, Placed, Pos, LoopPcs
  <2> QED BY <1>1, <2>1 DEF Unparked, Timeout, ParkReturns, TypeOK
<1>12. UnmarkIdle(t) => Kept
  <2>1. UnmarkIdle(t) => owner[cur[t]] = t
    BY <1>1 DEF UnmarkIdle, Placed, Pos, LoopPcs
  <2>2. \A j \in Ids : Range(RemoveFirst(idle, j)) = Range(idle) \ {j}
    BY <1>1, RetainFacts DEF TypeOK, IdleSound
  <2>3. UnmarkIdle(t) => cur[t] \in Ids
    BY <1>1 DEF UnmarkIdle, Placed, Pos, LoopPcs
  <2> QED BY <2>1, <2>2, <2>3 DEF UnmarkIdle, Unlisted
<1>13. ASSUME NEW j \in Ids, DropGuard(t, j) PROVE Kept
  <2>1. Range(RemoveFirst(idle, j)) = Range(idle) \ {j}
    BY <1>1, RetainFacts DEF TypeOK, IdleSound
  <2>2. j # i
    BY <1>13 DEF DropGuard
  <2> QED BY <1>1, <1>13, <2>1, <2>2 DEF DropGuard, TypeOK
<1>14. LoopTop(t) \/ Deregister(t) => Kept
  <2>1. LoopTop(t) => cur[t] \in Ids
    BY <1>1 DEF LoopTop, Placed, Pos, LoopPcs
  <2> QED BY <1>2, <1>13, <2>1 DEF LoopTop, Deregister
<1> QED
  BY <1>2, <1>4, <1>5, <1>6, <1>7, <1>8, <1>9, <1>10, <1>11, <1>12, <1>14 DEF Step, Working

\* A worker of another thread's, as Neighbours sees it.
LEMMA Theirs ==
  ASSUME Inv, NEW t \in Threads, NEW u \in Threads, u # t, Pos(u) \in LoopPcs
  PROVE  cur[u] \in workers /\ owner[cur[u]] # t
BY DEF Inv, Placed

LEMMA ListedStep ==
  ASSUME Inv, Inv', NEW t \in Threads, Step(t), NEW u \in Threads, Listed(u)
  PROVE  Listed(u)'
<1> USE DEF Goto, Leave, registryVars, loopVars, callVars
<1>1. TypeOK /\ Placed(u) /\ Placed(t)
  BY DEF Inv
<1>2. CASE u # t
  <2>1. SUFFICES ASSUME pc[u] \in {"recheck", "park"}
                 PROVE  \/ cur[u] \in Range(idle')
                        \/ token'[cur[u]]
                        \/ \E v \in Threads : pc'[v] = "deliver" /\ popped'[v] = cur[u]
    BY <1>2, OwnSteps DEF Listed
  <2>2. Pos(u) \in LoopPcs
    BY <2>1 DEF Pos, LoopPcs
  <2>3. cur[u] \in workers /\ owner[cur[u]] # t
    BY <1>2, <2>2, Theirs
  <2>4. CASE cur[u] \in Range(idle) \/ token[cur[u]]
    BY <2>3, <2>4, Neighbours
  <2>5. ASSUME NEW v \in Threads, pc[v] = "deliver", popped[v] = cur[u]
        PROVE  token'[cur[u]] \/ (pc'[v] = "deliver" /\ popped'[v] = cur[u])
    <3>1. CASE v # t
      BY <2>5, <3>1, OwnSteps
    <3>2. CASE v = t
      <4>1. Deliver(t)
        BY <2>5, <3>2 DEF Step, Working, Inject, Requeue, Register, Deregister, Shutdown, Call,
           Timeout, Notify, Flush, Install, Gone, FindTick, FindLocal, FindInjector, FindPeers,
           Finish, LoopTop, Spin, MarkIdle, Recheck, Unparked, UnmarkIdle, UnparkAll
      <4> QED BY <1>1, <2>3, <2>5, <3>2, <4>1 DEF Deliver, TypeOK
    <3> QED BY <3>1, <3>2
  <2> QED BY <2>1, <2>4, <2>5 DEF Listed
<1>3. CASE u = t
  <2>1. SUFFICES ASSUME pc'[t] \in {"recheck", "park"}
                 PROVE  \/ cur'[t] \in Range(idle')
                        \/ token'[cur'[t]]
                        \/ \E v \in Threads : pc'[v] = "deliver" /\ popped'[v] = cur'[t]
    BY <1>3 DEF Listed
  <2>2. Walk(t) => pc[t] = "recheck" /\ UNCHANGED <<cur, idle, token>>
    BY <1>1, <2>1 DEF Walk, TypeOK
  <2>3. ASSUME pc[t] = "recheck", UNCHANGED <<cur, idle, token>>
        PROVE  \/ cur'[t] \in Range(idle')
               \/ token'[cur'[t]]
               \/ \E v \in Threads : pc'[v] = "deliver" /\ popped'[v] = cur'[t]
    <3>1. CASE cur[t] \in Range(idle) \/ token[cur[t]]
      BY <2>3, <3>1
    <3>2. ASSUME NEW v \in Threads, pc[v] = "deliver", popped[v] = cur[t]
          PROVE  pc'[v] = "deliver" /\ popped'[v] = cur'[t]
      BY <2>3, <3>2, OwnSteps
    <3> QED BY <1>3, <2>3, <3>1, <3>2 DEF Listed
  <2>4. \/ FindTick(t) \/ FindLocal(t) \/ FindInjector(t) \/ FindPeers(t) \/ Finish(t)
        \/ Spin(t) \/ Recheck(t)
        => Walk(t)
    BY Walking
  <2>5. MarkIdle(t) => cur'[t] \in Range(idle')
    <3>1. MarkIdle(t) => cur[t] \in Ids
      BY <1>1 DEF MarkIdle, Placed, Pos, LoopPcs
    <3>2. MarkIdle(t) => Range(Append(idle, cur[t])) = Range(idle) \cup {cur[t]}
      BY <1>1, <3>1, AppendFacts DEF TypeOK
    <3> QED BY <3>2 DEF MarkIdle
  <2>6. ~(Notify(t) \/ Deliver(t))
    <3>1. Resume(t) /\ pc[t] \in {"notify", "deliver"} => pc'[t] \in {"out", "run", "flush", "gone"}
      BY ResumeStill
    <3> QED BY <1>1, <2>1, <3>1 DEF Notify, Deliver, TypeOK
  <2>7. ~(Flush(t) \/ Install(t) \/ Gone(t) \/ Unparked(t) \/ Timeout(t) \/ UnmarkIdle(t))
    BY <1>1, <2>1 DEF Flush, Install, Gone, Unparked, Timeout, ParkReturns, UnmarkIdle, TypeOK
  <2>8. ~(LoopTop(t) \/ Deregister(t) \/ UnparkAll(t) \/ Register(t) \/ Shutdown(t))
    BY <1>1, <2>1 DEF LoopTop, Deregister, DropGuard, UnparkAll, Register, Shutdown, TypeOK
  <2>9. ~(Requeue(t) \/ (\E x \in Tasks : Inject(t, x)) \/ \E i \in Ids : Call(t, i))
    BY <1>1, <2>1 DEF Requeue, Inject, Push, Call, TypeOK
  <2> QED BY <2>2, <2>3, <2>4, <2>5, <2>6, <2>7, <2>8, <2>9 DEF Step, Working
<1> QED BY <1>2, <1>3

\* While the pool runs, a thread in run_loop stays there.
LEMMA Stays ==
  ASSUME Inv, NEW t \in Threads, Step(t), running', Pos(t) \in LoopPcs, mode[t] = "loop"
  PROVE  running /\ cur'[t] = cur[t] /\ mode'[t] = "loop" /\ Pos(t)' \in LoopPcs
<1> USE DEF Goto, Leave, registryVars, loopVars, callVars
<1> DEFINE Goal == running /\ cur'[t] = cur[t] /\ mode'[t] = "loop" /\ Pos(t)' \in LoopPcs
<1>1. TypeOK /\ Placed(t)
  BY DEF Inv
<1>2. Walk(t) => Goal
  BY <1>1 DEF Walk, Pos, LoopPcs, TypeOK
<1>3. \/ FindTick(t) \/ FindLocal(t) \/ FindInjector(t) \/ FindPeers(t) \/ Finish(t)
      \/ Spin(t) \/ Recheck(t)
      => Goal
  BY <1>2, Walking
<1>4. LoopTop(t) => Goal
  <2>1. LoopTop(t) /\ ~running => ~running'
    BY DEF LoopTop, DropGuard
  <2> QED BY <1>2, <2>1, Walking
<1>5. ASSUME Notify(t) \/ Deliver(t) PROVE Goal
  <2>1. Resume(t) => Pos(t)' = Pos(t)
    BY <1>5, ResumeStill DEF Notify, Deliver
  <2>2. Pos(t)' = Pos(t)
    BY <1>1, <1>5, <2>1 DEF Notify, Deliver, Pos, TypeOK
  <2> QED BY <1>5, <2>2 DEF Notify, Deliver
<1>6. ~(Flush(t) \/ Install(t) \/ Gone(t) \/ UnparkAll(t) \/ Deregister(t) \/ Register(t))
  BY <1>1 DEF Flush, Install, Gone, UnparkAll, Deregister, Register, Pos, LoopPcs
<1>7. ~(Shutdown(t) \/ \E i \in Ids : Call(t, i))
  BY <1>1 DEF Shutdown, Call, Pos, LoopPcs
<1>8. MarkIdle(t) \/ Unparked(t) \/ Timeout(t) \/ UnmarkIdle(t) => Goal
  BY <1>1 DEF MarkIdle, Unparked, Timeout, ParkReturns, UnmarkIdle, Pos, LoopPcs, TypeOK
<1>9. Requeue(t) \/ (\E x \in Tasks : Inject(t, x)) => Goal
  BY <1>1 DEF Requeue, Inject, Push, Pos, LoopPcs, TypeOK
<1> QED BY <1>3, <1>4, <1>5, <1>6, <1>7, <1>8, <1>9 DEF Step, Working

\* Ids are not used again, and a deregistered worker does not come back.
LEMMA IdsGrow ==
  ASSUME Inv, NEW t \in Threads, Step(t), NEW i \in Ids, i < next_id
  PROVE  /\ i < next_id'
         /\ i \notin workers /\ owner[i] = None => i \notin workers' /\ owner'[i] = None
         /\ i \in workers /\ i \notin workers' => owner'[i] = None
         /\ i \in workers' /\ running' => running
<1> USE DEF Goto, Leave, queueVars, registryVars, loopVars, callVars
<1> DEFINE Goal == /\ i < next_id'
                   /\ i \notin workers /\ owner[i] = None => i \notin workers' /\ owner'[i] = None
                   /\ i \in workers /\ i \notin workers' => owner'[i] = None
                   /\ running' => running
<1> DEFINE Same == UNCHANGED <<workers, owner, next_id>> /\ (running' => running)
<1>1. TypeOK /\ Placed(t) /\ next_id \in Nat /\ i \in Nat /\ t # None
  <2>1. TypeOK /\ Placed(t)
    BY DEF Inv
  <2>2. next_id \in Nat /\ i \in Nat
    BY <2>1, PoolAssumption DEF TypeOK, Ids
  <2>3. t # None
    BY PoolAssumption
  <2> QED BY <2>1, <2>2, <2>3
<1>2. Same => Goal
  OBVIOUS
<1>3. Walk(t) => Same
  BY DEF Walk
<1>4. \/ FindTick(t) \/ FindLocal(t) \/ FindInjector(t) \/ FindPeers(t) \/ Finish(t)
      \/ Spin(t) \/ Recheck(t)
      => Same
  BY <1>3, Walking
<1>5. Notify(t) \/ Deliver(t) \/ Flush(t) \/ Gone(t) \/ UnparkAll(t) => Same
  BY DEF Notify, Deliver, Flush, Gone, UnparkAll
<1>6. MarkIdle(t) \/ Unparked(t) \/ Timeout(t) \/ UnmarkIdle(t) \/ Shutdown(t) => Same
  BY DEF MarkIdle, Unparked, Timeout, ParkReturns, UnmarkIdle, Shutdown
<1>7. Requeue(t) \/ (\E x \in Tasks : Inject(t, x)) \/ (\E j \in Ids : Call(t, j)) => Same
  BY DEF Requeue, Inject, Call
<1>8. Install(t) => Goal
  BY <1>1 DEF Install, Placed, Pos
<1>9. Register(t) => Goal
  BY <1>1 DEF Register, TypeOK
<1>10. ASSUME NEW j \in Ids, DropGuard(t, j) PROVE Goal
  BY <1>1, <1>10 DEF DropGuard, TypeOK
<1>11. LoopTop(t) \/ Deregister(t) => Goal
  <2>1. LoopTop(t) => cur[t] \in Ids
    BY <1>1 DEF LoopTop, Placed, Pos, LoopPcs
  <2> QED BY <1>2, <1>10, <2>1 DEF LoopTop, Deregister
<1>12. Goal
  BY <1>2, <1>4, <1>5, <1>6, <1>7, <1>8, <1>9, <1>11 DEF Step, Working
<1> QED BY <1>12

LEMMA AimedStep ==
  ASSUME Inv, Inv', NEW t \in Threads, Step(t), NEW u \in Threads, Aimed(u),
         \A v \in Threads : Moded(v)
  PROVE  Aimed(u)'
<1> USE DEF Goto, Leave, registryVars, loopVars, callVars
<1>1. TypeOK /\ Placed(u) /\ Placed(t) /\ IdleSound
  BY DEF Inv
<1>2. CASE u # t
  <2>1. SUFFICES ASSUME pc[u] = "deliver" PROVE Aimed(u)'
    BY <1>2, OwnSteps DEF Aimed
  <2> DEFINE i == popped[u]
  <2>2. pc'[u] = "deliver" /\ popped'[u] = i /\ i \in Ids /\ i < next_id
    BY <1>1, <1>2, <2>1, OwnSteps DEF Aimed, Placed
  <2>3. i \notin workers => owner[i] = None
    BY <2>1 DEF Aimed
  <2>4. i < next_id' /\ (i \notin workers' => owner'[i] = None) /\ (i \in workers' => i \in workers)
        /\ (i \in workers' /\ running' => running)
    BY <2>2, <2>3, IdsGrow
  <2>5. ASSUME running', i \in workers'
        PROVE  \E v \in Threads : cur'[v] = i /\ mode'[v] = "loop" /\ Pos(v)' \in LoopPcs
    <3>1. PICK v \in Threads : cur[v] = i /\ mode[v] = "loop" /\ Pos(v) \in LoopPcs
      BY <2>1, <2>4, <2>5 DEF Aimed
    <3>2. CASE v # t
      BY <3>1, <3>2, OwnSteps
    <3>3. CASE v = t
      BY <2>5, <3>1, <3>3, Stays
    <3> QED BY <3>2, <3>3
  <2> QED BY <2>2, <2>4, <2>5 DEF Aimed
<1>3. CASE u = t
  <2>1. SUFFICES ASSUME pc'[t] = "deliver" PROVE Aimed(t)'
    BY <1>3 DEF Aimed
  <2>2. Notify(t) /\ idle # <<>>
    <3>1. Resume(t) /\ pc[t] \in {"notify", "deliver"} => pc'[t] \in {"out", "run", "flush", "gone"}
      BY ResumeStill
    <3>2. ~Deliver(t) /\ ~(Notify(t) /\ idle = <<>>)
      BY <1>1, <2>1, <3>1 DEF Notify, Deliver, TypeOK
    <3>3. ~Walk(t)
      BY <1>1, <2>1 DEF Walk, TypeOK
    <3>4. ~(FindTick(t) \/ FindLocal(t) \/ FindInjector(t) \/ FindPeers(t) \/ Finish(t)
            \/ Spin(t) \/ Recheck(t))
      BY <3>3, Walking
    <3>5. ~(Flush(t) \/ Install(t) \/ Gone(t) \/ Unparked(t) \/ Timeout(t) \/ UnmarkIdle(t))
      BY <1>1, <2>1 DEF Flush, Install, Gone, Unparked, Timeout, ParkReturns, UnmarkIdle, TypeOK
    <3>6. ~(LoopTop(t) \/ Deregister(t) \/ UnparkAll(t) \/ Register(t) \/ Shutdown(t) \/ MarkIdle(t))
      BY <1>1, <2>1 DEF LoopTop, Deregister, DropGuard, UnparkAll, Register, Shutdown, MarkIdle, TypeOK
    <3>7. ~(Requeue(t) \/ (\E x \in Tasks : Inject(t, x)) \/ \E i \in Ids : Call(t, i))
      BY <1>1, <2>1 DEF Requeue, Inject, Push, Call, TypeOK
    <3> QED BY <3>2, <3>4, <3>5, <3>6, <3>7 DEF Step, Working
  <2> DEFINE i == Last(idle)
  <2>3. popped'[t] = i /\ pc[t] = "notify" /\ UNCHANGED <<workers, next_id, owner>>
    BY <1>1, <2>2 DEF Notify, TypeOK
  <2>4. i \in Range(idle) /\ i \in workers /\ i \in Ids
    BY <1>1, <2>2, FrontFacts DEF IdleSound, TypeOK
  <2>5. i < next_id
    BY <1>1, <2>4 DEF Inv, Owned, TypeOK, Ids
  <2>6. PICK v \in Threads : cur[v] = i /\ pc[v] \in {"recheck", "found", "park", "unmark"}
    BY <1>1, <2>4 DEF IdleSound
  <2>7. mode[v] = "loop" /\ Pos(v) \in LoopPcs /\ v # t
    BY <2>3, <2>6 DEF Moded, Pos, LoopPcs
  <2>8. cur'[v] = i /\ mode'[v] = "loop" /\ Pos(v)' \in LoopPcs
    BY <2>6, <2>7, OwnSteps
  <2> HIDE DEF i
  <2> QED BY <2>3, <2>4, <2>5, <2>8 DEF Aimed
<1> QED BY <1>2, <1>3

\* A thread that sees to the injector: it unparks, or looks at it before it parks.
Alert(t) == pc[t] \in {"notify", "deliver"} \/ Attentive(t)

\* Another thread that saw to the injector still does.
LEMMA OthersAlert ==
  ASSUME Inv, NEW t \in Threads, Step(t), NEW u \in Threads, u # t
  PROVE  (Alert(u) => Alert(u)') /\ (Parked(u)' => Parked(u))
<1>1. pc'[u] = pc[u] /\ cur'[u] = cur[u] /\ mode'[u] = mode[u]
  BY OwnSteps
<1>2. pc[u] = "park" => (token[cur[u]] => token'[cur[u]])
  <2>1. pc[u] = "park" => cur[u] \in workers /\ owner[cur[u]] # t
    BY Theirs DEF Pos, LoopPcs
  <2> QED BY <2>1, Neighbours
<1>3. Parked(u)' => Parked(u)
  BY <1>1, <1>2 DEF Parked
<1> QED BY <1>1, <1>3 DEF Alert, Attentive

\* After its step a thread sees to a filled injector, or it did not before.
Minds(t) ==
    /\ Parked(t)' => Parked(t)
    /\ injector # <<>>
    /\ Alert(t)' \/ ~Alert(t)

LEMMA Minding ==
  ASSUME Inv, NEW t \in Threads, Step(t), Moded(t), Moded(t)', running', injector' # <<>>,
         ~Notify(t), ~Deliver(t)
  PROVE  Minds(t) \/ Alert(t)'
<1> USE DEF Goto, Leave, queueVars, registryVars, loopVars, callVars, Minds
<1>1. TypeOK /\ Placed(t)
  BY DEF Inv
<1>2. \A x, d : Run(t, x, d) => pc'[t] \in {"found", "run"}
  BY <1>1 DEF Run, TypeOK
<1>3. \A d : StealInjector(t, d) => injector # <<>> /\ pc'[t] \in {"found", "run"}
  BY <1>2 DEF StealInjector
<1>4. pc'[t] \notin {"notify", "deliver", "park"} => ~Parked(t)'
  BY DEF Parked
<1>5. ASSUME pc'[t] \in {"found", "run"}, mode'[t] = "loop" PROVE Alert(t)'
  BY <1>5 DEF Alert, Attentive, Parked
<1>6. ASSUME mode'[t] = "loop", pc'[t] \in LoopPcs \ {"park"} PROVE Alert(t)'
  BY <1>6 DEF Alert, Attentive, Parked, LoopPcs
<1>7. ASSUME mode'[t] = "drain", pc'[t] \in {"find", "local", "steal", "run"} PROVE Alert(t)'
  BY <1>7 DEF Alert, Attentive
<1>8. ASSUME mode[t] = "one" \/ (mode[t] = "drain" /\ pc[t] = "peers"),
             pc[t] \notin {"notify", "deliver"}
      PROVE  ~Alert(t)
  BY <1>8 DEF Alert, Attentive
<1>9. ASSUME pc[t] \in {"out", "flush", "install", "gone", "unparkall"} PROVE ~Alert(t)
  BY <1>9 DEF Alert, Attentive
<1>10. mode[t] \in {"loop", "drain", "one"}
  BY <1>1 DEF TypeOK
<1>11. CASE FindTick(t)
  <2>1. /\ pc'[t] \in {"local", "run"} /\ mode' = mode /\ pc[t] = "find" /\ injector # <<>>
    BY <1>1, <1>3, <1>11 DEF FindTick, StealInjector, Run, TypeOK
  <2> QED BY <1>4, <1>6, <1>7, <1>8, <1>10, <2>1 DEF LoopPcs
<1>12. CASE FindLocal(t)
  <2>1. /\ pc'[t] \in {"steal", "run"} /\ mode' = mode /\ pc[t] = "local" /\ injector # <<>>
    BY <1>1, <1>12 DEF FindLocal, LocalPop, Run, TypeOK
  <2> QED BY <1>4, <1>6, <1>7, <1>8, <1>10, <2>1 DEF LoopPcs
<1>13. CASE FindInjector(t)
  <2>1. /\ pc'[t] = "run" /\ mode' = mode /\ pc[t] = "steal" /\ injector # <<>>
    BY <1>1, <1>13 DEF FindInjector, StealInjector, Run, TypeOK
  <2> QED BY <1>4, <1>6, <1>7, <1>8, <1>10, <2>1 DEF LoopPcs
<1>14. CASE FindPeers(t)
  <2>1. /\ pc[t] = "peers" /\ injector' = injector
        /\ \/ pc'[t] \in {"spin", "run"} /\ mode' = mode
           \/ pc'[t] = "out" /\ mode[t] # "loop"
    BY <1>1, <1>14 DEF FindPeers, StealPeer, Run, TypeOK
  <2> QED BY <1>4, <1>6, <1>8, <1>10, <2>1 DEF LoopPcs
<1>15. CASE Finish(t)
  <2>1. /\ pc[t] = "run" /\ injector' = injector
        /\ \/ pc'[t] \in {"loop", "run"} /\ mode'[t] = "loop" /\ mode[t] = "loop"
           \/ pc'[t] = "find" /\ mode' = mode
           \/ pc'[t] = "out" /\ mode[t] = "one"
    BY <1>1, <1>15 DEF Finish, LocalPop, Run, TypeOK
  <2> QED BY <1>4, <1>6, <1>7, <1>8, <1>10, <2>1 DEF LoopPcs
<1>16. CASE Spin(t)
  <2>1. /\ pc'[t] \in {"mark", "run"} /\ mode' = mode /\ pc[t] = "spin"
    BY <1>1, <1>16 DEF Spin, StealInjector, Run, TypeOK
  <2> QED BY <1>6, <2>1 DEF Moded, Pos, LoopPcs
<1>17. CASE Recheck(t)
  <2>1. /\ pc'[t] = "found" /\ mode' = mode /\ pc[t] = "recheck"
    BY <1>1, <1>17 DEF Recheck, NothingInjected, StealInjector, Run, TypeOK
  <2> QED BY <1>6, <2>1 DEF Moded, Pos, LoopPcs
<1>18. CASE MarkIdle(t) \/ Unparked(t) \/ Timeout(t) \/ UnmarkIdle(t)
  <2>1. /\ pc'[t] \in {"recheck", "unmark", "run", "loop"} /\ mode' = mode
        /\ pc[t] \in {"mark", "park", "unmark", "found"}
    BY <1>1, <1>18 DEF MarkIdle, Unparked, Timeout, ParkReturns, UnmarkIdle, TypeOK
  <2> QED BY <1>6, <2>1 DEF Moded, Pos, LoopPcs
<1>19. CASE LoopTop(t)
  <2>1. running
    BY <1>19 DEF LoopTop, DropGuard
  <2>2. pc'[t] = "find" /\ mode' = mode /\ pc[t] = "loop"
    BY <1>1, <1>19, <2>1 DEF LoopTop, TypeOK
  <2> QED BY <1>6, <2>2 DEF Moded, Pos, LoopPcs
<1>20. CASE Flush(t)
  <2>1. \/ pc'[t] = "notify"
        \/ pc'[t] = "install" /\ pc[t] = "flush" /\ injector' = injector
    BY <1>1, <1>20 DEF Flush, TypeOK
  <2> QED BY <1>4, <1>9, <2>1 DEF Alert
<1>21. CASE Install(t) \/ Gone(t) \/ UnparkAll(t)
  <2>1. pc'[t] \in {"loop", "out"} /\ injector' = injector /\ pc[t] \in {"install", "gone", "unparkall"}
    BY <1>1, <1>21 DEF Install, Gone, UnparkAll, TypeOK
  <2> QED BY <1>4, <1>9, <2>1
<1>22. CASE Register(t) \/ Shutdown(t) \/ Deregister(t) \/ \E i \in Ids : Call(t, i)
  <2>1. pc'[t] \in {"flush", "unparkall", "loop", "find"} /\ injector' = injector /\ pc[t] = "out"
    BY <1>1, <1>22 DEF Register, Shutdown, Deregister, DropGuard, Call, TypeOK
  <2> QED BY <1>4, <1>9, <2>1
<1>23. CASE Requeue(t) \/ \E x \in Tasks : Inject(t, x)
  <2>1. \/ pc'[t] = "notify"
        \/ UNCHANGED <<injector, pc, mode, cur, token>>
    BY <1>1, <1>23 DEF Requeue, Inject, Push, TypeOK
  <2> QED BY <2>1 DEF Alert, Attentive, Parked
<1> QED
  BY <1>11, <1>12, <1>13, <1>14, <1>15, <1>16, <1>17, <1>18, <1>19, <1>20, <1>21, <1>22, <1>23
     DEF Step, Working

LEMMA NoMissedStep ==
  ASSUME Inv, Inv', NEW t \in Threads, Step(t), Awake, \A u \in Threads : Moded(u)'
  PROVE  NoMissedUnpark'
<1> USE DEF Goto, registryVars, loopVars
<1>1. TypeOK /\ Placed(t)
  BY DEF Inv
<1>2. SUFFICES ASSUME running', injector' # <<>>, NEW p \in Threads, Parked(p)'
               PROVE  \E u \in Threads : Alert(u)'
  BY DEF NoMissedUnpark, Alert
<1>3. CASE ~Notify(t) /\ ~Deliver(t)
  <2>1. SUFFICES ASSUME Minds(t) PROVE \E u \in Threads : Alert(u)'
    BY <1>2, <1>3, Minding DEF Awake
  <2>2. running
    <3>1. running' => running
      <4>1. ~running /\ LoopTop(t) => ~running'
        BY DEF LoopTop, DropGuard
      <4>2. Walk(t) => (running' => running)
        BY DEF Walk
      <4>3. \/ FindTick(t) \/ FindLocal(t) \/ FindInjector(t) \/ FindPeers(t) \/ Finish(t)
            \/ Spin(t) \/ Recheck(t)
            => (running' => running)
        BY <4>2, Walking
      <4>4. Flush(t) \/ Install(t) \/ Gone(t) \/ UnparkAll(t) \/ MarkIdle(t) => (running' => running)
        BY DEF Flush, Install, Gone, UnparkAll, MarkIdle
      <4>5. Unparked(t) \/ Timeout(t) \/ UnmarkIdle(t) \/ Shutdown(t) => (running' => running)
        BY DEF Unparked, Timeout, ParkReturns, UnmarkIdle, Shutdown
      <4>6. Register(t) \/ Deregister(t) \/ Requeue(t) => (running' => running)
        BY DEF Register, Deregister, DropGuard, Requeue
      <4>7. (\E x \in Tasks : Inject(t, x)) \/ (\E i \in Ids : Call(t, i)) => (running' => running)
        BY DEF Inject, Call
      <4> QED BY <1>3, <4>1, <4>3, <4>4, <4>5, <4>6, <4>7 DEF Step, Working
    <3> QED BY <1>2, <3>1
  <2>3. Parked(p)
    BY <1>2, <2>1, OthersAlert DEF Minds
  <2>4. PICK u \in Threads : Alert(u)
    BY <2>1, <2>2, <2>3 DEF Awake, NoMissedUnpark, Minds, Alert
  <2> QED BY <2>1, <2>4, OthersAlert DEF Minds
<1>4. CASE Notify(t)
  <2>1. CASE idle # <<>>
    BY <1>1, <1>4, <2>1 DEF Notify, Alert, TypeOK
  <2>2. CASE idle = <<>>
    <3>1. p # t
      <4>1. Resume(t) /\ pc[t] = "notify"
        BY <1>4, <2>2 DEF Notify
      <4>2. pc'[t] # "park"
        BY <4>1, ResumeStill
      <4> QED BY <1>2, <4>2 DEF Parked
    <3>2. Parked(p)
      BY <1>2, <3>1, OthersAlert
    <3>3. cur[p] \notin Range(idle)
      BY <2>2, EmptySeq, LenProperties DEF Range
    <3>4. PICK u \in Threads : pc[u] = "deliver"
      BY <3>2, <3>3 DEF Awake, Listed, Parked
    <3>5. u # t
      BY <1>4, <3>4 DEF Notify
    <3> QED BY <3>4, <3>5, OthersAlert DEF Alert
  <2> QED BY <2>1, <2>2
<1>5. CASE Deliver(t)
  <2>1. CASE popped[t] \notin workers
    BY <1>1, <1>5, <2>1 DEF Deliver, Alert, TypeOK
  <2>2. CASE popped[t] \in workers
    <3>1. /\ Resume(t) /\ pc[t] = "deliver" /\ token' = [token EXCEPT ![popped[t]] = TRUE]
          /\ UNCHANGED <<running, cur, mode>>
      BY <1>5, <2>2 DEF Deliver
    <3>2. PICK u \in Threads : cur[u] = popped[t] /\ mode[u] = "loop" /\ Pos(u) \in LoopPcs
      BY <1>2, <2>2, <3>1 DEF Awake, Aimed
    <3>3. token'[cur'[u]] = TRUE /\ mode'[u] = "loop"
      BY <1>1, <2>2, <3>1, <3>2 DEF TypeOK
    <3>4. Pos(u)' \in LoopPcs
      BY <3>1, <3>2, ResumeStill
    <3> QED BY <3>3, <3>4 DEF Alert, Attentive, Parked, Pos, LoopPcs
  <2> QED BY <2>1, <2>2
<1> QED BY <1>3, <1>4, <1>5

LEMMA AwakeStep == Inv /\ Inv' /\ Awake /\ [Next]_vars => Awake'
<1> SUFFICES ASSUME Inv, Inv', Awake, [Next]_vars PROVE Awake'
  OBVIOUS
<1>1. ASSUME NEW t \in Threads, Step(t) PROVE Awake'
  <2>1. \A u \in Threads : Moded(u)'
    <3>1. Moded(t)'
      BY <1>1, ModedStep DEF Awake
    <3>2. \A u \in Threads : u # t => Moded(u)'
      BY <1>1, OwnSteps DEF Awake, Moded
    <3> QED BY <3>1, <3>2
  <2>2. \A u \in Threads : Listed(u)'
    BY <1>1, ListedStep DEF Awake
  <2>3. \A u \in Threads : Aimed(u)'
    BY <1>1, AimedStep DEF Awake
  <2>4. NoMissedUnpark'
    BY <1>1, <2>1, NoMissedStep
  <2> QED BY <2>1, <2>2, <2>3, <2>4 DEF Awake
<1>2. CASE UNCHANGED vars
  BY <1>2 DEF vars, queueVars, registryVars, loopVars, callVars, Awake, Moded, Listed, Aimed, Pos,
              NoMissedUnpark, Attentive, Parked
<1>3. Next => \E t \in Threads : Step(t)
  BY DEF Next, Step
<1> QED BY <1>1, <1>2, <1>3

\* The order of run_loop (mark_idle, the second look at the injector, park) and
\* of inject (push, then pop an idle worker) never leaves a task in the injector
\* with every worker asleep.
THEOREM NoTaskOversleeps == Spec => []NoMissedUnpark
<1>1. Init => Awake
  BY DEF Init, Awake, Moded, Listed, Aimed, Pos, NoMissedUnpark
<1>2. Awake => NoMissedUnpark
  BY DEF Awake
<1> QED BY <1>1, <1>2, AwakeStep, Invariant, PTL DEF Spec

-----------------------------------------------------------------------------
(* The pool implements TaskPool                                            *)

Waiting == {task \in Tasks : Queued(task)}
Running == {task \in Tasks : Active(task)}

\* TaskPool's step, of the queues and threads of the pool.
Promised == [Promise!PoolNext]_<<Waiting, Running>>

\* The step of TaskPool that a step of a loop is: a task starts, ends, or both.
LEMMA WalkPromise ==
  ASSUME Inv, NEW t \in Threads, Walk(t), Served1(t)
  PROVE  Promised
<1> USE DEF Waiting, Running, Promise!PoolNext
<1>1. TypeOK /\ Single
  BY DEF Inv
<1>2. /\ Waiting = All(injector, deque) /\ Waiting' = All(injector', deque')
      /\ Running = {x \in Tasks : \E u \in Threads : held[u] = x}
      /\ Running' = {x \in Tasks : \E u \in Threads : held'[u] = x}
  BY DEF Queued, Active, All
<1> DEFINE x == held[t]
           y == held'[t]
<1>3. /\ held' = [held EXCEPT ![t] = y] /\ held'[t] = y
      /\ \A u \in Threads : u # t => held'[u] = held[u]
  BY <1>1 DEF Served1, TypeOK
<1>4. x # None => x \in Tasks /\ x \notin Waiting /\ \A u \in Threads : u # t => held[u] # x
  BY <1>1, <1>2 DEF Single, TypeOK
<1>5. None \notin Tasks
  BY PoolAssumption
<1>6. CASE UNCHANGED queueVars /\ y \in {None, x}
  <2>1. Waiting' = Waiting
    BY <1>2, <1>6 DEF queueVars
  <2>2. CASE y = x
    BY <1>1, <1>2, <1>3, <2>1, <2>2 DEF Promised, TypeOK
  <2>3. CASE y = None /\ x # None
    <3>1. Running' = Running \ {x} /\ x \in Running
      BY <1>2, <1>3, <1>4, <1>5, <2>3
    <3> QED BY <1>4, <2>1, <2>3, <3>1 DEF Promised, Promise!End
  <2> QED BY <1>6, <2>2, <2>3
<1>7. CASE Takes(t, y)
  <2>1. y \in Tasks /\ y \in Waiting /\ Waiting' = Waiting \ {y}
    BY <1>2, <1>7 DEF Takes, All
  <2>2. CASE x = None
    <3>1. Running' = Running \cup {y}
      BY <1>2, <1>3, <1>5, <2>1, <2>2
    <3> QED BY <2>1, <3>1 DEF Promised, Promise!Start
  <2>3. CASE x # None
    <3>1. Running' = (Running \ {x}) \cup {y} /\ x \in Running
      BY <1>2, <1>3, <1>4, <2>1, <2>3
    <3> QED BY <1>4, <2>1, <2>3, <3>1 DEF Promised, Promise!EndAndStart
  <2> QED BY <2>2, <2>3
<1> QED BY <1>6, <1>7 DEF Served1

\* inject submits a task, or queues again the one that ran.
LEMMA PushPromise ==
  ASSUME Inv, NEW t \in Threads, Requeue(t) \/ \E x \in Tasks : Inject(t, x)
  PROVE  Promised
<1> USE DEF Waiting, Running, Promise!PoolNext
<1>1. TypeOK /\ Single /\ Apart(injector, deque)
  BY DEF Inv, Single
<1>2. /\ Waiting = All(injector, deque) /\ Waiting' = All(injector', deque')
      /\ Running = {x \in Tasks : \E u \in Threads : held[u] = x}
      /\ Running' = {x \in Tasks : \E u \in Threads : held'[u] = x}
  BY DEF Queued, Active, All
<1>3. ASSUME NEW x \in Tasks, Inject(t, x) PROVE Promised
  <2>1. x \notin Waiting /\ x \notin Running /\ Push(t, x) /\ held' = held
    BY <1>3 DEF Inject, loopVars
  <2>2. Waiting' = Waiting \cup {x}
    BY <1>1, <1>2, <2>1, PushAdds
  <2>3. Running' = Running
    BY <1>2, <2>1
  <2> QED BY <2>1, <2>2, <2>3 DEF Promised, Promise!Submit
<1>4. ASSUME Requeue(t) PROVE Promised
  <2> DEFINE x == held[t]
  <2>1. x # None /\ Push(t, x) /\ held' = [held EXCEPT ![t] = None]
    BY <1>4 DEF Requeue
  <2>2. x \in Tasks /\ x \notin Waiting /\ \A u \in Threads : u # t => held[u] # x
    BY <1>1, <1>2, <2>1 DEF TypeOK, Single
  <2>3. Waiting' = Waiting \cup {x}
    BY <1>1, <1>2, <2>1, <2>2, PushAdds
  <2>4. Running' = Running \ {x} /\ x \in Running
    <3>1. held'[t] = None /\ \A u \in Threads : u # t => held'[u] = held[u]
      BY <1>1, <2>1 DEF TypeOK
    <3> QED BY <1>2, <2>2, <3>1, PoolAssumption
  <2> QED BY <2>2, <2>3, <2>4 DEF Promised, Promise!Again
<1> QED BY <1>3, <1>4

\* inject, stealing, flushing and the worker loop keep the promise of TaskPool:
\* no queued task is dropped, run twice or run by two threads.
THEOREM KeepsPromise == Spec => ImplementsPool
<1> USE DEF Goto, Leave, Resume, registryVars, loopVars, callVars
<1>1. Init => Promise!PoolInit
  <2> SUFFICES ASSUME Init PROVE Promise!PoolInit
    OBVIOUS
  <2>1. Range(<<>>) = {}
    BY EmptySeq, LenProperties DEF Range
  <2> QED BY <2>1, PoolAssumption DEF Init, Promise!PoolInit, Queued, Active
<1>2. Inv /\ [Next]_vars => Promised
  <2> SUFFICES ASSUME Inv, [Next]_vars PROVE Promised
    OBVIOUS
  <2>1. TypeOK /\ Apart(injector, deque)
    BY DEF Inv, Single
  <2>2. UNCHANGED <<queueVars, held>> => Promised
    BY DEF Promised, Waiting, Running, Queued, Active, queueVars
  <2>3. ASSUME NEW t \in Threads, Step(t) PROVE Promised
    <3>1. Requeue(t) \/ (\E x \in Tasks : Inject(t, x)) => Promised
      BY PushPromise
    <3>2. Flush(t) => Promised
      <4>1. ASSUME Flush(t) PROVE Waiting' = Waiting /\ held' = held
        <5>1. Waiting = All(injector, deque) /\ Waiting' = All(injector', deque')
          BY DEF Waiting, Queued, All
        <5>2. All(injector', deque') = All(injector, deque) /\ held' = held
          BY <2>1, <4>1, FlushKeeps DEF Flush
        <5> QED BY <5>1, <5>2
      <4> QED BY <4>1 DEF Promised, Running, Active
    <3>3. \/ FindTick(t) \/ FindLocal(t) \/ FindInjector(t) \/ FindPeers(t) \/ Finish(t)
          \/ Spin(t) \/ Recheck(t)
          => Promised
      BY Walking, WalkPromise
    <3>4. Notify(t) \/ Deliver(t) \/ Install(t) \/ Gone(t) => Promised
      BY <2>2 DEF Notify, Deliver, Install, Gone
    <3>5. MarkIdle(t) \/ Unparked(t) \/ Timeout(t) \/ UnmarkIdle(t) \/ UnparkAll(t) => Promised
      BY <2>2 DEF MarkIdle, Unparked, Timeout, ParkReturns, UnmarkIdle, UnparkAll
    <3>6. LoopTop(t) \/ Deregister(t) => Promised
      BY <2>2 DEF LoopTop, Deregister, DropGuard
    <3>7. Register(t) \/ Shutdown(t) \/ (\E i \in Ids : Call(t, i)) => Promised
      BY <2>2 DEF Register, Shutdown, Call
    <3> QED BY <2>3, <3>1, <3>2, <3>3, <3>4, <3>5, <3>6, <3>7 DEF Step, Working
  <2>4. CASE UNCHANGED vars
    BY <2>2, <2>4 DEF vars
  <2>5. Next => \E t \in Threads : Step(t)
    BY DEF Next, Step
  <2> QED BY <2>3, <2>4, <2>5
<1> QED
  BY <1>1, <1>2, Invariant, PTL
  DEF Spec, ImplementsPool, Promise!PoolSpec, Promised, Waiting, Running
=============================================================================
