---------------------------- MODULE ChunkingProofs ----------------------------
(***************************************************************************)
(* The chunks of a batch partition its items, whatever the batch and the   *)
(* pool, and both ways of computing them agree.                            *)
(***************************************************************************)
EXTENDS Chunking, TLAPS

\* What \div returns for naturals.
LEMMA DivFacts ==
  ASSUME NEW a \in Nat, NEW b \in Nat \ {0}
  PROVE  /\ a \div b \in Nat
         /\ (a \div b) * b <= a
         /\ a < (a \div b) * b + b
  OBVIOUS

\* div_ceil: the least number of pieces of size b that hold a items.
LEMMA DivCeilFacts ==
  ASSUME NEW a \in Nat \ {0}, NEW b \in Nat \ {0}
  PROVE  /\ DivCeil(a, b) \in Nat \ {0}
         /\ a <= DivCeil(a, b) * b
         /\ (DivCeil(a, b) - 1) * b < a
<1> DEFINE q == (a + b - 1) \div b
<1>1. a + b - 1 \in Nat
  OBVIOUS
<1>2. q \in Nat /\ q * b <= a + b - 1 /\ a + b - 1 < q * b + b
  BY <1>1, DivFacts
<1>3. q # 0
  <2> SUFFICES ASSUME q = 0 PROVE FALSE
    BY <1>2
  <2>1. q * b = 0
    BY <1>2
  <2> QED BY <1>2, <2>1
<1> HIDE DEF q
<1>4. (q - 1) * b = q * b - b
  BY <1>2
<1> QED BY <1>2, <1>3, <1>4 DEF DivCeil, q

\* More pieces hold at least as many items.
LEMMA Monotone ==
  ASSUME NEW m \in Nat, NEW n \in Nat, NEW s \in Nat, m <= n
  PROVE  m * s <= n * s
<1>1. n * s = m * s + (n - m) * s
  OBVIOUS
<1>2. (n - m) * s \in Nat
  OBVIOUS
<1>3. m * s \in Nat /\ n * s \in Nat
  OBVIOUS
<1> QED BY <1>1, <1>2, <1>3

LEMMA Sizes ==
  ASSUME NEW count \in Nat \ {0}, NEW w \in Nat
  PROVE  /\ NumChunks(count, w) \in Nat \ {0}
         /\ ChunkSize(count, w) \in Nat \ {0}
         /\ ActualChunks(count, w) \in Nat \ {0}
         /\ count <= NumChunks(count, w) * ChunkSize(count, w)
         /\ count <= ActualChunks(count, w) * ChunkSize(count, w)
         /\ (ActualChunks(count, w) - 1) * ChunkSize(count, w) < count
<1>1. NumChunks(count, w) \in Nat \ {0}
  BY DEF NumChunks, AtMost, AtLeast
<1>2. /\ ChunkSize(count, w) \in Nat \ {0}
      /\ count <= ChunkSize(count, w) * NumChunks(count, w)
  BY <1>1, DivCeilFacts DEF ChunkSize
<1>3. /\ ActualChunks(count, w) \in Nat \ {0}
      /\ count <= ActualChunks(count, w) * ChunkSize(count, w)
      /\ (ActualChunks(count, w) - 1) * ChunkSize(count, w) < count
  BY <1>2, DivCeilFacts DEF ActualChunks
<1> QED BY <1>1, <1>2, <1>3

\* Every chunk that is spawned has items, and they lie in the arrays
\* (capi/src/lib.rs:359-379 indexes raw pointers with them).
THEOREM ChunkBounds ==
  ASSUME NEW count \in Nat \ {0}, NEW w \in Nat, NEW c \in Chunks(count, w)
  PROVE  /\ First(c, ChunkSize(count, w)) < End(c, ChunkSize(count, w), count)
         /\ Items(c, ChunkSize(count, w), count) \subseteq 0..count - 1
<1> DEFINE s == ChunkSize(count, w)
           n == ActualChunks(count, w)
<1>1. s \in Nat \ {0} /\ n \in Nat \ {0} /\ (n - 1) * s < count
  BY Sizes
<1>2. c \in Nat /\ c <= n - 1
  BY <1>1 DEF Chunks
<1> HIDE DEF s, n
<1>3. c * s <= (n - 1) * s /\ c * s \in Nat
  BY <1>1, <1>2, Monotone
<1>4. c * s < count
  BY <1>1, <1>2, <1>3
<1>5. First(c, s) < End(c, s, count)
  BY <1>1, <1>3, <1>4 DEF First, End, AtMost
<1>6. Items(c, s, count) \subseteq 0..count - 1
  BY <1>1, <1>3, <1>4 DEF Items, First, End, AtMost
<1> QED BY <1>5, <1>6 DEF s

\* Every item is in exactly one chunk.
THEOREM Partition ==
  ASSUME NEW count \in Nat \ {0}, NEW w \in Nat, NEW k \in 0..count - 1
  PROVE  \E c \in Chunks(count, w) :
            /\ k \in Items(c, ChunkSize(count, w), count)
            /\ \A b \in Chunks(count, w) :
                  k \in Items(b, ChunkSize(count, w), count) => b = c
<1> DEFINE s == ChunkSize(count, w)
           n == ActualChunks(count, w)
           c == k \div s
<1>1. s \in Nat \ {0} /\ n \in Nat \ {0} /\ count <= n * s
  BY Sizes
<1>2. c \in Nat /\ c * s <= k /\ k < c * s + s
  BY <1>1, DivFacts
<1> HIDE DEF s, n, c
<1>3. c < n
  <2> SUFFICES ASSUME n <= c PROVE FALSE
    BY <1>1, <1>2
  <2>1. n * s <= c * s
    BY <1>1, <1>2, Monotone
  <2>2. n * s \in Nat /\ c * s \in Nat
    BY <1>1, <1>2
  <2> QED BY <1>1, <1>2, <2>1, <2>2
<1>4. c \in Chunks(count, w)
  BY <1>1, <1>2, <1>3 DEF Chunks, n
<1>5. k \in Items(c, s, count)
  BY <1>1, <1>2 DEF Items, First, End, AtMost
<1>6. ASSUME NEW b \in Chunks(count, w), k \in Items(b, s, count)
      PROVE  b = c
  <2>1. b \in Nat /\ b * s <= k /\ k < b * s + s
    BY <1>1, <1>6 DEF Chunks, Items, First, End, AtMost, n
  <2>2. ~(b < c)
    <3> SUFFICES ASSUME b + 1 <= c PROVE FALSE
      BY <1>2, <2>1
    <3>1. (b + 1) * s <= c * s
      BY <1>1, <1>2, <2>1, Monotone
    <3>2. (b + 1) * s = b * s + s
      BY <1>1, <2>1
    <3> QED BY <1>1, <1>2, <2>1, <3>1, <3>2
  <2>3. ~(c < b)
    <3> SUFFICES ASSUME c + 1 <= b PROVE FALSE
      BY <1>2, <2>1
    <3>1. (c + 1) * s <= b * s
      BY <1>1, <1>2, <2>1, Monotone
    <3>2. (c + 1) * s = c * s + s
      BY <1>1, <1>2
    <3> QED BY <1>1, <1>2, <2>1, <3>1, <3>2
  <2> QED BY <1>2, <2>1, <2>2, <2>3
<1> QED BY <1>4, <1>5, <1>6 DEF s

\* The Python functions spawn the same chunks as the C function, so their
\* counter, which starts at count, is brought to zero.
THEOREM LoopAgrees ==
  ASSUME NEW count \in Nat \ {0}, NEW w \in Nat
  PROVE  LoopChunks(count, w) = Chunks(count, w)
<1> DEFINE s == ChunkSize(count, w)
           n == ActualChunks(count, w)
           m == NumChunks(count, w)
<1>1. /\ s \in Nat \ {0} /\ n \in Nat \ {0} /\ m \in Nat \ {0}
      /\ count <= n * s /\ count <= m * s /\ (n - 1) * s < count
  BY Sizes
<1> HIDE DEF s, n, m
<1>2. n <= m
  <2> SUFFICES ASSUME m <= n - 1 PROVE FALSE
    BY <1>1
  <2>1. m * s <= (n - 1) * s
    BY <1>1, Monotone
  <2>2. m * s \in Nat /\ (n - 1) * s \in Int
    BY <1>1
  <2> QED BY <1>1, <2>1, <2>2
<1>3. ASSUME NEW c \in 0..n - 1
      PROVE  c \in LoopChunks(count, w)
  <2>1. c \in 0..m - 1
    BY <1>1, <1>2
  <2>2. ASSUME NEW b \in 0..c
        PROVE  First(b, s) < End(b, s, count)
    <3>1. b \in Chunks(count, w)
      BY <1>1 DEF Chunks, n
    <3> QED BY <3>1, ChunkBounds DEF s
  <2> QED BY <2>1, <2>2 DEF LoopChunks, s, m
<1>4. ASSUME NEW c \in LoopChunks(count, w)
      PROVE  c \in 0..n - 1
  <2>1. c \in Nat /\ First(c, s) < End(c, s, count)
    BY <1>1 DEF LoopChunks, s, m
  <2>2. c * s < count
    <3>1. c * s \in Nat
      BY <1>1, <2>1
    <3> QED BY <1>1, <2>1, <3>1 DEF First, End, AtMost
  <2>3. ~(n <= c)
    <3> SUFFICES ASSUME n <= c PROVE FALSE
      OBVIOUS
    <3>1. n * s <= c * s
      BY <1>1, <2>1, Monotone
    <3>2. n * s \in Nat /\ c * s \in Nat
      BY <1>1, <2>1
    <3> QED BY <1>1, <2>2, <3>1, <3>2
  <2> QED BY <1>1, <2>1, <2>3
<1> QED BY <1>3, <1>4 DEF Chunks, n
=============================================================================
