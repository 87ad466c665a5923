--------------------------- MODULE AwaitableProofs ---------------------------
(***************************************************************************)
(* Theorems about Awaitable for batches of any size, any number of workers *)
(* and any callers.                                                        *)
(***************************************************************************)
EXTENDS Awaitable, ChunkingProofs, FiniteSetTheorems, TLAPS

\* The chunks of this batch, as Chunking cuts it.
Cuts ==
    /\ total \in 0..MaxItems
    /\ Parts \subseteq AllChunks
    /\ \A c \in Parts : chunks[c] # {} /\ chunks[c] \subseteq 0..total - 1
    /\ \A b, c \in Parts : chunks[b] \cap chunks[c] # {} => b = c
    /\ \A i \in 0..total - 1 : \E c \in Parts : i \in chunks[c]

LEMMA CutFacts ==
  ASSUME NEW n \in 0..MaxItems, NEW w \in Nat, total = n, chunks = Cut(n, w)
  PROVE  Cuts
<1> USE AwaitableAssumption
<1> DEFINE s == ChunkSize(n, w)
<1>1. DOMAIN chunks = LoopChunks(n, w) /\ \A c \in Parts : chunks[c] = Items(c, s, n)
  BY DEF Cut, Parts
<1>2. CASE n = 0
  <2>1. NumChunks(0, w) = 1 /\ ChunkSize(0, w) = 0
    BY DEF NumChunks, ChunkSize, DivCeil, AtLeast, AtMost
  <2>2. LoopChunks(0, w) = {}
    <3>1. First(0, 0) = 0 /\ End(0, 0, 0) = 0
      BY DEF First, End, AtMost
    <3> QED BY <2>1, <3>1 DEF LoopChunks
  <2> QED BY <1>1, <1>2, <2>2 DEF Cuts, Parts
<1>3. CASE n # 0
  <2>1. n \in Nat \ {0}
    BY <1>3
  <2>2. Parts = Chunks(n, w)
    BY <1>1, <2>1, LoopAgrees DEF Parts
  <2>3. \A c \in Parts : chunks[c] # {} /\ chunks[c] \subseteq 0..n - 1
    <3> SUFFICES ASSUME NEW c \in Chunks(n, w)
                 PROVE  Items(c, s, n) # {} /\ Items(c, s, n) \subseteq 0..n - 1
      BY <1>1, <2>2
    <3>1. First(c, s) < End(c, s, n) /\ Items(c, s, n) \subseteq 0..n - 1
      BY <2>1, ChunkBounds
    <3>2. s \in Nat /\ c \in Int
      BY <2>1, Sizes DEF Chunks
    <3>3. First(c, s) \in Int /\ End(c, s, n) \in Int
      BY <2>1, <3>2 DEF First, End, AtMost
    <3>4. First(c, s) \in Items(c, s, n)
      BY <3>1, <3>3 DEF Items
    <3> QED BY <3>1, <3>4
  <2>4. \A k \in 0..n - 1 : \E c \in Parts :
           k \in chunks[c] /\ \A b \in Parts : k \in chunks[b] => b = c
    BY <1>1, <2>1, <2>2, Partition
  <2>5. \A b, c \in Parts : chunks[b] \cap chunks[c] # {} => b = c
    BY <2>3, <2>4
  <2>6. Parts \subseteq AllChunks
    <3>1. /\ s \in Nat \ {0} /\ ActualChunks(n, w) \in Nat \ {0}
          /\ (ActualChunks(n, w) - 1) * s < n
      BY <2>1, Sizes
    <3> DEFINE a == ActualChunks(n, w)
    <3> HIDE DEF a, s
    <3>2. (a - 1) * 1 <= (a - 1) * s
      <4>1. a - 1 \in Nat /\ s = 1 + (s - 1) /\ s - 1 \in Nat
        BY <3>1 DEF a
      <4>2. (a - 1) * s = (a - 1) * 1 + (a - 1) * (s - 1)
        BY <4>1
      <4>3. (a - 1) * (s - 1) \in Nat
        BY <4>1
      <4> QED BY <4>1, <4>2, <4>3
    <3>3. a - 1 < n
      BY <3>1, <3>2 DEF a
    <3> QED BY <2>2, <3>1, <3>3 DEF Chunks, AllChunks, a
  <2> QED BY <2>3, <2>4, <2>5, <2>6 DEF Cuts
<1> QED BY <1>2, <1>3

-----------------------------------------------------------------------------
(* What has been counted                                                   *)

\* Items of chunks that have not been counted yet.
Left == {i \in 0..total - 1 : \E c \in Parts : i \in chunks[c] /\ cpc[c] \in {"run", "count"}}

\* A chunk that has run has stored its items, unless some chunk panicked.
Stored == \A c \in Parts : cpc[c] # "run" /\ panic_error = None =>
              \A i \in chunks[c] : results[i] # None

\* A list of callbacks is drained, and an outcome handed out, once the batch is
\* done.
Settled ==
    /\ \A c \in AllChunks : cpc[c] = "drain" => Done
    /\ \A x \in AllChunks \cup Callers : toCall[x] # {} => Done
    /\ CallbackSeesResult

\* Where the callback of r is: not added, in one list, or called.
Once(r) ==
    /\ calls[r] \in {0, 1}
    /\ \A x, y \in AllChunks \cup Callers : r \in toCall[x] /\ r \in toCall[y] => x = y
    /\ r \in callbacks => calls[r] = 0 /\ \A x \in AllChunks \cup Callers : r \notin toCall[x]
    /\ calls[r] = 1 => \A x \in AllChunks \cup Callers : r \notin toCall[x]
    /\ rpc[r] = "idle" =>
          calls[r] = 0 /\ r \notin callbacks /\ \A x \in AllChunks \cup Callers : r \notin toCall[x]

Counted == \A c \in AllChunks : cpc[c] # "run" => c \in Parts

Inv == /\ TypeOK
       /\ Cuts
       /\ Counted
       /\ remaining = Cardinality(Left)
       /\ Stored
       /\ Settled
       /\ \A r \in Callers : Once(r)

LEMMA LeftFacts ==
  ASSUME Cuts
  PROVE  /\ IsFiniteSet(Left) /\ Cardinality(Left) \in Nat
         /\ Cardinality(Left) = 0 <=> Left = {}
         /\ \A c \in Parts : /\ IsFiniteSet(chunks[c]) /\ Cardinality(chunks[c]) \in Nat \ {0}
<1>1. total - 1 \in Int
  BY AwaitableAssumption DEF Cuts
<1>2. IsFiniteSet(0..total - 1)
  BY <1>1, FS_Interval
<1>3. IsFiniteSet(Left)
  BY <1>2, FS_Subset DEF Left
<1>4. ASSUME NEW c \in Parts PROVE IsFiniteSet(chunks[c]) /\ Cardinality(chunks[c]) \in Nat \ {0}
  <2>1. IsFiniteSet(chunks[c])
    BY <1>2, FS_Subset DEF Cuts
  <2> QED BY <2>1, FS_CardinalityType, FS_EmptySet DEF Cuts
<1> QED BY <1>3, <1>4, FS_CardinalityType, FS_EmptySet

\* What a chunk that has not been counted says of `remaining`.
LEMMA Uncounted ==
  ASSUME Inv, NEW c \in Parts, cpc[c] \in {"run", "count"}
  PROVE  /\ ~Done
         /\ chunks[c] \subseteq Left
         /\ Cardinality(Left \ chunks[c]) = remaining - Count(c)
         /\ remaining = Count(c) => Left \ chunks[c] = {}
<1>1. Cuts /\ remaining = Cardinality(Left)
  BY DEF Inv
<1>2. chunks[c] \subseteq Left /\ chunks[c] # {}
  BY <1>1 DEF Left, Cuts
<1>3. Left \cap chunks[c] = chunks[c] /\ Left # {}
  BY <1>2
<1>4. /\ IsFiniteSet(Left \ chunks[c])
      /\ Cardinality(Left \ chunks[c]) = Cardinality(Left) - Cardinality(chunks[c])
  BY <1>1, <1>3, LeftFacts, FS_Difference
<1>5. Cardinality(Left) \in Nat /\ Cardinality(chunks[c]) \in Nat /\ Cardinality(Left) # 0
  BY <1>1, <1>3, LeftFacts
<1>6. remaining = Count(c) => Cardinality(Left \ chunks[c]) = 0
  BY <1>1, <1>4, <1>5 DEF Count
<1> QED BY <1>1, <1>2, <1>4, <1>5, <1>6, FS_EmptySet DEF Count, Done

\* A done batch changes no more.
LEMMA DoneIsFinal ==
  ASSUME Inv, Done, NEW c \in Parts
  PROVE  cpc[c] \notin {"run", "count"}
BY Uncounted

-----------------------------------------------------------------------------
(* The chunks' steps                                                       *)

LEMMA RunInv ==
  ASSUME Inv, NEW c \in AllChunks, RunChunk(c)
  PROVE  Inv'
<1> USE AwaitableAssumption
<1>1. TypeOK /\ Cuts /\ Stored /\ Settled /\ remaining = Cardinality(Left)
  BY DEF Inv
<1>2. /\ c \in Parts /\ cpc[c] = "run" /\ cpc' = [cpc EXCEPT ![c] = "count"]
      /\ UNCHANGED <<total, chunks, sent, remaining, callbacks, lock, rpc, toCall, calls, fut, scheduled>>
  BY DEF RunChunk, Spawned, AfterRun
<1>3. ~Done
  BY <1>2, Uncounted
<1>4. \/ /\ panic_error' = panic_error
         /\ \E vals \in [chunks[c] -> {"value", "error"}] :
              results' = [i \in DOMAIN results |-> IF i \in chunks[c] THEN vals[i] ELSE results[i]]
      \/ panic_error' = c /\ results' = results
  BY DEF RunChunk, StoreResults, StorePanic
<1>5. TypeOK'
  <2>1. results' \in [0..total - 1 -> {"value", "error", None}]
    <3>1. CASE results' = results
      BY <1>1, <3>1 DEF TypeOK
    <3>2. ASSUME NEW vals \in [chunks[c] -> {"value", "error"}],
                 results' = [i \in DOMAIN results |-> IF i \in chunks[c] THEN vals[i] ELSE results[i]]
          PROVE  results' \in [0..total - 1 -> {"value", "error", None}]
      BY <1>1, <3>2 DEF TypeOK
    <3> QED BY <1>4, <3>1, <3>2
  <2>2. panic_error' \in Parts \cup {None}
    BY <1>1, <1>2, <1>4 DEF TypeOK
  <2>3. Parts' = Parts
    BY <1>2 DEF Parts
  <2> QED BY <1>1, <1>2, <2>1, <2>2, <2>3 DEF TypeOK
<1>6. Cuts'
  BY <1>1, <1>2 DEF Cuts, Parts
<1>7. Left' = Left
  BY <1>1, <1>2 DEF Left, Parts, TypeOK
<1>8. Stored'
  <2>1. SUFFICES ASSUME NEW b \in Parts, cpc'[b] # "run", panic_error' = None, NEW i \in chunks[b]
                 PROVE  results'[i] # None
    BY <1>2 DEF Stored, Parts
  <2>2. panic_error' # c
    BY <1>2, <2>1
  <2>3. PICK vals \in [chunks[c] -> {"value", "error"}] :
              results' = [j \in DOMAIN results |-> IF j \in chunks[c] THEN vals[j] ELSE results[j]]
    BY <1>4, <2>2
  <2>4. i \in DOMAIN results
    BY <1>1, <2>1 DEF TypeOK, Cuts
  <2>5. CASE i \in chunks[c]
    BY <2>3, <2>4, <2>5
  <2>6. CASE i \notin chunks[c]
    <3>1. b # c /\ cpc[b] # "run" /\ panic_error = None
      BY <1>1, <1>2, <1>4, <2>1, <2>2, <2>6 DEF TypeOK
    <3>2. results[i] # None
      BY <1>1, <2>1, <3>1 DEF Stored
    <3> QED BY <2>3, <2>4, <2>6, <3>2
  <2> QED BY <2>5, <2>6
<1>9. Settled'
  BY <1>1, <1>2, <1>3 DEF Settled, Done, CallbackSeesResult, TypeOK
<1>10. \A r \in Callers : Once(r)'
  BY <1>2 DEF Inv, Once
<1>11. Counted'
  BY <1>1, <1>2 DEF Inv, Counted, Parts, TypeOK
<1> QED BY <1>1, <1>2, <1>5, <1>6, <1>7, <1>8, <1>9, <1>10, <1>11 DEF Inv

LEMMA CountInv ==
  ASSUME Inv, NEW c \in AllChunks, CountDown(c)
  PROVE  Inv'
<1> USE AwaitableAssumption
<1>1. TypeOK /\ Cuts /\ Stored /\ Settled /\ remaining = Cardinality(Left)
  BY DEF Inv
<1>2. /\ cpc[c] = "count" /\ remaining' = remaining - Count(c)
      /\ \/ IsLast(c) /\ cpc' = [cpc EXCEPT ![c] = "drain"]
         \/ ~IsLast(c) /\ cpc' = [cpc EXCEPT ![c] = "calling"]
      /\ UNCHANGED <<total, chunks, sent, results, panic_error, callbacks, lock, rpc, toCall, calls,
                     fut, scheduled>>
  BY DEF CountDown
<1>3. c \in Parts
  BY <1>2 DEF Inv, Counted
<1>4. ~Done /\ Cardinality(Left \ chunks[c]) = remaining - Count(c)
  BY <1>2, <1>3, Uncounted
<1>5. cpc'[c] \in {"drain", "calling"} /\ \A b \in AllChunks : b # c => cpc'[b] = cpc[b]
  BY <1>1, <1>2 DEF TypeOK
<1>6. Left' = Left \ chunks[c]
  BY <1>1, <1>2, <1>3, <1>5 DEF Left, Parts, Cuts
<1>7. Cuts'
  BY <1>1, <1>2 DEF Cuts, Parts
<1>8. remaining' = Cardinality(Left') /\ remaining' \in 0..total
  <2>1. remaining' = Cardinality(Left')
    BY <1>2, <1>4, <1>6
  <2>2. Cardinality(Left') \in Nat /\ Count(c) \in Nat
    BY <1>1, <1>3, <1>4, <1>6, LeftFacts, FS_Difference, FS_CardinalityType DEF Count
  <2> QED BY <1>1, <1>2, <2>1, <2>2 DEF TypeOK, Cuts
<1>9. TypeOK'
  <2>1. Parts' = Parts
    BY <1>2 DEF Parts
  <2>2. cpc' \in [AllChunks -> {"run", "count", "drain", "calling"}]
    BY <1>1, <1>2 DEF TypeOK
  <2> QED BY <1>1, <1>2, <1>8, <2>1, <2>2 DEF TypeOK
<1>10. Stored'
  BY <1>1, <1>2, <1>5 DEF Stored, Parts, Cuts
<1>11. Settled'
  <2>1. IsLast(c) => Done'
    BY <1>1, <1>2, <1>8 DEF IsLast, Done, TypeOK
  <2> QED BY <1>1, <1>2, <1>4, <1>5, <2>1 DEF Settled, Done, CallbackSeesResult, TypeOK
<1>12. \A r \in Callers : Once(r)'
  BY <1>2 DEF Inv, Once
<1>13. Counted'
  BY <1>1, <1>2, <1>3 DEF Inv, Counted, Parts, TypeOK
<1> QED BY <1>7, <1>8, <1>9, <1>10, <1>11, <1>12, <1>13 DEF Inv

-----------------------------------------------------------------------------
(* The callbacks                                                           *)

\* Steps that touch no chunk but its place after the count.
Quiet == /\ UNCHANGED <<total, chunks, results, panic_error, remaining>>
         /\ cpc' \in [AllChunks -> {"run", "count", "drain", "calling"}]
         /\ \A c \in AllChunks : cpc'[c] = cpc[c] \/ (cpc[c] = "drain" /\ cpc'[c] = "calling")

LEMMA QuietInv ==
  ASSUME Inv, Quiet
  PROVE  /\ Cuts' /\ Counted' /\ remaining' = Cardinality(Left') /\ Stored'
         /\ Parts' = Parts /\ (Done' <=> Done) /\ Result' = Result
<1>1. TypeOK /\ Cuts /\ Counted /\ Stored /\ remaining = Cardinality(Left)
  BY DEF Inv
<1>2. Parts' = Parts /\ Cuts'
  BY <1>1 DEF Quiet, Parts, Cuts
<1>3. \A c \in AllChunks : /\ cpc'[c] \in {"run", "count"} <=> cpc[c] \in {"run", "count"}
                           /\ cpc'[c] = "run" <=> cpc[c] = "run"
  BY DEF Quiet
<1>4. Left' = Left
  BY <1>1, <1>2, <1>3 DEF Left, Cuts, Quiet
<1>5. Counted' /\ Stored'
  BY <1>1, <1>2, <1>3 DEF Counted, Stored, Cuts, Quiet
<1>6. (Done' <=> Done) /\ Result' = Result
  BY DEF Done, Result, Errors, Quiet
<1> QED BY <1>1, <1>2, <1>4, <1>5, <1>6 DEF Quiet

\* The part of TypeOK such a step cannot disturb.
LEMMA QuietTypes ==
  ASSUME TypeOK, Quiet
  PROVE  /\ total' \in Totals
         /\ UNION {chunks'[c] : c \in Parts'} = 0..total' - 1
         /\ results' \in [0..total' - 1 -> {"value", "error", None}]
         /\ panic_error' \in Parts' \cup {None}
         /\ remaining' \in 0..total'
         /\ cpc' \in [AllChunks -> {"run", "count", "drain", "calling"}]
<1>1. Parts' = Parts
  BY DEF Quiet, Parts
<1> QED BY <1>1 DEF TypeOK, Quiet

\* std::mem::take moves every callback of the list into one place to be called.
LEMMA TakeOnce ==
  ASSUME Inv, NEW x \in AllChunks \cup Callers, TakeCallbacks(x), UNCHANGED calls,
         \A r \in Callers : rpc'[r] = "idle" => rpc[r] = "idle"
  PROVE  /\ toCall' \in [AllChunks \cup Callers -> SUBSET Callers] /\ callbacks' \subseteq Callers
         /\ \A r \in Callers : Once(r)'
<1>1. TypeOK
  BY DEF Inv
<1>2. /\ toCall' = [toCall EXCEPT ![x] = callbacks] /\ callbacks' = {}
  BY DEF TakeCallbacks
<1>3. \A y \in AllChunks \cup Callers : toCall'[y] = IF y = x THEN callbacks ELSE toCall[y]
  BY <1>1, <1>2 DEF TypeOK
<1>4. ASSUME NEW r \in Callers PROVE Once(r)'
  BY <1>2, <1>3, <1>4 DEF Inv, Once
<1> QED BY <1>1, <1>2, <1>4 DEF TypeOK

LEMMA DrainInv ==
  ASSUME Inv, NEW c \in AllChunks, DrainCallbacks(c)
  PROVE  Inv'
<1>1. TypeOK /\ Settled
  BY DEF Inv
<1>2. /\ cpc[c] = "drain" /\ cpc' = [cpc EXCEPT ![c] = "calling"] /\ TakeCallbacks(c)
      /\ UNCHANGED <<total, chunks, sent, results, panic_error, remaining, lock, rpc, calls, fut, scheduled>>
  BY DEF DrainCallbacks
<1>3. Quiet
  BY <1>1, <1>2 DEF Quiet, TypeOK
<1>4. Done
  BY <1>1, <1>2 DEF Settled
<1>5. /\ toCall' \in [AllChunks \cup Callers -> SUBSET Callers] /\ callbacks' \subseteq Callers
      /\ \A r \in Callers : Once(r)'
  BY <1>2, TakeOnce
<1>6. TypeOK'
  <2>1. Parts' = Parts
    BY <1>3, QuietInv
  <2> QED BY <1>1, <1>2, <1>3, <1>5, <2>1, QuietTypes DEF TypeOK, TakeCallbacks
<1>7. Settled'
  BY <1>1, <1>2, <1>3, <1>4, QuietInv DEF Settled, CallbackSeesResult
<1> QED BY <1>3, <1>5, <1>6, <1>7, QuietInv DEF Inv

LEMMA RecheckInv ==
  ASSUME Inv, NEW r \in Callers, Recheck(r)
  PROVE  Inv'
<1>1. TypeOK /\ Settled
  BY DEF Inv
<1>2. /\ rpc[r] = "recheck" /\ lock' = None
      /\ UNCHANGED <<total, chunks, sent, results, panic_error, remaining, cpc, calls, fut, scheduled>>
  BY DEF Recheck, batchVars
<1>3. Quiet
  BY <1>1, <1>2 DEF Quiet, TypeOK
<1>4. CASE Done
  <2>1. TakeCallbacks(r) /\ rpc' = [rpc EXCEPT ![r] = "calling"]
    BY <1>4 DEF Recheck
  <2>2. \A s \in Callers : rpc'[s] = "idle" => rpc[s] = "idle"
    BY <1>1, <2>1 DEF TypeOK
  <2>3. /\ toCall' \in [AllChunks \cup Callers -> SUBSET Callers] /\ callbacks' \subseteq Callers
        /\ \A s \in Callers : Once(s)'
    BY <1>2, <2>1, <2>2, TakeOnce
  <2>4. TypeOK'
    <3>1. Parts' = Parts
      BY <1>3, QuietInv
    <3>2. sent' \in 0..Cardinality(Parts') /\ calls' \in [Callers -> Nat]
      BY <1>1, <1>2, <3>1 DEF TypeOK
    <3> QED BY <1>1, <1>2, <1>3, <2>1, <2>3, <3>1, <3>2, QuietTypes DEF TypeOK
  <2>5. Settled'
    BY <1>1, <1>2, <1>3, <1>4, QuietInv DEF Settled, CallbackSeesResult
  <2> QED BY <1>3, <2>3, <2>4, <2>5, QuietInv DEF Inv
<1>5. CASE ~Done
  <2>1. rpc' = [rpc EXCEPT ![r] = "added"] /\ UNCHANGED <<callbacks, toCall>>
    BY <1>5 DEF Recheck
  <2>2. \A s \in Callers : rpc'[s] = "idle" => rpc[s] = "idle"
    BY <1>1, <2>1 DEF TypeOK
  <2>3. \A s \in Callers : Once(s)'
    BY <1>2, <2>1, <2>2 DEF Inv, Once
  <2>4. TypeOK'
    <3>1. Parts' = Parts
      BY <1>3, QuietInv
    <3>2. sent' \in 0..Cardinality(Parts') /\ calls' \in [Callers -> Nat]
      BY <1>1, <1>2, <3>1 DEF TypeOK
    <3> QED BY <1>1, <1>2, <1>3, <2>1, <3>1, <3>2, QuietTypes DEF TypeOK
  <2>5. Settled'
    BY <1>1, <1>2, <1>3, <2>1, QuietInv DEF Settled, CallbackSeesResult
  <2> QED BY <1>3, <2>3, <2>4, <2>5, QuietInv DEF Inv
<1> QED BY <1>4, <1>5

LEMMA AddInv ==
  ASSUME Inv, NEW r \in Callers, AddCallback(r)
  PROVE  Inv'
<1> USE AwaitableAssumption
<1>1. TypeOK /\ Settled /\ Once(r)
  BY DEF Inv
<1>2. /\ rpc[r] = "idle" /\ lock = None /\ fut' = [fut EXCEPT ![r] = "pending"]
      /\ UNCHANGED <<total, chunks, sent, results, panic_error, remaining, cpc, calls, scheduled>>
  BY DEF AddCallback, batchVars
<1>3. Quiet
  BY <1>1, <1>2 DEF Quiet, TypeOK
<1>4. calls[r] = 0 /\ r \notin callbacks /\ \A x \in AllChunks \cup Callers : r \notin toCall[x]
  BY <1>1, <1>2 DEF Once
<1>5. CASE Done
  <2>1. /\ toCall' = [toCall EXCEPT ![r] = {r}] /\ rpc' = [rpc EXCEPT ![r] = "calling"]
        /\ UNCHANGED <<callbacks, lock>>
    BY <1>5 DEF AddCallback
  <2>2. \A x \in AllChunks \cup Callers : toCall'[x] = IF x = r THEN {r} ELSE toCall[x]
    BY <1>1, <2>1 DEF TypeOK
  <2>3. rpc'[r] = "calling" /\ \A s \in Callers : s # r => rpc'[s] = rpc[s]
    BY <1>1, <2>1 DEF TypeOK
  <2>4. ASSUME NEW s \in Callers PROVE Once(s)'
    <3>1. Once(s)
      BY DEF Inv
    <3> QED BY <1>2, <1>4, <2>1, <2>2, <2>3, <3>1 DEF Once
  <2>5. TypeOK'
    <3>1. Parts' = Parts
      BY <1>3, QuietInv
    <3>2. sent' \in 0..Cardinality(Parts') /\ calls' \in [Callers -> Nat]
      BY <1>1, <1>2, <3>1 DEF TypeOK
    <3> QED BY <1>1, <1>2, <1>3, <2>1, <3>1, <3>2, QuietTypes DEF TypeOK
  <2>6. Settled'
    BY <1>1, <1>2, <1>3, <1>5, QuietInv DEF Settled, CallbackSeesResult
  <2> QED BY <1>3, <2>4, <2>5, <2>6, QuietInv DEF Inv
<1>6. CASE ~Done
  <2>1. /\ callbacks' = callbacks \cup {r} /\ rpc' = [rpc EXCEPT ![r] = "recheck"]
        /\ lock' = r /\ UNCHANGED toCall
    BY <1>6 DEF AddCallback
  <2>2. rpc'[r] = "recheck" /\ \A s \in Callers : s # r => rpc'[s] = rpc[s]
    BY <1>1, <2>1 DEF TypeOK
  <2>3. ASSUME NEW s \in Callers PROVE Once(s)'
    <3>1. Once(s)
      BY DEF Inv
    <3> QED BY <1>2, <1>4, <2>1, <2>2, <3>1 DEF Once
  <2>4. TypeOK'
    <3>1. Parts' = Parts
      BY <1>3, QuietInv
    <3>2. sent' \in 0..Cardinality(Parts') /\ calls' \in [Callers -> Nat]
      BY <1>1, <1>2, <3>1 DEF TypeOK
    <3> QED BY <1>1, <1>2, <1>3, <2>1, <3>1, <3>2, QuietTypes DEF TypeOK
  <2>5. Settled'
    BY <1>1, <1>2, <1>3, <2>1, QuietInv DEF Settled, CallbackSeesResult
  <2> QED BY <1>3, <2>3, <2>4, <2>5, QuietInv DEF Inv
<1> QED BY <1>5, <1>6

LEMMA CallInv ==
  ASSUME Inv, NEW x \in AllChunks \cup Callers, NEW r \in Callers, CallCallback(x, r)
  PROVE  Inv'
<1>1. TypeOK /\ Settled /\ Once(r)
  BY DEF Inv
<1>2. /\ r \in toCall[x] /\ toCall' = [toCall EXCEPT ![x] = @ \ {r}]
      /\ calls' = [calls EXCEPT ![r] = @ + 1]
      /\ UNCHANGED <<total, chunks, sent, results, panic_error, remaining, cpc, callbacks, lock, rpc, fut>>
  BY DEF CallCallback, batchVars
<1>3. Quiet
  BY <1>1, <1>2 DEF Quiet, TypeOK
<1>4. Done
  BY <1>1, <1>2 DEF Settled
<1>5. scheduled' = scheduled \/ scheduled' = [scheduled EXCEPT ![r] = Result]
  BY <1>4 DEF CallCallback, HandOutcome, Outcome
<1>6. \A y \in AllChunks \cup Callers : toCall'[y] = IF y = x THEN toCall[x] \ {r} ELSE toCall[y]
  BY <1>1, <1>2 DEF TypeOK
<1>7. calls[r] = 0 /\ calls'[r] = 1 /\ \A s \in Callers : s # r => calls'[s] = calls[s]
  BY <1>1, <1>2 DEF TypeOK, Once
<1>8. ASSUME NEW s \in Callers PROVE Once(s)'
  <2>1. Once(s)
    BY DEF Inv
  <2>2. CASE s = r
    <3>1. r \notin callbacks /\ rpc[r] # "idle"
      BY <1>1, <1>2 DEF Once
    <3>2. \A y \in AllChunks \cup Callers : r \notin toCall'[y]
      BY <1>1, <1>2, <1>6 DEF Once
    <3> QED BY <1>2, <1>7, <2>2, <3>1, <3>2 DEF Once
  <2>3. CASE s # r
    <3>1. \A y \in AllChunks \cup Callers : s \in toCall'[y] <=> s \in toCall[y]
      BY <1>6, <2>3
    <3> QED BY <1>2, <1>7, <2>1, <2>3, <3>1 DEF Once
  <2> QED BY <2>2, <2>3
<1>9. TypeOK'
  <2>1. toCall' \in [AllChunks \cup Callers -> SUBSET Callers] /\ calls' \in [Callers -> Nat]
    BY <1>1, <1>2 DEF TypeOK
  <2>2. Result[1] \in {"panic", "error", "list"}
    BY DEF Result
  <2>3. /\ DOMAIN scheduled' = Callers
        /\ \A s \in Callers : scheduled'[s] = None \/ scheduled'[s][1] \in {"panic", "error", "list"}
    BY <1>1, <1>5, <2>2 DEF TypeOK
  <2>4. Parts' = Parts
    BY <1>3, QuietInv
  <2>5. /\ sent' \in 0..Cardinality(Parts') /\ callbacks' \subseteq Callers
        /\ lock' \in Callers \cup {None}
        /\ rpc' \in [Callers -> {"idle", "recheck", "calling", "added"}]
        /\ fut' \in [Callers -> {"none", "pending", "done", "cancelled"}]
    BY <1>1, <1>2, <2>4 DEF TypeOK
  <2> QED BY <1>1, <1>3, <2>1, <2>3, <2>5, QuietTypes DEF TypeOK
<1>10. Settled'
  <2>1. \A s \in Callers : scheduled'[s] = scheduled[s] \/ scheduled'[s] = Result
    BY <1>1, <1>5 DEF TypeOK
  <2> QED BY <1>1, <1>2, <1>3, <1>4, <2>1, QuietInv DEF Settled, CallbackSeesResult
<1> QED BY <1>3, <1>8, <1>9, <1>10, QuietInv DEF Inv

LEMMA LoopInv ==
  ASSUME Inv, SpawnChunk \/ \E r \in Callers : SetFuture(r) \/ CancelFuture(r)
  PROVE  Inv'
<1>1. TypeOK /\ Settled /\ Cuts
  BY DEF Inv
<1>2. /\ UNCHANGED <<total, chunks, results, panic_error, remaining, cpc, callbacks, lock, rpc, toCall, calls>>
  BY DEF SpawnChunk, SetFuture, CancelFuture, batchVars
<1>3. Quiet
  BY <1>1, <1>2 DEF Quiet, TypeOK
<1>4. \A r \in Callers : Once(r)'
  BY <1>2 DEF Inv, Once
<1>5. /\ DOMAIN scheduled' = Callers
      /\ \A s \in Callers : scheduled'[s] = scheduled[s] \/ scheduled'[s] = None
  BY <1>1 DEF SpawnChunk, SetFuture, CancelFuture, TypeOK
<1>6. sent' \in 0..Cardinality(Parts) /\ fut' \in [Callers -> {"none", "pending", "done", "cancelled"}]
  <2>1. IsFiniteSet(Parts)
    <3>1. IsFiniteSet(AllChunks)
      BY AwaitableAssumption, FS_Interval DEF AllChunks
    <3> QED BY <1>1, <3>1, FS_Subset DEF Cuts
  <2>2. Cardinality(Parts) \in Nat
    BY <2>1, FS_CardinalityType
  <2>3. sent \in 0..Cardinality(Parts) /\ fut \in [Callers -> {"none", "pending", "done", "cancelled"}]
    BY <1>1 DEF TypeOK
  <2>4. CASE SpawnChunk
    BY <2>2, <2>3, <2>4 DEF SpawnChunk
  <2>5. ASSUME NEW r \in Callers, SetFuture(r) \/ CancelFuture(r)
        PROVE  sent' = sent /\ fut' \in [Callers -> {"none", "pending", "done", "cancelled"}]
    BY <2>3, <2>5 DEF SetFuture, CancelFuture, batchVars
  <2> QED BY <2>3, <2>4, <2>5
<1>7. TypeOK'
  <2>1. Parts' = Parts
    BY <1>3, QuietInv
  <2> QED BY <1>1, <1>2, <1>3, <1>5, <1>6, <2>1, QuietTypes DEF TypeOK
<1>8. Settled'
  BY <1>1, <1>2, <1>3, <1>5, QuietInv DEF Settled, CallbackSeesResult
<1> QED BY <1>3, <1>4, <1>7, <1>8, QuietInv DEF Inv

-----------------------------------------------------------------------------
LEMMA Invariant == Spec => []Inv
<1> USE AwaitableAssumption
<1>1. Init => Inv
  <2> SUFFICES ASSUME Init PROVE Inv
    OBVIOUS
  <2>1. PICK w \in PoolSizes : chunks = Cut(total, w)
    BY DEF Init
  <2>2. Cuts
    BY <2>1, CutFacts DEF Init
  <2>3. \A c \in AllChunks : cpc[c] = "run"
    BY DEF Init
  <2>4. Left = 0..total - 1
    BY <2>2, <2>3 DEF Left, Cuts
  <2>5. remaining = Cardinality(Left)
    BY <2>2, <2>4, FS_Interval DEF Init, Cuts
  <2>6. Counted /\ Stored
    BY <2>2, <2>3 DEF Counted, Stored, Cuts
  <2>7. IsFiniteSet(Parts) /\ Cardinality(Parts) \in Nat
    <3>1. IsFiniteSet(AllChunks)
      BY FS_Interval DEF AllChunks
    <3> QED BY <2>2, <3>1, FS_Subset, FS_CardinalityType DEF Cuts
  <2>8. UNION {chunks[c] : c \in Parts} = 0..total - 1
    BY <2>2 DEF Cuts
  <2>9. TypeOK
    BY <2>2, <2>7, <2>8 DEF Init, TypeOK, Cuts
  <2>10. Settled /\ \A r \in Callers : Once(r)
    BY <2>3 DEF Init, Settled, Once, CallbackSeesResult
  <2> QED BY <2>2, <2>5, <2>6, <2>9, <2>10 DEF Inv
<1>2. Inv /\ [Next]_vars => Inv'
  <2> SUFFICES ASSUME Inv, [Next]_vars PROVE Inv'
    OBVIOUS
  <2>1. ASSUME NEW c \in AllChunks, ChunkStep(c) PROVE Inv'
    BY <2>1, RunInv, CountInv, DrainInv, CallInv DEF ChunkStep
  <2>2. ASSUME NEW r \in Callers, AddCallback(r) \/ CallerStep(r) PROVE Inv'
    BY <2>2, AddInv, RecheckInv, CallInv DEF CallerStep
  <2>3. CASE SpawnChunk \/ \E r \in Callers : SetFuture(r) \/ CancelFuture(r)
    BY <2>3, LoopInv
  <2>4. CASE UNCHANGED vars
    <3>1. TypeOK /\ Settled
      BY DEF Inv
    <3>2. /\ UNCHANGED <<total, chunks, sent, results, panic_error, remaining, cpc>>
          /\ UNCHANGED <<callbacks, lock, rpc, toCall, calls, fut, scheduled>>
      BY <2>4 DEF vars, batchVars
    <3>3. Quiet
      BY <3>1, <3>2 DEF Quiet, TypeOK
    <3>4. \A r \in Callers : Once(r)'
      BY <3>2 DEF Inv, Once
    <3>5. TypeOK'
      BY <3>1, <3>2, <3>3, QuietInv, QuietTypes DEF TypeOK
    <3>6. Settled'
      BY <3>1, <3>2, <3>3, QuietInv DEF Settled, CallbackSeesResult
    <3> QED BY <3>3, <3>4, <3>5, <3>6, QuietInv DEF Inv
  <2> QED BY <2>1, <2>2, <2>3, <2>4 DEF Next
<1> QED BY <1>1, <1>2, PTL DEF Spec

\* Spawning, running and counting chunks and adding callbacks leave every
\* variable in its type.
THEOREM BatchTyped == Spec => []TypeOK
<1>1. Inv => TypeOK
  BY DEF Inv
<1> QED BY <1>1, Invariant, PTL

\* However add_completion_callback and the last chunk interleave, a callback is
\* called at most once.
THEOREM CalledAtMostOnce == Spec => []CallbackOnce
<1>1. Inv => CallbackOnce
  <2> SUFFICES ASSUME Inv, NEW r \in Callers
               PROVE  calls[r] + Cardinality({x \in DOMAIN toCall : r \in toCall[x]})
                        + (IF r \in callbacks THEN 1 ELSE 0) <= 1
    BY DEF CallbackOnce
  <2> DEFINE S == {x \in DOMAIN toCall : r \in toCall[x]}
  <2>1. Once(r) /\ DOMAIN toCall = AllChunks \cup Callers
    BY DEF Inv, TypeOK
  <2>2. S = {} \/ \E x : S = {x}
    BY <2>1 DEF Once
  <2>3. Cardinality(S) \in {0, 1} /\ (S = {} => Cardinality(S) = 0)
    BY <2>2, FS_EmptySet, FS_Singleton
  <2>4. r \in callbacks \/ calls[r] = 1 => S = {}
    BY <2>1 DEF Once
  <2> HIDE DEF S
  <2>5. calls[r] \in {0, 1} /\ (r \in callbacks => calls[r] = 0)
    BY <2>1 DEF Once
  <2>6. calls[r] + Cardinality(S) + (IF r \in callbacks THEN 1 ELSE 0) <= 1
    BY <2>3, <2>4, <2>5
  <2> QED BY <2>6 DEF S
<1> QED BY <1>1, Invariant, PTL

\* fetch_sub counts every item once and result() finds none missing, for every
\* way to cut a batch and every order of the chunks.
THEOREM CountIsExact == Spec => []Accounted
<1>1. Inv => Accounted
  <2> SUFFICES ASSUME Inv PROVE Accounted
    OBVIOUS
  <2>1. remaining = Cardinality(Left) /\ Cuts /\ Stored
    BY DEF Inv
  <2>2. ASSUME Done, panic_error = None, NEW i \in 0..total - 1 PROVE results[i] # None
    <3>1. PICK c \in Parts : i \in chunks[c]
      BY <2>1 DEF Cuts
    <3>2. cpc[c] # "run"
      BY <2>2, DoneIsFinal
    <3> QED BY <2>1, <2>2, <3>1, <3>2 DEF Stored
  <2> QED BY <2>1, <2>2 DEF Accounted, Left
<1> QED BY <1>1, Invariant, PTL

\* A callback finds the final result, and the event loop delivers that one.
THEOREM FinalResult == Spec => []CallbackSeesResult
<1>1. Inv => CallbackSeesResult
  BY DEF Inv, Settled
<1> QED BY <1>1, Invariant, PTL

-----------------------------------------------------------------------------
(* No awaiter is forgotten                                                 *)

\* Only a chunk or a caller that has taken the list has callbacks to call, so
\* taking it overwrites nothing.
Spare ==
    /\ \A c \in AllChunks : cpc[c] # "calling" => toCall[c] = {}
    /\ \A r \in Callers : rpc[r] # "calling" => toCall[r] = {}

\* A chunk that does not count to zero takes nothing; the one that does drains
\* the list.
LEMMA KeptByChunks ==
  ASSUME Inv, Spare, AwaiterKept, NEW c \in AllChunks,
         RunChunk(c) \/ CountDown(c) \/ DrainCallbacks(c)
  PROVE  Spare' /\ AwaiterKept'
<1> USE AwaitableAssumption
<1>1. TypeOK /\ Cuts /\ Counted
  BY DEF Inv
<1>2. CASE RunChunk(c)
  <2>1. /\ c \in Parts /\ cpc[c] = "run" /\ cpc' = [cpc EXCEPT ![c] = "count"]
        /\ UNCHANGED <<remaining, callbacks, lock, rpc, toCall, fut, scheduled>>
    BY <1>2 DEF RunChunk, Spawned, AfterRun
  <2>2. ~Done /\ ~Done'
    BY <2>1, Uncounted DEF Done
  <2>3. Spare'
    BY <1>1, <2>1 DEF Spare, TypeOK
  <2> QED BY <2>1, <2>2, <2>3 DEF AwaiterKept
<1>3. CASE CountDown(c)
  <2>1. /\ cpc[c] = "count" /\ remaining' = remaining - Count(c)
        /\ cpc' = [cpc EXCEPT ![c] = IF IsLast(c) THEN "drain" ELSE "calling"]
        /\ UNCHANGED <<callbacks, lock, rpc, toCall, fut, scheduled>>
    BY <1>3 DEF CountDown
  <2>2. c \in Parts
    BY <1>1, <2>1 DEF Counted
  <2>3. ~Done
    BY <2>1, <2>2, Uncounted
  <2>4. Count(c) \in Nat /\ remaining \in Nat
    <3>1. Cardinality(chunks[c]) \in Nat
      BY <1>1, <2>2, LeftFacts
    <3> QED BY <1>1, <3>1 DEF Count, TypeOK, Cuts
  <2>5. Done' => cpc'[c] = "drain"
    BY <1>1, <2>1, <2>4 DEF Done, IsLast, TypeOK
  <2>6. Spare'
    BY <1>1, <2>1 DEF Spare, TypeOK
  <2> QED BY <2>1, <2>3, <2>5, <2>6 DEF AwaiterKept
<1>4. CASE DrainCallbacks(c)
  <2>1. /\ cpc[c] = "drain" /\ cpc' = [cpc EXCEPT ![c] = "calling"]
        /\ toCall' = [toCall EXCEPT ![c] = callbacks] /\ callbacks' = {}
        /\ UNCHANGED <<total, chunks, results, panic_error, remaining, lock, rpc,
                       fut, scheduled>>
    BY <1>4 DEF DrainCallbacks, TakeCallbacks
  <2>2. Quiet
    BY <1>1, <2>1 DEF Quiet, TypeOK
  <2>3. /\ toCall[c] = {} /\ toCall'[c] = callbacks
        /\ \A x \in AllChunks \cup Callers : x # c => toCall'[x] = toCall[x]
    BY <1>1, <2>1 DEF Spare, TypeOK
  <2>4. Spare'
    BY <1>1, <2>1, <2>3 DEF Spare, TypeOK
  <2>5. ASSUME NEW r \in Callers, fut'[r] = "pending"
        PROVE  \/ \E x \in AllChunks \cup Callers : r \in toCall'[x]
               \/ Done' /\ scheduled'[r] = Result'
    BY <2>1, <2>2, <2>3, <2>5, QuietInv DEF AwaiterKept
  <2> QED BY <2>4, <2>5 DEF AwaiterKept
<1> QED BY <1>2, <1>3, <1>4

\* add_completion_callback pushes before the count is zero or calls at once, and
\* its second look takes what a drained list missed.
LEMMA KeptByCallers ==
  ASSUME Inv, Spare, AwaiterKept, NEW r \in Callers, AddCallback(r) \/ Recheck(r)
  PROVE  Spare' /\ AwaiterKept'
<1> USE AwaitableAssumption
<1>1. TypeOK
  BY DEF Inv
<1>2. UNCHANGED <<total, chunks, results, panic_error, remaining, cpc, scheduled>>
  BY DEF AddCallback, Recheck, batchVars
<1>3. Quiet
  BY <1>1, <1>2 DEF Quiet, TypeOK
<1>4. (Done' <=> Done) /\ Result' = Result
  BY <1>3, QuietInv
<1>5. /\ toCall \in [AllChunks \cup Callers -> SUBSET Callers] /\ r \notin AllChunks
      /\ DOMAIN rpc = Callers /\ DOMAIN fut = Callers
  BY <1>1 DEF TypeOK
<1>6. CASE AddCallback(r)
  <2>1. /\ rpc[r] = "idle" /\ lock = None
        /\ fut' = [fut EXCEPT ![r] = "pending"]
        /\ IF Done
             THEN /\ toCall' = [toCall EXCEPT ![r] = {r}]
                  /\ rpc' = [rpc EXCEPT ![r] = "calling"]
                  /\ UNCHANGED callbacks
             ELSE /\ callbacks' = callbacks \cup {r}
                  /\ rpc' = [rpc EXCEPT ![r] = "recheck"]
                  /\ UNCHANGED toCall
    BY <1>6 DEF AddCallback
  <2>2. toCall[r] = {} /\ \A s \in Callers : s # r => fut'[s] = fut[s]
    BY <1>5, <2>1 DEF Spare
  <2>3. /\ Done => r \in toCall'[r]
        /\ \A x \in AllChunks \cup Callers : toCall[x] \subseteq toCall'[x]
        /\ callbacks \subseteq callbacks' /\ (~Done => r \in callbacks')
        /\ Spare'
    <3>1. CASE Done
      <4>1. /\ callbacks' = callbacks /\ rpc' = [rpc EXCEPT ![r] = "calling"]
            /\ \A x \in AllChunks \cup Callers :
                 toCall'[x] = IF x = r THEN {r} ELSE toCall[x]
        BY <1>5, <2>1, <3>1
      <4>2. \A s \in Callers : rpc'[s] = IF s = r THEN "calling" ELSE rpc[s]
        BY <1>5, <4>1
      <4>3. Spare'
        BY <1>2, <1>5, <4>1, <4>2 DEF Spare
      <4> QED BY <2>2, <3>1, <4>1, <4>3
    <3>2. CASE ~Done
      <4>1. /\ callbacks' = callbacks \cup {r} /\ toCall' = toCall
            /\ rpc' = [rpc EXCEPT ![r] = "recheck"]
        BY <2>1, <3>2
      <4>2. \A s \in Callers : rpc'[s] = IF s = r THEN "recheck" ELSE rpc[s]
        BY <1>5, <4>1
      <4>3. Spare'
        BY <1>2, <2>2, <4>1, <4>2 DEF Spare
      <4> QED BY <3>2, <4>1, <4>3
    <3> QED BY <3>1, <3>2
  <2>5. ASSUME NEW s \in Callers, fut'[s] = "pending"
        PROVE  \/ /\ s \in callbacks'
                  /\ ~Done' \/ \E c \in AllChunks : cpc'[c] = "drain"
               \/ \E x \in AllChunks \cup Callers : s \in toCall'[x]
               \/ Done' /\ scheduled'[s] = Result'
    <3>1. CASE s = r
      BY <1>4, <2>3, <3>1
    <3>2. CASE s # r
      BY <1>2, <1>4, <2>1, <2>2, <2>3, <2>5, <3>2 DEF AwaiterKept
    <3> QED BY <3>1, <3>2
  <2> QED BY <2>3, <2>5 DEF AwaiterKept
<1>7. CASE Recheck(r)
  <2>1. /\ rpc[r] = "recheck" /\ UNCHANGED fut
        /\ IF Done
             THEN /\ toCall' = [toCall EXCEPT ![r] = callbacks]
                  /\ rpc' = [rpc EXCEPT ![r] = "calling"]
             ELSE /\ rpc' = [rpc EXCEPT ![r] = "added"]
                  /\ UNCHANGED <<callbacks, toCall>>
    BY <1>7 DEF Recheck, TakeCallbacks
  <2>2. toCall[r] = {}
    BY <2>1 DEF Spare
  <2>3. /\ Done => toCall'[r] = callbacks
        /\ \A x \in AllChunks \cup Callers : toCall[x] \subseteq toCall'[x]
    BY <1>5, <2>1, <2>2
  <2>4. Spare'
    <3>1. \A s \in Callers : rpc'[s] = IF s # r THEN rpc[s]
                                       ELSE IF Done THEN "calling" ELSE "added"
      BY <1>5, <2>1
    <3>2. \A x \in AllChunks \cup Callers : x # r => toCall'[x] = toCall[x]
      BY <1>5, <2>1
    <3>3. ~Done => toCall' = toCall
      BY <2>1
    <3> QED BY <1>2, <1>5, <2>2, <3>1, <3>2, <3>3 DEF Spare
  <2>5. ASSUME NEW s \in Callers, fut'[s] = "pending"
        PROVE  \/ s \in callbacks' /\ ~Done'
               \/ \E x \in AllChunks \cup Callers : s \in toCall'[x]
               \/ Done' /\ scheduled'[s] = Result'
    BY <1>2, <1>4, <2>1, <2>3, <2>5 DEF AwaiterKept
  <2> QED BY <2>4, <2>5 DEF AwaiterKept
<1> QED BY <1>6, <1>7

\* A callback that is called hands the result to the event loop.
LEMMA KeptByCalls ==
  ASSUME Inv, Spare, AwaiterKept, NEW x \in AllChunks \cup Callers,
         NEW r \in Callers, CallCallback(x, r)
  PROVE  Spare' /\ AwaiterKept'
<1>1. TypeOK /\ Settled
  BY DEF Inv
<1>2. /\ r \in toCall[x] /\ toCall' = [toCall EXCEPT ![x] = @ \ {r}]
      /\ UNCHANGED <<total, chunks, results, panic_error, remaining, cpc,
                     callbacks, lock, rpc, fut>>
  BY DEF CallCallback, batchVars
<1>3. Quiet
  BY <1>1, <1>2 DEF Quiet, TypeOK
<1>4. Done
  BY <1>1, <1>2 DEF Settled
<1>5. Done' /\ Result' = Result
  BY <1>3, <1>4, QuietInv
<1>6. /\ fut[r] = "pending" => scheduled'[r] = Result
      /\ \A s \in Callers : s # r => scheduled'[s] = scheduled[s]
  <2>1. DOMAIN scheduled = Callers
    BY <1>1 DEF TypeOK
  <2>2. IF fut[r] = "cancelled" THEN scheduled' = scheduled
        ELSE scheduled' = [scheduled EXCEPT ![r] = Result]
    BY <1>4 DEF CallCallback, HandOutcome, Outcome
  <2> QED BY <2>1, <2>2
<1>7. \A y \in AllChunks \cup Callers :
        toCall'[y] = IF y = x THEN toCall[x] \ {r} ELSE toCall[y]
  BY <1>1, <1>2 DEF TypeOK
<1>8. Spare'
  BY <1>2, <1>7 DEF Spare
<1>9. ASSUME NEW s \in Callers, fut'[s] = "pending"
      PROVE  \/ /\ s \in callbacks'
                /\ ~Done' \/ lock' # None \/ \E c \in AllChunks : cpc'[c] = "drain"
             \/ \E y \in AllChunks \cup Callers : s \in toCall'[y]
             \/ Done' /\ scheduled'[s] = Result'
  <2>1. CASE s = r
    BY <1>2, <1>5, <1>6, <1>9, <2>1
  <2>2. CASE s # r
    <3>1. \A y \in AllChunks \cup Callers : s \in toCall[y] => s \in toCall'[y]
      BY <1>7, <2>2
    <3> QED BY <1>2, <1>4, <1>5, <1>6, <1>9, <2>2, <3>1 DEF AwaiterKept
  <2> QED BY <2>1, <2>2
<1> QED BY <1>8, <1>9 DEF AwaiterKept

\* The event loop ends the future it has a result for.
LEMMA KeptByLoop ==
  ASSUME Inv, Spare, AwaiterKept,
         SpawnChunk \/ (\E r \in Callers : SetFuture(r) \/ CancelFuture(r))
           \/ UNCHANGED vars
  PROVE  Spare' /\ AwaiterKept'
<1>1. TypeOK
  BY DEF Inv
<1>2. UNCHANGED <<total, chunks, results, panic_error, remaining, cpc, callbacks,
                  lock, rpc, toCall>>
  BY DEF SpawnChunk, SetFuture, CancelFuture, vars, batchVars
<1>3. Quiet
  BY <1>1, <1>2 DEF Quiet, TypeOK
<1>4. (Done' <=> Done) /\ Result' = Result
  BY <1>3, QuietInv
<1>5. Spare'
  BY <1>2 DEF Spare
<1>6. ASSUME NEW s \in Callers, fut'[s] = "pending"
      PROVE  fut[s] = "pending" /\ scheduled'[s] = scheduled[s]
  <2>1. CASE SpawnChunk \/ UNCHANGED vars
    BY <1>6, <2>1 DEF SpawnChunk, vars
  <2>2. ASSUME NEW r \in Callers, SetFuture(r)
        PROVE  fut[s] = "pending" /\ scheduled'[s] = scheduled[s]
    BY <1>1, <1>6, <2>2 DEF SetFuture, TypeOK
  <2>3. ASSUME NEW r \in Callers, CancelFuture(r)
        PROVE  fut[s] = "pending" /\ scheduled'[s] = scheduled[s]
    BY <1>1, <1>6, <2>3 DEF CancelFuture, TypeOK
  <2> QED BY <2>1, <2>2, <2>3
<1> QED BY <1>2, <1>4, <1>5, <1>6 DEF AwaiterKept

\* However add_completion_callback, the last chunk and the event loop
\* interleave, somebody is bound to resume each awaiter that was added.
THEOREM AwaiterNotForgotten == Spec => []AwaiterKept
<1>1. Init => Spare /\ AwaiterKept
  BY DEF Init, Spare, AwaiterKept
<1>2. Inv /\ Spare /\ AwaiterKept /\ [Next]_vars => (Spare /\ AwaiterKept)'
  <2> SUFFICES ASSUME Inv, Spare, AwaiterKept, [Next]_vars
               PROVE  Spare' /\ AwaiterKept'
    OBVIOUS
  <2>1. ASSUME NEW c \in AllChunks, ChunkStep(c) PROVE Spare' /\ AwaiterKept'
    BY <2>1, KeptByChunks, KeptByCalls DEF ChunkStep
  <2>2. ASSUME NEW r \in Callers, AddCallback(r) \/ CallerStep(r)
        PROVE  Spare' /\ AwaiterKept'
    BY <2>2, KeptByCallers, KeptByCalls DEF CallerStep
  <2>3. CASE SpawnChunk \/ (\E r \in Callers : SetFuture(r) \/ CancelFuture(r))
               \/ UNCHANGED vars
    BY <2>3, KeptByLoop
  <2> QED BY <2>1, <2>2, <2>3 DEF Next
<1> QED BY <1>1, <1>2, Invariant, PTL DEF Spec
=============================================================================
