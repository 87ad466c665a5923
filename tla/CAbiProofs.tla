------------------------------ MODULE CAbiProofs ------------------------------
(***************************************************************************)
(* Theorems about CAbi for any number of foreign threads and workers and   *)
(* batches of any size: every wait is covered by a wake-up, every thread   *)
(* is told the same, and a batch is finished when its call returns.        *)
(***************************************************************************)
EXTENDS CAbi, ChunkingProofs, FiniteSetTheorems, TLAPS

-----------------------------------------------------------------------------
(* The inductive invariant, a part for each half of the module             *)

\* The closure of the task stores the result before it sets `done`, and takes
\* the list of waiters after; what anybody was told is the stored result.
Told ==
    /\ tpc \in {"queued", "work"} <=> result = None
    /\ done => tpc \in {"drain", "unpark", "over"}
    /\ tpc \in {"drain", "unpark"} => done
    /\ tpc # "unpark" => toUnpark = {}
    /\ \A p \in Callers : /\ cpc[p] = "answer" => done
                          /\ answers[p] # {} => done /\ answers[p] = {Status}

\* A thread that is about to park, or parked, when `done` is not set is in the
\* list; the closure empties the list only after it set `done`.
Covered(p) ==
    /\ cpc[p] \in {"check", "park"} /\ ~done => p \in unparkers
    /\ cpc[p] = "park" /\ done => \/ p \in token \cup toUnpark
                                  \/ p \in unparkers /\ tpc = "drain"

\* The chunks of this batch, as Chunking cuts it.
Cuts ==
    /\ IsFiniteSet(Parts)
    /\ \A c \in Parts : chunks[c] \subseteq 0..count - 1
    /\ \A b, c \in Parts : chunks[b] \cap chunks[c] # {} => b = c
    /\ \A i \in 0..count - 1 : \E c \in Parts : i \in chunks[c]

\* Chunks that are not over yet: what `remaining` counts.
Left == {c \in Parts : kpc[c] \in {"unspawned", "queued", "run", "count"}}

\* A chunk that has run has written its items, and one that has not has not.
Written ==
    \A c \in Parts : \A i \in chunks[c] :
        out_results[i] = "unset" <=> kpc[c] \in {"unspawned", "queued", "run"}

\* The flag stands for the items that panicked, in whichever chunk.
Flagged == had_panic <=> \E i \in 0..count - 1 : out_results[i] = "null"

\* Where hypertile_batch_spawn is.
Phases ==
    /\ bpc = "none" => ~had_panic /\ batchStatus = None /\ Parts = {} /\ count = 0
    /\ bpc \notin {"none", "spawn"} => \A c \in Parts : kpc[c] # "unspawned"
    /\ bpc = "park" /\ remaining = 0 => Batch \in token \/ \E c \in Parts : kpc[c] = "unpark"
    /\ bpc \in {"read", "returned"} => remaining = 0
    /\ bpc = "returned" => batchStatus = IF had_panic THEN "ErrPanic" ELSE "Ok"

Counted == remaining = Cardinality(Left)

TaskInv  == Told /\ \A p \in Callers : Covered(p)
BatchInv == Cuts /\ Counted /\ Written /\ Flagged /\ Phases
Inv == TypeOK /\ TaskInv /\ BatchInv

-----------------------------------------------------------------------------
(* Each half of the state in turn stands still                             *)

\* TypeOK in its two halves.
TaskTypes ==
    /\ callback \in BOOLEAN
    /\ result \in {None, "value", "panic"}
    /\ done \in BOOLEAN
    /\ unparkers \subseteq Callers
    /\ destroyed \in BOOLEAN
    /\ tpc \in {"queued", "work", "callback", "done", "drain", "unpark", "over"}
    /\ toUnpark \subseteq Callers
    /\ cpc \in [Callers -> {"ready", "register", "check", "park", "answer"}]
    /\ answers \in [Callers -> SUBSET {"Ok", "ErrPanic", "ErrNotInitialized"}]
    /\ token \subseteq Callers \cup {Batch}

BatchTypes ==
    /\ UNION {chunks[c] : c \in Parts} = 0..count - 1
    /\ out_results \in [0..count - 1 -> {"unset", "value", "null"}]
    /\ remaining \in 0..Cardinality(Parts)
    /\ had_panic \in BOOLEAN
    /\ kpc \in [Parts -> {"unspawned", "queued", "run", "count", "unpark", "over"}]
    /\ bpc \in {"none", "spawn", "check", "park", "read", "returned"}
    /\ batchStatus \in {None, "Ok", "ErrPanic"}

LEMMA Halves == TypeOK <=> TaskTypes /\ BatchTypes
BY DEF TypeOK, TaskTypes, BatchTypes

LEMMA Together ==
  ASSUME TaskTypes', BatchTypes', TaskInv', BatchInv'
  PROVE  Inv'
BY DEF Inv, TypeOK, TaskTypes, BatchTypes

\* What is left, and what its being empty means.
LEMMA LeftFacts ==
  ASSUME Cuts
  PROVE  /\ IsFiniteSet(Left) /\ Cardinality(Left) \in 0..Cardinality(Parts)
         /\ Cardinality(Left) = 0 <=> Left = {}
<1>1. IsFiniteSet(Parts) /\ Left \subseteq Parts
  BY DEF Cuts, Left
<1>2. IsFiniteSet(Left) /\ Cardinality(Left) <= Cardinality(Parts)
  BY <1>1, FS_Subset
<1> QED BY <1>1, <1>2, FS_CardinalityType, FS_EmptySet

\* A step of the task or of a foreign thread may take or leave tokens, but not
\* the batch's.
LEMMA BatchStandsStill ==
  ASSUME Inv, UNCHANGED batchVars, Batch \in token => Batch \in token'
  PROVE  BatchTypes' /\ BatchInv'
<1>1. /\ UNCHANGED <<count, chunks, out_results, remaining, had_panic, kpc, bpc, batchStatus>>
      /\ Parts' = Parts
  BY DEF batchVars, Parts
<1>2. BatchTypes'
  BY <1>1, Halves DEF Inv, BatchTypes
<1>3. Cuts' /\ Left' = Left
  BY <1>1 DEF Inv, BatchInv, Cuts, Left
<1>4. Written' /\ Flagged'
  BY <1>1 DEF Inv, BatchInv, Written, Flagged
<1>5. Phases'
  BY <1>1 DEF Inv, BatchInv, Phases, Batch
<1> QED BY <1>1, <1>2, <1>3, <1>4, <1>5 DEF Inv, BatchInv, Counted

\* A step of the batch leaves or takes its own token only.
LEMMA TaskStandsStill ==
  ASSUME Inv, UNCHANGED <<waitVars, taskVars>>,
         token \cap Callers = token' \cap Callers, token' \subseteq Callers \cup {Batch}
  PROVE  TaskTypes' /\ TaskInv'
<1>1. UNCHANGED <<unparkers, destroyed, cpc, answers, callback, result, done, tpc, toUnpark>>
  BY DEF waitVars, taskVars
<1>2. TaskTypes'
  BY <1>1, Halves DEF Inv, TaskTypes, Batch
<1>3. Told'
  <2>1. Status' = Status
    BY <1>1 DEF Status
  <2> QED BY <1>1, <2>1 DEF Inv, TaskInv, Told
<1>4. ASSUME NEW p \in Callers PROVE Covered(p)'
  BY <1>1 DEF Inv, TaskInv, Covered
<1> QED BY <1>2, <1>3, <1>4 DEF TaskInv
-----------------------------------------------------------------------------
(* The closure of the task                                                 *)

\* What a stored result is told as.
LEMMA StatusFacts ==
  /\ result \in {"value", "panic"} => Status \in {"Ok", "ErrPanic"}
  /\ Status \in {"Ok", "ErrPanic", "ErrNotInitialized"}
<1>1. result = "value" => Status = "Ok"
  BY DEF Status
<1>2. result = "panic" => Status = "ErrPanic"
  BY DEF Status
<1>3. ~(result = "value") /\ ~(result = "panic") => Status = "ErrNotInitialized"
  BY DEF Status
<1> QED BY <1>1, <1>2, <1>3

LEMMA TaskStepInv ==
  ASSUME Inv, StartTask \/ FinishWork \/ CallCallback \/ SetDone
  PROVE  Inv'
<1> USE CAbiAssumption
<1>1. TaskTypes /\ Told
  BY Halves DEF Inv, TaskInv
<1>2. /\ UNCHANGED <<unparkers, destroyed, cpc, answers, callback, toUnpark, token, batchVars>>
  BY DEF StartTask, FinishWork, CallCallback, SetDone, waitVars
<1>3. BatchTypes' /\ BatchInv'
  BY <1>2, BatchStandsStill
<1>4. CASE StartTask
  <2>1. tpc = "queued" /\ tpc' = "work" /\ UNCHANGED <<result, done>>
    BY <1>4 DEF StartTask
  <2>2. Status' = Status
    BY <2>1 DEF Status
  <2>3. TaskTypes' /\ Told' /\ \A p \in Callers : Covered(p)'
    BY <1>1, <1>2, <2>1, <2>2 DEF TaskTypes, Told, Inv, TaskInv, Covered, Batch
  <2> QED BY <1>3, <2>3, Together DEF TaskInv
<1>5. CASE FinishWork
  <2>1. tpc = "work" /\ tpc' \in {"callback", "done"} /\ result' \in {"value", "panic"} /\ UNCHANGED done
    BY <1>5 DEF FinishWork, Stored
  <2>2. ~done
    BY <1>1, <2>1 DEF Told
  <2>3. TaskTypes' /\ Told' /\ \A p \in Callers : Covered(p)'
    BY <1>1, <1>2, <2>1, <2>2 DEF TaskTypes, Told, Inv, TaskInv, Covered, Batch
  <2> QED BY <1>3, <2>3, Together DEF TaskInv
<1>6. CASE CallCallback
  <2>1. tpc = "callback" /\ tpc' = "over" /\ UNCHANGED <<result, done>>
    BY <1>6 DEF CallCallback
  <2>2. Status' = Status
    BY <2>1 DEF Status
  <2>3. TaskTypes' /\ Told' /\ \A p \in Callers : Covered(p)'
    BY <1>1, <1>2, <2>1, <2>2 DEF TaskTypes, Told, Inv, TaskInv, Covered, Batch
  <2> QED BY <1>3, <2>3, Together DEF TaskInv
<1>7. CASE SetDone
  <2>1. tpc = "done" /\ tpc' = "drain" /\ done' = TRUE /\ UNCHANGED result
    BY <1>7 DEF SetDone
  <2>2. Status' = Status /\ ~done
    BY <1>1, <2>1 DEF Status, Told
  <2>3. TaskTypes' /\ Told'
    BY <1>1, <1>2, <2>1, <2>2 DEF TaskTypes, Told, Batch
  <2>4. \A p \in Callers : Covered(p)'
    BY <1>2, <2>1, <2>2 DEF Inv, TaskInv, Covered
  <2> QED BY <1>3, <2>3, <2>4, Together DEF TaskInv
<1> QED BY <1>4, <1>5, <1>6, <1>7

LEMMA DrainInv ==
  ASSUME Inv, Drain
  PROVE  Inv'
<1>1. TaskTypes /\ Told
  BY Halves DEF Inv, TaskInv
<1>2. /\ tpc = "drain" /\ tpc' = "unpark" /\ toUnpark' = unparkers /\ unparkers' = {}
      /\ UNCHANGED <<destroyed, cpc, answers, callback, result, done, token, batchVars>>
  BY DEF Drain, TakeUnparkers
<1>3. BatchTypes' /\ BatchInv'
  BY <1>2, BatchStandsStill
<1>4. done /\ Status' = Status
  BY <1>1, <1>2 DEF Told, Status
<1>5. TaskTypes' /\ Told'
  BY <1>1, <1>2, <1>4 DEF TaskTypes, Told, Batch
<1>6. ASSUME NEW p \in Callers PROVE Covered(p)'
  <2>1. Covered(p)
    BY DEF Inv, TaskInv
  <2>2. cpc[p] = "park" => p \in token \/ p \in unparkers
    BY <1>1, <1>2, <1>4, <2>1 DEF Covered, Told
  <2> QED BY <1>2, <1>4, <2>2 DEF Covered
<1> QED BY <1>3, <1>5, <1>6, Together DEF TaskInv
LEMMA UnparkInv ==
  ASSUME Inv, UnparkNext
  PROVE  Inv'
<1> USE CAbiAssumption
<1>1. TaskTypes /\ Told
  BY Halves DEF Inv, TaskInv
<1>2. /\ tpc = "unpark"
      /\ UNCHANGED <<unparkers, destroyed, cpc, answers, callback, result, done, batchVars>>
  BY DEF UnparkNext, waitVars
<1>3. \/ toUnpark = {} /\ tpc' = "over" /\ UNCHANGED <<toUnpark, token>>
      \/ \E p \in toUnpark : token' = token \cup {p} /\ toUnpark' = toUnpark \ {p} /\ tpc' = tpc
  BY DEF UnparkNext
<1>4. BatchTypes' /\ BatchInv'
  BY <1>2, <1>3, BatchStandsStill
<1>5. done /\ Status' = Status
  BY <1>1, <1>2 DEF Told, Status
<1>6. TaskTypes'
  BY <1>1, <1>2, <1>3 DEF TaskTypes, Batch
<1>7. Told'
  BY <1>1, <1>2, <1>3, <1>5 DEF Told
<1>8. ASSUME NEW p \in Callers PROVE Covered(p)'
  <2>1. Covered(p)
    BY DEF Inv, TaskInv
  <2> QED BY <1>2, <1>3, <1>5, <2>1 DEF Covered
<1> QED BY <1>4, <1>6, <1>7, <1>8, Together DEF TaskInv

-----------------------------------------------------------------------------
(* The foreign threads                                                     *)

\* Steps that give no answer.
LEMMA WaitStepInv ==
  ASSUME Inv, NEW p \in Callers,
         Wait(p) \/ Register(p) \/ Check(p) \/ Unparked(p) \/ Spurious(p)
  PROVE  Inv'
<1> USE CAbiAssumption
<1>1. TaskTypes /\ Told /\ Covered(p)
  BY Halves DEF Inv, TaskInv
<1>2. UNCHANGED <<destroyed, answers, callback, result, done, tpc, toUnpark, batchVars>>
  BY DEF Wait, Register, Check, Unparked, Spurious, taskVars
<1>3. PICK to \in {"register", "check", "park", "answer"} :
        /\ cpc' = [cpc EXCEPT ![p] = to]
        /\ to = "answer" => done
        /\ to = "park" => cpc[p] = "check" /\ ~done
        /\ to = "check" => cpc[p] = "park" \/ (cpc[p] = "register" /\ (~done => p \in unparkers'))
  <2>1. CASE Wait(p) \/ Check(p)
    <3>1. CASE done
      BY <2>1, <3>1 DEF Wait, Check, Goto
    <3>2. CASE ~done
      BY <2>1, <3>2 DEF Wait, Check, Goto
    <3> QED BY <3>1, <3>2
  <2>2. CASE Register(p)
    BY <2>2 DEF Register, Goto
  <2>3. CASE Unparked(p) \/ Spurious(p)
    <3>1. cpc[p] = "park" /\ cpc' = [cpc EXCEPT ![p] = "check"]
      BY <2>3 DEF Unparked, Spurious, Goto
    <3> WITNESS "check" \in {"register", "check", "park", "answer"}
    <3> QED BY <3>1
  <2> QED BY <2>1, <2>2, <2>3
<1>4. /\ token' = token \/ (token' = token \ {p} /\ cpc[p] \in {"ready", "park"})
      /\ unparkers' = unparkers \/ (unparkers' = unparkers \cup {p} /\ ~done)
  BY DEF Wait, Register, Check, Unparked, Spurious
<1>5. BatchTypes' /\ BatchInv'
  <2>1. Batch \in token => Batch \in token'
    BY <1>4 DEF Batch
  <2> QED BY <1>2, <2>1, BatchStandsStill
<1>6. Status' = Status
  BY <1>2 DEF Status
<1>7. cpc'[p] = to /\ \A q \in Callers : q # p => cpc'[q] = cpc[q]
  BY <1>1, <1>3 DEF TaskTypes
<1>8. TaskTypes'
  BY <1>1, <1>2, <1>3, <1>4 DEF TaskTypes, Batch
<1>9. Told'
  BY <1>1, <1>2, <1>3, <1>6, <1>7 DEF Told
<1>10. ASSUME NEW q \in Callers PROVE Covered(q)'
  <2>1. CASE q # p
    <3>1. Covered(q)
      BY DEF Inv, TaskInv
    <3> QED BY <1>2, <1>4, <1>7, <2>1, <3>1 DEF Covered
  <2>2. CASE q = p
    BY <1>1, <1>2, <1>3, <1>4, <1>7, <2>2 DEF Covered
  <2> QED BY <2>1, <2>2
<1> QED BY <1>5, <1>8, <1>9, <1>10, Together DEF TaskInv

LEMMA AnswerInv ==
  ASSUME Inv, NEW p \in Callers, Poll(p) \/ ReturnFromWait(p)
  PROVE  Inv'
<1> USE CAbiAssumption
<1>1. TaskTypes /\ Told
  BY Halves DEF Inv, TaskInv
<1>2. /\ answers' = [answers EXCEPT ![p] = @ \cup {Status}]
      /\ cpc' = cpc \/ cpc' = [cpc EXCEPT ![p] = "ready"]
      /\ UNCHANGED <<unparkers, destroyed, callback, result, done, tpc, toUnpark, token, batchVars>>
  BY DEF Poll, ReturnFromWait, Answer, Goto, taskVars
<1>3. done
  BY <1>1 DEF Told, Poll, ReturnFromWait
<1>4. BatchTypes' /\ BatchInv'
  BY <1>2, BatchStandsStill
<1>5. Status' = Status
  BY <1>2 DEF Status
<1>6. TaskTypes'
  <2>1. answers' \in [Callers -> SUBSET {"Ok", "ErrPanic", "ErrNotInitialized"}]
    BY <1>1, <1>2, StatusFacts DEF TaskTypes
  <2> QED BY <1>1, <1>2, <2>1 DEF TaskTypes, Batch
<1>7. Told'
  <2>1. \A q \in Callers : answers'[q] = IF q = p THEN answers[p] \cup {Status} ELSE answers[q]
    BY <1>1, <1>2 DEF TaskTypes
  <2>2. \A q \in Callers : cpc'[q] = cpc[q] \/ cpc'[q] = "ready"
    BY <1>1, <1>2 DEF TaskTypes
  <2> QED BY <1>1, <1>2, <1>3, <1>5, <2>1, <2>2 DEF Told
<1>8. ASSUME NEW q \in Callers PROVE Covered(q)'
  <2>1. Covered(q)
    BY DEF Inv, TaskInv
  <2>2. cpc'[q] = cpc[q] \/ cpc'[q] = "ready"
    BY <1>1, <1>2 DEF TaskTypes
  <2> QED BY <1>2, <2>1, <2>2 DEF Covered
<1> QED BY <1>4, <1>6, <1>7, <1>8, Together DEF TaskInv

LEMMA DestroyInv ==
  ASSUME Inv, Destroy
  PROVE  Inv'
<1>1. TaskTypes /\ Told
  BY Halves DEF Inv, TaskInv
<1>2. /\ destroyed' = TRUE
      /\ UNCHANGED <<unparkers, cpc, answers, callback, result, done, tpc, toUnpark, token, batchVars>>
  BY DEF Destroy, taskVars
<1>3. BatchTypes' /\ BatchInv'
  BY <1>2, BatchStandsStill
<1>4. Status' = Status
  BY <1>2 DEF Status
<1>5. TaskTypes' /\ Told'
  BY <1>1, <1>2, <1>4 DEF TaskTypes, Told, Batch
<1>6. \A p \in Callers : Covered(p)'
  BY <1>2 DEF Inv, TaskInv, Covered
<1> QED BY <1>3, <1>5, <1>6, Together DEF TaskInv
-----------------------------------------------------------------------------
(* hypertile_batch_spawn and its chunks                                    *)

LEMMA CutFacts ==
  ASSUME NEW n \in Nat \ {0}, NEW w \in Nat
  PROVE  /\ DOMAIN Cut(n, w) = Chunks(n, w)
         /\ IsFiniteSet(Chunks(n, w)) /\ Cardinality(Chunks(n, w)) = Expected(n, w)
         /\ \A c \in Chunks(n, w) : Cut(n, w)[c] \subseteq 0..n - 1
         /\ \A b, c \in Chunks(n, w) : Cut(n, w)[b] \cap Cut(n, w)[c] # {} => b = c
         /\ \A i \in 0..n - 1 : \E c \in Chunks(n, w) : i \in Cut(n, w)[c]
<1> DEFINE s == ChunkSize(n, w)
<1>1. \A c \in Chunks(n, w) : Cut(n, w)[c] = Items(c, s, n)
  BY DEF Cut
<1>2. \A c \in Chunks(n, w) : Cut(n, w)[c] \subseteq 0..n - 1
  BY <1>1, ChunkBounds
<1>3. \A k \in 0..n - 1 : \E c \in Chunks(n, w) :
         k \in Cut(n, w)[c] /\ \A b \in Chunks(n, w) : k \in Cut(n, w)[b] => b = c
  BY <1>1, Partition
<1>4. \A b, c \in Chunks(n, w) : Cut(n, w)[b] \cap Cut(n, w)[c] # {} => b = c
  BY <1>2, <1>3
<1>5. ActualChunks(n, w) \in Nat \ {0}
  BY Sizes
<1>6. IsFiniteSet(Chunks(n, w)) /\ Cardinality(Chunks(n, w)) = ActualChunks(n, w)
  <2> DEFINE a == ActualChunks(n, w)
  <2>1. a \in Nat \ {0} /\ Chunks(n, w) = 0..a - 1
    BY <1>5 DEF Chunks
  <2> HIDE DEF a
  <2>2. IsFiniteSet(0..a - 1) /\ Cardinality(0..a - 1) = a
    <3>1. 0 \in Int /\ a - 1 \in Int /\ ~(0 > a - 1) /\ (a - 1) - 0 + 1 = a
      BY <2>1
    <3> QED BY <3>1, FS_Interval
  <2> QED BY <2>1, <2>2 DEF a
<1> QED BY <1>2, <1>3, <1>4, <1>6 DEF Cut, Expected

LEMMA CallBatchInv ==
  ASSUME Inv, CallBatch
  PROVE  Inv'
<1> USE CAbiAssumption
<1>1. TypeOK /\ Phases
  BY DEF Inv, BatchInv
<1>2. PICK n \in Counts, w \in PoolSizes :
        /\ count' = n /\ chunks' = Cut(n, w)
        /\ kpc' = [c \in Chunks(n, w) |-> "unspawned"]
        /\ out_results' = [i \in 0..n - 1 |-> "unset"]
        /\ remaining' = Expected(n, w)
  BY DEF CallBatch
<1>3. /\ bpc = "none" /\ bpc' = "spawn"
      /\ UNCHANGED <<waitVars, taskVars, token, had_panic, batchStatus>>
  BY DEF CallBatch
<1>4. TaskTypes' /\ TaskInv'
  <2>1. token' \subseteq Callers \cup {Batch}
    BY <1>1, <1>3 DEF TypeOK, Batch
  <2> QED BY <1>3, <2>1, TaskStandsStill
<1>5. n \in Nat \ {0} /\ w \in Nat
  OBVIOUS
<1>6. Parts' = Chunks(n, w)
  BY <1>2, <1>5, CutFacts DEF Parts
<1>7. Cuts'
  BY <1>2, <1>5, <1>6, CutFacts DEF Cuts
<1>8. \A c \in Parts' : kpc'[c] = "unspawned"
  BY <1>2, <1>6
<1>9. Left' = Parts' /\ Counted'
  <2>1. Left' = Parts'
    BY <1>8 DEF Left
  <2>2. Cardinality(Parts') = Expected(n, w)
    BY <1>5, <1>6, CutFacts
  <2> QED BY <1>2, <2>1, <2>2 DEF Counted
<1>10. \A i \in 0..n - 1 : out_results'[i] = "unset"
  BY <1>2
<1>11. Written'
  BY <1>2, <1>7, <1>8, <1>10 DEF Written, Cuts
<1>12. ~had_panic /\ batchStatus = None
  BY <1>1, <1>3 DEF Phases
<1>13. Flagged' /\ Phases'
  BY <1>2, <1>3, <1>10, <1>12 DEF Flagged, Phases
<1>14. BatchTypes'
  <2>1. UNION {chunks'[c] : c \in Parts'} = 0..count' - 1
    BY <1>7 DEF Cuts
  <2>2. remaining' \in 0..Cardinality(Parts')
    BY <1>7, <1>9, FS_CardinalityType DEF Counted, Cuts
  <2>3. kpc' \in [Parts' -> {"unspawned", "queued", "run", "count", "unpark", "over"}]
    BY <1>2, <1>6
  <2>4. out_results' \in [0..count' - 1 -> {"unset", "value", "null"}]
    BY <1>2
  <2> QED BY <1>1, <1>3, <2>1, <2>2, <2>3, <2>4 DEF BatchTypes, TypeOK
<1> QED BY <1>4, <1>7, <1>9, <1>11, <1>13, <1>14, Together DEF BatchInv

\* A chunk goes from one place to the next while nothing is written or counted.
LEMMA MoveInv ==
  ASSUME Inv, NEW c \in Parts, NEW to \in {"queued", "run", "over"},
         kpc' = [kpc EXCEPT ![c] = to],
         \/ kpc[c] = "unspawned" /\ to = "queued" /\ bpc = "spawn"
         \/ kpc[c] = "queued" /\ to = "run"
         \/ kpc[c] = "unpark" /\ to = "over",
         UNCHANGED <<count, chunks, out_results, remaining, had_panic, bpc, batchStatus>>,
         Batch \in token => Batch \in token',
         to = "over" => Batch \in token'
  PROVE  BatchTypes' /\ BatchInv'
<1>1. BatchTypes /\ Cuts /\ Counted /\ Written /\ Flagged /\ Phases
  BY Halves DEF Inv, BatchInv
<1>2. Parts' = Parts
  BY DEF Parts
<1>3. kpc'[c] = to /\ \A b \in Parts : b # c => kpc'[b] = kpc[b]
  BY <1>1 DEF BatchTypes
<1>4. BatchTypes'
  BY <1>1, <1>2 DEF BatchTypes
<1>5. Cuts' /\ Flagged'
  BY <1>1, <1>2 DEF Cuts, Flagged
<1>6. Left' = Left
  BY <1>2, <1>3 DEF Left
<1>7. Written'
  BY <1>1, <1>2, <1>3 DEF Written
<1>8. Phases'
  BY <1>1, <1>2, <1>3 DEF Phases, Batch
<1> QED BY <1>1, <1>4, <1>5, <1>6, <1>7, <1>8 DEF BatchInv, Counted

\* Steps of the call that touch no chunk.
LEMMA CallerInv ==
  ASSUME Inv, CheckBatch \/ ParkBatch \/ SpuriousBatch \/ ReturnFromBatch
              \/ (SpawnChunk /\ UNCHANGED kpc)
  PROVE  Inv'
<1> USE CAbiAssumption
<1>1. /\ TypeOK /\ BatchTypes /\ Cuts /\ Counted /\ Written /\ Flagged /\ Phases
  BY Halves DEF Inv, BatchInv
<1>2. /\ UNCHANGED <<waitVars, taskVars, count, chunks, out_results, remaining, had_panic, kpc>>
      /\ Parts' = Parts
  BY DEF CheckBatch, ParkBatch, SpuriousBatch, ReturnFromBatch, SpawnChunk, Parts
<1>3. token' = token \/ token' = token \ {Batch}
  BY DEF CheckBatch, ParkBatch, SpuriousBatch, ReturnFromBatch, SpawnChunk
<1>4. TaskTypes' /\ TaskInv'
  <2>1. token \cap Callers = token' \cap Callers /\ token' \subseteq Callers \cup {Batch}
    BY <1>1, <1>3 DEF TypeOK, Batch
  <2> QED BY <1>2, <2>1, TaskStandsStill
<1>5. Cuts' /\ Counted' /\ Written' /\ Flagged'
  BY <1>1, <1>2 DEF Cuts, Counted, Left, Written, Flagged
<1>6. remaining \in Nat
  BY <1>1, LeftFacts DEF Counted
<1>7. Phases' /\ bpc' \in {"none", "spawn", "check", "park", "read", "returned"}
      /\ batchStatus' \in {None, "Ok", "ErrPanic"}
  <2>1. CASE CheckBatch
    BY <1>1, <1>2, <1>6, <2>1 DEF CheckBatch, Phases, BatchTypes
  <2>2. CASE ParkBatch \/ SpuriousBatch
    BY <1>1, <1>2, <2>2 DEF ParkBatch, SpuriousBatch, AfterPark, Phases, BatchTypes
  <2>3. CASE ReturnFromBatch
    BY <1>1, <1>2, <2>3 DEF ReturnFromBatch, Phases, BatchTypes
  <2>4. CASE SpawnChunk /\ UNCHANGED kpc
    <3>1. bpc = "spawn" /\ UNCHANGED batchStatus
      BY <2>4 DEF SpawnChunk
    <3>2. {c \in Parts : kpc[c] = "unspawned"} = {} /\ bpc' = "check"
      <4>1. ASSUME NEW c \in Parts, kpc[c] = "unspawned", kpc' = [kpc EXCEPT ![c] = "queued"]
            PROVE  FALSE
        BY <1>1, <2>4, <4>1 DEF BatchTypes
      <4> QED BY <2>4, <4>1 DEF SpawnChunk
    <3> QED BY <1>1, <1>2, <3>1, <3>2 DEF Phases, BatchTypes
  <2> QED BY <2>1, <2>2, <2>3, <2>4
<1>8. BatchTypes'
  BY <1>1, <1>2, <1>7 DEF BatchTypes
<1> QED BY <1>4, <1>5, <1>7, <1>8, Together DEF BatchInv
\* Running a chunk's items: nobody else writes them, and they are written once.
LEMMA RunItemsInv ==
  ASSUME Inv, NEW c \in Parts, RunItems(c)
  PROVE  Inv'
<1>1. /\ TypeOK /\ BatchTypes /\ Cuts /\ Counted /\ Written /\ Flagged /\ Phases
  BY Halves DEF Inv, BatchInv
<1>2. PICK vals \in [chunks[c] -> {"value", "null"}] :
        /\ out_results' = [i \in DOMAIN out_results |->
                             IF i \in chunks[c] THEN vals[i] ELSE out_results[i]]
        /\ had_panic' = (had_panic \/ \E i \in chunks[c] : vals[i] = "null")
  BY DEF RunItems, FlagStored, Panicked
<1>3. /\ kpc[c] = "run" /\ kpc' = [kpc EXCEPT ![c] = "count"]
      /\ UNCHANGED <<waitVars, taskVars, token, count, chunks, remaining, bpc, batchStatus>>
      /\ Parts' = Parts
  BY DEF RunItems, Parts
<1>4. TaskTypes' /\ TaskInv'
  <2>1. token' \subseteq Callers \cup {Batch}
    BY <1>1, <1>3 DEF TypeOK, Batch
  <2> QED BY <1>3, <2>1, TaskStandsStill
<1>5. kpc'[c] = "count" /\ \A b \in Parts : b # c => kpc'[b] = kpc[b]
  BY <1>1, <1>3 DEF BatchTypes
<1>6. Left' = Left /\ c \in Left
  BY <1>3, <1>5 DEF Left
<1>7. \A i \in 0..count - 1 :
        out_results'[i] = IF i \in chunks[c] THEN vals[i] ELSE out_results[i]
  BY <1>1, <1>2 DEF BatchTypes
<1>8. Cuts'
  BY <1>1, <1>3 DEF Cuts
<1>9. Written'
  <2>1. ASSUME NEW b \in Parts, NEW i \in chunks[b]
        PROVE  out_results'[i] = "unset" <=> kpc'[b] \in {"unspawned", "queued", "run"}
    <3>1. i \in 0..count - 1
      BY <1>1, <2>1 DEF Cuts
    <3>2. CASE b = c
      <4>1. out_results'[i] = vals[i] /\ vals[i] \in {"value", "null"}
        BY <1>7, <2>1, <3>1, <3>2
      <4> QED BY <1>5, <3>2, <4>1
    <3>3. CASE b # c
      <4>1. i \notin chunks[c]
        BY <1>1, <2>1, <3>3 DEF Cuts
      <4>2. out_results'[i] = out_results[i]
        BY <1>7, <3>1, <4>1
      <4> QED BY <1>1, <1>5, <2>1, <3>3, <4>2 DEF Written
    <3> QED BY <3>2, <3>3
  <2> QED BY <1>3, <2>1 DEF Written
<1>10. Flagged'
  <2>1. \A i \in chunks[c] : i \in 0..count - 1 /\ out_results[i] = "unset"
    BY <1>1, <1>3 DEF Cuts, Written
  <2>2. ASSUME had_panic PROVE \E i \in 0..count - 1 : out_results'[i] = "null"
    <3>1. PICK i \in 0..count - 1 : out_results[i] = "null"
      BY <1>1, <2>2 DEF Flagged
    <3>2. i \notin chunks[c]
      BY <2>1, <3>1
    <3> QED BY <1>7, <3>1, <3>2
  <2>3. ASSUME NEW i \in chunks[c], vals[i] = "null" PROVE \E j \in 0..count - 1 : out_results'[j] = "null"
    BY <1>7, <2>1, <2>3
  <2>4. ASSUME NEW i \in 0..count - 1, out_results'[i] = "null"
        PROVE  had_panic \/ \E j \in chunks[c] : vals[j] = "null"
    <3>1. CASE i \in chunks[c]
      BY <1>7, <2>4, <3>1
    <3>2. CASE i \notin chunks[c]
      BY <1>1, <1>7, <2>4, <3>2 DEF Flagged
    <3> QED BY <3>1, <3>2
  <2> QED BY <1>2, <1>3, <2>2, <2>3, <2>4 DEF Flagged
<1>11. remaining # 0 /\ remaining \in Nat
  BY <1>1, <1>6, LeftFacts DEF Counted
<1>12. Phases'
  BY <1>1, <1>3, <1>5, <1>11 DEF Phases, Batch
<1>13. BatchTypes'
  <2>1. out_results' \in [0..count - 1 -> {"unset", "value", "null"}]
    BY <1>1, <1>2 DEF BatchTypes
  <2>2. had_panic' \in BOOLEAN
    BY <1>1, <1>2 DEF BatchTypes
  <2>3. kpc' \in [Parts -> {"unspawned", "queued", "run", "count", "unpark", "over"}]
    BY <1>1, <1>3 DEF BatchTypes
  <2> QED BY <1>1, <1>3, <2>1, <2>2, <2>3 DEF BatchTypes
<1> QED BY <1>1, <1>3, <1>4, <1>6, <1>8, <1>9, <1>10, <1>12, <1>13, Together DEF BatchInv, Counted

\* fetch_sub: the chunk that finds one left is the last.
LEMMA CountDownInv ==
  ASSUME Inv, NEW c \in Parts, CountDown(c)
  PROVE  Inv'
<1>1. /\ TypeOK /\ BatchTypes /\ Cuts /\ Counted /\ Written /\ Flagged /\ Phases
  BY Halves DEF Inv, BatchInv
<1>2. /\ kpc[c] = "count" /\ remaining' = remaining - 1
      /\ kpc' = [kpc EXCEPT ![c] = IF remaining = 1 THEN "unpark" ELSE "over"]
      /\ UNCHANGED <<waitVars, taskVars, token, count, chunks, out_results, had_panic, bpc, batchStatus>>
      /\ Parts' = Parts
  BY DEF CountDown, Parts
<1>3. TaskTypes' /\ TaskInv'
  <2>1. token' \subseteq Callers \cup {Batch}
    BY <1>1, <1>2 DEF TypeOK, Batch
  <2> QED BY <1>2, <2>1, TaskStandsStill
<1>4. /\ kpc'[c] = IF remaining = 1 THEN "unpark" ELSE "over"
      /\ \A b \in Parts : b # c => kpc'[b] = kpc[b]
  BY <1>1, <1>2 DEF BatchTypes
<1>5. c \in Left /\ Left' = Left \ {c}
  BY <1>2, <1>4 DEF Left
<1>6. remaining \in Nat /\ remaining # 0 /\ Counted' /\ remaining' \in 0..Cardinality(Parts)
  <2>1. Cardinality(Left \ {c}) = Cardinality(Left) - 1
    BY <1>1, <1>5, LeftFacts, FS_RemoveElement
  <2>2. remaining \in 0..Cardinality(Parts) /\ remaining # 0 /\ Cardinality(Parts) \in Nat
    BY <1>1, <1>5, LeftFacts, FS_CardinalityType DEF Counted, Cuts
  <2> QED BY <1>1, <1>2, <1>5, <2>1, <2>2 DEF Counted
<1>7. Cuts' /\ Flagged'
  BY <1>1, <1>2 DEF Cuts, Flagged
<1>8. Written'
  BY <1>1, <1>2, <1>4 DEF Written
<1>9. Phases'
  <2>1. remaining' = 0 => kpc'[c] = "unpark"
    BY <1>2, <1>4, <1>6
  <2> QED BY <1>1, <1>2, <1>4, <1>6, <2>1 DEF Phases, Batch
<1>10. BatchTypes'
  <2>1. kpc' \in [Parts -> {"unspawned", "queued", "run", "count", "unpark", "over"}]
    BY <1>1, <1>2 DEF BatchTypes
  <2> QED BY <1>1, <1>2, <1>6, <2>1 DEF BatchTypes
<1> QED BY <1>3, <1>6, <1>7, <1>8, <1>9, <1>10, Together DEF BatchInv

LEMMA ChunkInv ==
  ASSUME Inv, NEW c \in Parts, StartChunk(c) \/ UnparkBatch(c) \/ (SpawnChunk /\ kpc' # kpc)
  PROVE  Inv'
<1> USE CAbiAssumption
<1>1. TypeOK
  BY DEF Inv
<1>2. UNCHANGED <<waitVars, taskVars>> /\ (token' = token \/ token' = token \cup {Batch})
  BY DEF StartChunk, UnparkBatch, SpawnChunk
<1>3. TaskTypes' /\ TaskInv'
  <2>1. token \cap Callers = token' \cap Callers /\ token' \subseteq Callers \cup {Batch}
    BY <1>1, <1>2 DEF TypeOK, Batch
  <2> QED BY <1>2, <2>1, TaskStandsStill
<1>4. CASE StartChunk(c)
  <2>1. /\ kpc[c] = "queued" /\ kpc' = [kpc EXCEPT ![c] = "run"]
        /\ UNCHANGED <<token, count, chunks, out_results, remaining, had_panic, bpc, batchStatus>>
    BY <1>4 DEF StartChunk
  <2> QED BY <1>3, <2>1, MoveInv, Together
<1>5. CASE UnparkBatch(c)
  <2>1. /\ kpc[c] = "unpark" /\ kpc' = [kpc EXCEPT ![c] = "over"] /\ Batch \in token'
        /\ UNCHANGED <<count, chunks, out_results, remaining, had_panic, bpc, batchStatus>>
    BY <1>5 DEF UnparkBatch
  <2> QED BY <1>3, <2>1, MoveInv, Together
<1>6. CASE SpawnChunk /\ kpc' # kpc
  <2>1. PICK d \in Parts : kpc[d] = "unspawned" /\ kpc' = [kpc EXCEPT ![d] = "queued"] /\ bpc' = bpc
    BY <1>6 DEF SpawnChunk
  <2>2. bpc = "spawn" /\ UNCHANGED <<token, count, chunks, out_results, remaining, had_panic, batchStatus>>
    BY <1>6 DEF SpawnChunk
  <2> QED BY <1>3, <2>1, <2>2, MoveInv, Together
<1> QED BY <1>4, <1>5, <1>6

-----------------------------------------------------------------------------
LEMMA Invariant == Spec => []Inv
<1> USE CAbiAssumption
<1>1. Init => Inv
  <2> SUFFICES ASSUME Init PROVE Inv
    OBVIOUS
  <2>1. Parts = {} /\ Left = {} /\ 0..count - 1 = {}
    BY DEF Init, Parts, Left
  <2>2. IsFiniteSet(Parts) /\ Cardinality(Parts) = 0 /\ Cardinality(Left) = 0
    BY <2>1, FS_EmptySet
  <2>3. Status = "ErrNotInitialized"
    BY DEF Init, Status
  <2>4. TaskTypes /\ Told /\ \A p \in Callers : Covered(p)
    BY <2>3 DEF Init, TaskTypes, Told, Covered, Batch
  <2>5. BatchTypes
    <3>1. kpc \in [Parts -> {"unspawned", "queued", "run", "count", "unpark", "over"}]
      BY <2>1 DEF Init
    <3>2. UNION {chunks[c] : c \in Parts} = 0..count - 1
      BY <2>1
    <3>3. out_results \in [0..count - 1 -> {"unset", "value", "null"}]
      BY DEF Init
    <3>4. remaining \in 0..Cardinality(Parts)
      BY <2>2 DEF Init
    <3>5. had_panic \in BOOLEAN /\ batchStatus \in {None, "Ok", "ErrPanic"}
      BY DEF Init
    <3>6. bpc \in {"none", "spawn", "check", "park", "read", "returned"}
      BY DEF Init
    <3> QED BY <3>1, <3>2, <3>3, <3>4, <3>5, <3>6 DEF BatchTypes
  <2>6. Cuts /\ Counted /\ Written /\ Flagged /\ Phases
    BY <2>1, <2>2 DEF Init, Cuts, Counted, Written, Flagged, Phases
  <2> QED BY <2>4, <2>5, <2>6, Halves DEF Inv, TaskInv, BatchInv
<1>2. Inv /\ [Next]_vars => Inv'
  <2> SUFFICES ASSUME Inv, [Next]_vars PROVE Inv'
    OBVIOUS
  <2>1. CASE TaskStep
    BY <2>1, TaskStepInv, DrainInv, UnparkInv DEF TaskStep
  <2>2. CASE CallBatch
    BY <2>2, CallBatchInv
  <2>3. CASE BatchStep \/ SpuriousBatch
    <3>1. ASSUME SpawnChunk, kpc' # kpc PROVE Inv'
      <4>1. Parts # {}
        BY <3>1 DEF SpawnChunk
      <4> QED BY <3>1, <4>1, ChunkInv
    <3> QED BY <2>3, <3>1, CallerInv DEF BatchStep
  <2>4. ASSUME NEW c \in Parts, ChunkStep(c) PROVE Inv'
    BY <2>4, ChunkInv, RunItemsInv, CountDownInv DEF ChunkStep
  <2>5. ASSUME NEW p \in Callers, Poll(p) \/ Wait(p) \/ WaitStep(p) \/ Spurious(p) PROVE Inv'
    BY <2>5, WaitStepInv, AnswerInv DEF WaitStep
  <2>6. CASE Destroy
    BY <2>6, DestroyInv
  <2>7. CASE UNCHANGED vars
    <3>1. /\ UNCHANGED <<waitVars, taskVars, token, batchVars>>
      BY <2>7 DEF vars
    <3>2. token' \subseteq Callers \cup {Batch}
      BY <3>1 DEF Inv, TypeOK, Batch
    <3> QED BY <3>1, <3>2, BatchStandsStill, TaskStandsStill, Together
  <2> QED BY <2>1, <2>2, <2>3, <2>4, <2>5, <2>6, <2>7 DEF Next
<1> QED BY <1>1, <1>2, PTL DEF Spec

\* Calls, waits, batches and their chunks leave every variable in its type.
THEOREM AbiTyped == Spec => []TypeOK
<1>1. Inv => TypeOK
  BY DEF Inv
<1> QED BY <1>1, Invariant, PTL

\* Every thread that polls or waits is told the same outcome, and a real one:
\* the closure stores the result before it sets `done`.
THEOREM OneAnswer == Spec => []AnswersAgree
<1>1. Inv => AnswersAgree
  <2> SUFFICES ASSUME Inv PROVE AnswersAgree
    OBVIOUS
  <2>1. TypeOK /\ Told
    BY DEF Inv, TaskInv
  <2>2. CASE result = None
    <3>1. tpc \in {"queued", "work"} /\ ~done
      BY <2>1, <2>2 DEF Told
    <3>2. \A p \in Callers : answers[p] = {}
      BY <2>1, <3>1 DEF Told
    <3> QED BY <3>2 DEF AnswersAgree
  <2>3. CASE result # None
    <3>1. Status \in {"Ok", "ErrPanic"}
      BY <2>1, <2>3, StatusFacts DEF TypeOK
    <3>2. \A p \in Callers : answers[p] \subseteq {Status}
      BY <2>1 DEF Told
    <3> QED BY <3>1, <3>2 DEF AnswersAgree
  <2> QED BY <2>2, <2>3
<1> QED BY <1>1, Invariant, PTL

\* A parked thread has a wake-up on its way to it, in hypertile_wait and in
\* hypertile_batch_spawn.
THEOREM NoLostUnpark == Spec => []ParkedCovered
<1>1. Inv => ParkedCovered
  <2> SUFFICES ASSUME Inv PROVE ParkedCovered
    OBVIOUS
  <2>1. /\ \A p \in Callers : Covered(p)
        /\ Counted /\ Phases
    BY DEF Inv, TaskInv, BatchInv
  <2>2. ASSUME bpc = "park"
        PROVE  Left = {c \in Parts : kpc[c] \in {"queued", "run", "count"}}
    BY <2>1, <2>2 DEF Phases, Left
  <2>3. remaining \in Nat
    BY LeftFacts DEF Inv, BatchInv, Counted
  <2> QED BY <2>1, <2>2, <2>3 DEF ParkedCovered, Covered, Counted, Phases
<1> QED BY <1>1, Invariant, PTL

\* When hypertile_batch_spawn returns, every item was written, no chunk will
\* touch the arrays again, and the status says whether an item panicked.
THEOREM BatchKeepsPromise == Spec => []BatchHonest
<1>1. Inv => BatchHonest
  <2> SUFFICES ASSUME Inv, bpc = "returned"
               PROVE  /\ \A i \in 0..count - 1 : out_results[i] # "unset"
                      /\ \A c \in Parts : kpc[c] \in {"unpark", "over"}
                      /\ batchStatus = "ErrPanic" <=> \E i \in 0..count - 1 : out_results[i] = "null"
    BY DEF BatchHonest
  <2>1. TypeOK /\ Cuts /\ Counted /\ Written /\ Flagged /\ Phases
    BY DEF Inv, BatchInv
  <2>2. Left = {}
    BY <2>1, LeftFacts DEF Phases, Counted
  <2>3. \A c \in Parts : kpc[c] \in {"unpark", "over"}
    BY <2>1, <2>2 DEF Left, TypeOK
  <2>4. \A i \in 0..count - 1 : out_results[i] # "unset"
    BY <2>1, <2>3 DEF Cuts, Written
  <2>5. batchStatus = "ErrPanic" <=> had_panic
    BY <2>1 DEF Phases
  <2> QED BY <2>1, <2>3, <2>4, <2>5 DEF Flagged
<1> QED BY <1>1, Invariant, PTL
=============================================================================
