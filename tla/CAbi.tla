--------------------------------- MODULE CAbi ---------------------------------
(***************************************************************************)
(* The C ABI's tasks (src/hypertile-capi/src/lib.rs): one made by          *)
(* hypertile_spawn, which foreign threads poll, wait for and destroy, or   *)
(* by hypertile_spawn_with_callback, which leaves them nothing to hold.    *)
(* Its work function may itself call hypertile_batch_spawn, so that a      *)
(* worker of the pool blocks until other workers have run the chunks.  A   *)
(* Parker is a token: unpark leaves one, park takes it, and park may also  *)
(* return without one.                                                     *)
(*                                                                         *)
(* A name with a mutation comment is a plausible mistake in the operator   *)
(* that follows it; no action uses it.                                     *)
(***************************************************************************)
EXTENDS Chunking, FiniteSets

CONSTANTS Callers,   \* foreign threads that hold the task pointer
          Workers,   \* threads of the pool
          Counts,    \* values of count for hypertile_batch_spawn
          PoolSizes, \* values active_count() may have: not all may be registered
          None

ASSUME CAbiAssumption ==
    /\ Workers \in Nat
    /\ Counts \subseteq Nat \ {0}
    /\ PoolSizes \subseteq 0..Workers
    /\ None \notin Callers \cup {"value", "panic", "Ok", "ErrPanic"}

VARIABLES
    callback,    \* was the task made by hypertile_spawn_with_callback?
    result,      \* the result slot: None, "value" or "panic"
    done,        \* the AtomicBool
    unparkers,   \* whose Unparker is registered with the task
    destroyed,   \* has the handle been freed, if there ever was one?
    tpc,         \* where the closure the pool runs is
    toUnpark,    \* the Unparkers it took from the list
    cpc,         \* where each foreign thread is
    answers,     \* what each was told, apart from an early Pending
    token,       \* parkers with a token: a caller's, or None for the batch's
    count, chunks,   \* items of the batch, and the items of each chunk
    out_results,     \* the array the chunks write
    remaining,       \* chunks that have not finished
    had_panic,
    kpc,             \* where each chunk is
    bpc,             \* where hypertile_batch_spawn is
    batchStatus      \* what it returned

waitVars  == <<unparkers, destroyed, cpc, answers>>
taskVars  == <<callback, result, done, tpc, toUnpark>>
batchVars == <<count, chunks, out_results, remaining, had_panic, kpc, bpc,
               batchStatus>>
vars == <<waitVars, taskVars, token, batchVars>>

Batch == None            \* names the parker of hypertile_batch_spawn

\* How a batch of n items is cut when active_count() is w.
Cut(n, w) == [c \in Chunks(n, w) |-> Items(c, ChunkSize(n, w), n)]
Parts == DOMAIN chunks

TypeOK ==
    /\ callback \in BOOLEAN
    /\ result \in {None, "value", "panic"}
    /\ done \in BOOLEAN
    /\ unparkers \subseteq Callers
    /\ destroyed \in BOOLEAN
    /\ tpc \in {"queued", "work", "callback", "done", "drain", "unpark",
                "over"}
    /\ toUnpark \subseteq Callers
    /\ cpc \in [Callers -> {"ready", "register", "check", "park", "answer"}]
    /\ answers \in [Callers -> SUBSET {"Ok", "ErrPanic", "ErrNotInitialized"}]
    /\ token \subseteq Callers \cup {Batch}
    /\ UNION {chunks[c] : c \in Parts} = 0..count - 1
    /\ out_results \in [0..count - 1 -> {"unset", "value", "null"}]
    /\ remaining \in 0..Cardinality(Parts)
    /\ had_panic \in BOOLEAN
    /\ kpc \in [Parts -> {"unspawned", "queued", "run", "count", "unpark",
                          "over"}]
    /\ bpc \in {"none", "spawn", "check", "park", "read", "returned"}
    /\ batchStatus \in {None, "Ok", "ErrPanic"}

\* hypertile_spawn has returned the handle and queued the closure, or
\* hypertile_spawn_with_callback has queued its own.
Init ==
    /\ callback \in BOOLEAN
    /\ result = None
    /\ done = FALSE
    /\ unparkers = {}
    /\ destroyed = callback
    /\ tpc = "queued"
    /\ toUnpark = {}
    /\ cpc = [p \in Callers |-> "ready"]
    /\ answers = [p \in Callers |-> {}]
    /\ token = {}
    /\ count = 0
    /\ chunks = <<>>
    /\ out_results = [i \in 0..-1 |-> "unset"]
    /\ remaining = 0
    /\ had_panic = FALSE
    /\ kpc = <<>>
    /\ bpc = "none"
    /\ batchStatus = None

\* Workers that are inside the closure of the task or of a chunk.
Busy == (IF tpc \in {"queued", "over"} THEN 0 ELSE 1)
          + Cardinality({c \in Parts : kpc[c] \in {"run", "count", "unpark"}})

-----------------------------------------------------------------------------
(* The task's closure on a worker                                          *)

StartTask ==
    /\ tpc = "queued" /\ Busy < Workers
    /\ tpc' = "work"
    /\ UNCHANGED <<waitVars, callback, result, done, toUnpark, token, batchVars>>

StoredOkOnly(r) == IF r = "panic" THEN None ELSE r  \* mutation: a panic is lost
Stored(r) == r

\* The work function returns or panics, and its outcome is put in the slot, or
\* kept for the callback.
FinishWork ==
    /\ tpc = "work" /\ bpc \in {"none", "returned"}
    /\ \E r \in {"value", "panic"} : result' = Stored(r)
    /\ tpc' = IF callback THEN "callback" ELSE "done"
    /\ UNCHANGED <<waitVars, callback, done, toUnpark, token, batchVars>>

\* The callback is handed the result, or NULL for a panic; it runs under a
\* catch_unwind of its own, so its own panic ends nothing else.
CallCallback ==
    /\ tpc = "callback"
    /\ tpc' = "over"
    /\ UNCHANGED <<waitVars, callback, result, done, toUnpark, token, batchVars>>

SetDone ==
    /\ tpc = "done"
    /\ done' = TRUE
    /\ tpc' = "drain"
    /\ UNCHANGED <<waitVars, callback, result, toUnpark, token, batchVars>>

\* mutation: only one waiter is woken
TakeOneUnparker ==
    /\ toUnpark' = IF unparkers = {} THEN {}
                   ELSE {CHOOSE p \in unparkers : TRUE}
    /\ unparkers' = unparkers \ toUnpark'

\* std::mem::take on the list, under its lock
TakeUnparkers == toUnpark' = unparkers /\ unparkers' = {}

Drain ==
    /\ tpc = "drain"
    /\ TakeUnparkers
    /\ tpc' = "unpark"
    /\ UNCHANGED <<destroyed, cpc, answers, callback, result, done, token,
                   batchVars>>

UnparkNext ==
    /\ tpc = "unpark"
    /\ IF toUnpark = {}
         THEN tpc' = "over" /\ UNCHANGED <<toUnpark, token>>
         ELSE /\ \E p \in toUnpark : /\ token' = token \cup {p}
                                     /\ toUnpark' = toUnpark \ {p}
              /\ UNCHANGED tpc
    /\ UNCHANGED <<waitVars, callback, result, done, batchVars>>

-----------------------------------------------------------------------------
(* hypertile_poll, hypertile_wait and hypertile_task_destroy               *)

Status == CASE result = "value" -> "Ok"
            [] result = "panic" -> "ErrPanic"
            [] OTHER            -> "ErrNotInitialized"

Answer(p) == answers' = [answers EXCEPT ![p] = @ \cup {Status}]

\* hypertile_poll: Pending before `done` changes nothing.
Poll(p) ==
    /\ ~destroyed /\ cpc[p] = "ready"
    /\ done
    /\ Answer(p)
    /\ UNCHANGED <<unparkers, destroyed, cpc, taskVars, token, batchVars>>

Goto(p, to) == cpc' = [cpc EXCEPT ![p] = to]

\* hypertile_wait: the fast path, or a Parker of this call's own.
Wait(p) ==
    /\ ~destroyed /\ cpc[p] = "ready"
    /\ Goto(p, IF done THEN "answer" ELSE "register")
    /\ token' = token \ {p}
    /\ UNCHANGED <<unparkers, destroyed, answers, taskVars, batchVars>>

\* Looks at `done` and pushes the Unparker under the lock of the list.
Register(p) ==
    /\ cpc[p] = "register"
    /\ unparkers' = IF done THEN unparkers ELSE unparkers \cup {p}
    /\ Goto(p, "check")
    /\ UNCHANGED <<destroyed, answers, taskVars, token, batchVars>>

Check(p) ==
    /\ cpc[p] = "check"
    /\ Goto(p, IF done THEN "answer" ELSE "park")
    /\ UNCHANGED <<unparkers, destroyed, answers, taskVars, token, batchVars>>

Unparked(p) ==
    /\ cpc[p] = "park" /\ p \in token
    /\ token' = token \ {p}
    /\ Goto(p, "check")
    /\ UNCHANGED <<unparkers, destroyed, answers, taskVars, batchVars>>

\* park returns although nobody unparked.
Spurious(p) ==
    /\ cpc[p] = "park" /\ p \notin token
    /\ Goto(p, "check")
    /\ UNCHANGED <<unparkers, destroyed, answers, taskVars, token, batchVars>>

ReturnFromWait(p) ==
    /\ cpc[p] = "answer"
    /\ Answer(p)
    /\ Goto(p, "ready")
    /\ UNCHANGED <<unparkers, destroyed, taskVars, token, batchVars>>

\* Its contract: nobody uses the pointer any more.  The closure has an Arc of
\* its own, so the task goes on.
Destroy ==
    /\ ~destroyed
    /\ \A p \in Callers : cpc[p] = "ready"
    /\ destroyed' = TRUE
    /\ UNCHANGED <<unparkers, cpc, answers, taskVars, token, batchVars>>

-----------------------------------------------------------------------------
(* hypertile_batch_spawn, called by the task's work function               *)

ExpectedCuts(n, w) == NumChunks(n, w)  \* mutation: empty chunks counted
Expected(n, w) == ActualChunks(n, w)

CallBatch ==
    /\ tpc = "work" /\ bpc = "none"
    /\ \E n \in Counts, w \in PoolSizes :
         /\ count' = n
         /\ chunks' = Cut(n, w)
         /\ kpc' = [c \in Chunks(n, w) |-> "unspawned"]
         /\ out_results' = [i \in 0..n - 1 |-> "unset"]
         /\ remaining' = Expected(n, w)
    /\ bpc' = "spawn"
    /\ UNCHANGED <<waitVars, taskVars, token, had_panic, batchStatus>>

SpawnChunk ==
    /\ bpc = "spawn"
    /\ LET left == {c \in Parts : kpc[c] = "unspawned"} IN
         IF left = {}
           THEN bpc' = "check" /\ UNCHANGED kpc
           ELSE /\ \E c \in left : /\ \A d \in left : c <= d
                                  /\ kpc' = [kpc EXCEPT ![c] = "queued"]
                /\ UNCHANGED bpc
    /\ UNCHANGED <<waitVars, taskVars, token, count, chunks, out_results,
                   remaining, had_panic, batchStatus>>

StartChunk(c) ==
    /\ kpc[c] = "queued" /\ Busy < Workers
    /\ kpc' = [kpc EXCEPT ![c] = "run"]
    /\ UNCHANGED <<waitVars, taskVars, token, count, chunks, out_results,
                   remaining, had_panic, bpc, batchStatus>>

Panicked(c, vals) == \E i \in chunks[c] : vals[i] = "null"

FlagStored(c, vals)   == had_panic \/ Panicked(c, vals)

\* Every item in turn, each under catch_unwind: one that panics is written as
\* NULL and the next one still runs.
RunItems(c) ==
    /\ kpc[c] = "run"
    /\ \E vals \in [chunks[c] -> {"value", "null"}] :
         /\ out_results' = [i \in DOMAIN out_results |->
                              IF i \in chunks[c] THEN vals[i]
                                                 ELSE out_results[i]]
         /\ had_panic' = FlagStored(c, vals)
    /\ kpc' = [kpc EXCEPT ![c] = "count"]
    /\ UNCHANGED <<waitVars, taskVars, token, count, chunks, remaining, bpc,
                   batchStatus>>

CountDown(c) ==
    /\ kpc[c] = "count"
    /\ remaining' = remaining - 1
    /\ kpc' = [kpc EXCEPT ![c] = IF remaining = 1 THEN "unpark" ELSE "over"]
    /\ UNCHANGED <<waitVars, taskVars, token, count, chunks, out_results,
                   had_panic, bpc, batchStatus>>

UnparkBatch(c) ==
    /\ kpc[c] = "unpark"
    /\ token' = token \cup {Batch}
    /\ kpc' = [kpc EXCEPT ![c] = "over"]
    /\ UNCHANGED <<waitVars, taskVars, count, chunks, out_results, remaining,
                   had_panic, bpc, batchStatus>>

CheckBatch ==
    /\ bpc = "check"
    /\ bpc' = IF remaining > 0 THEN "park" ELSE "read"
    /\ UNCHANGED <<waitVars, taskVars, token, count, chunks, out_results,
                   remaining, had_panic, kpc, batchStatus>>

AfterParkOnce == "read"      \* mutation: an `if` in place of the `while`
AfterPark == "check"

ParkBatch ==
    /\ bpc = "park" /\ Batch \in token
    /\ token' = token \ {Batch}
    /\ bpc' = AfterPark
    /\ UNCHANGED <<waitVars, taskVars, count, chunks, out_results, remaining,
                   had_panic, kpc, batchStatus>>

SpuriousBatch ==
    /\ bpc = "park" /\ Batch \notin token
    /\ bpc' = AfterPark
    /\ UNCHANGED <<waitVars, taskVars, token, count, chunks, out_results,
                   remaining, had_panic, kpc, batchStatus>>

ReturnFromBatch ==
    /\ bpc = "read"
    /\ batchStatus' = IF had_panic THEN "ErrPanic" ELSE "Ok"
    /\ bpc' = "returned"
    /\ UNCHANGED <<waitVars, taskVars, token, count, chunks, out_results,
                   remaining, had_panic, kpc>>

-----------------------------------------------------------------------------
TaskStep   == \/ StartTask \/ FinishWork \/ CallCallback
              \/ SetDone \/ Drain \/ UnparkNext
WaitStep(p) == Register(p) \/ Check(p) \/ Unparked(p) \/ ReturnFromWait(p)
BatchStep  == SpawnChunk \/ CheckBatch \/ ParkBatch \/ ReturnFromBatch
ChunkStep(c) == StartChunk(c) \/ RunItems(c) \/ CountDown(c) \/ UnparkBatch(c)

Next ==
    \/ TaskStep \/ CallBatch \/ BatchStep \/ SpuriousBatch
    \/ \E c \in Parts : ChunkStep(c)
    \/ \E p \in Callers : Poll(p) \/ Wait(p) \/ WaitStep(p) \/ Spurious(p)
    \/ Destroy

Spec == Init /\ [][Next]_vars

\* The pool's workers take what is queued whenever one of them is free, and a
\* thread inside a call goes on with it.
Fairness ==
    /\ WF_vars(TaskStep) /\ WF_vars(BatchStep)
    /\ WF_vars(\E c \in Parts : ChunkStep(c))
    /\ \A p \in Callers : WF_vars(WaitStep(p))
FairSpec == Spec /\ Fairness

-----------------------------------------------------------------------------
(* Properties                                                              *)

\* Every answer of hypertile_poll and hypertile_wait, to any thread at any
\* time, is the same one, and none is ErrNotInitialized.
AnswersAgree ==
    \E s \in {"Ok", "ErrPanic"} : \A p \in Callers : answers[p] \subseteq {s}

\* No lost wake-up.  A thread parked in hypertile_wait after `done` was set has
\* a token, or the closure still has its Unparker to fire.  `remaining` counts
\* the chunks that are not over, and the last of them wakes the parked batch.
ParkedCovered ==
    /\ \A p \in Callers : cpc[p] = "park" /\ done =>
         \/ p \in token \cup toUnpark
         \/ p \in unparkers /\ tpc = "drain"
    /\ bpc = "park" =>
         IF remaining > 0
           THEN remaining = Cardinality({c \in Parts :
                              kpc[c] \in {"queued", "run", "count"}})
           ELSE Batch \in token \/ \E c \in Parts : kpc[c] = "unpark"

\* What hypertile_batch_spawn promises on its return: every item was written, no
\* chunk will touch the caller's arrays again, and the status is ErrPanic just
\* if some item panicked, in whichever chunk and however late.
BatchHonest ==
    bpc = "returned" =>
        /\ \A i \in 0..count - 1 : out_results[i] # "unset"
        /\ \A c \in Parts : kpc[c] \in {"unpark", "over"}
        /\ batchStatus = "ErrPanic"
             <=> \E i \in 0..count - 1 : out_results[i] = "null"

\* hypertile_wait returns although the work function may block a worker in a
\* batch of its own (a second worker is enough), and a task whose handle was
\* destroyed, or that has none, still runs to its end, its callback included.
CallsReturn ==
    /\ \A p \in Callers : cpc[p] # "ready" ~> cpc[p] = "ready"
    /\ destroyed ~> tpc = "over"
=============================================================================
