------------------------------ MODULE Awaitable ------------------------------
(***************************************************************************)
(* The awaitable tasks of the Python extension (src/hypertile-sys/src/     *)
(* lib.rs): a batch of items is cut into chunks, the pool runs the chunks, *)
(* the chunk that brings `remaining` to zero drains the callback list, and *)
(* any thread may add a callback, or await the task through an asyncio     *)
(* future, at any moment.  NativeTask and CallableTask, which store their  *)
(* result and then set `done`, are a batch of one item.                    *)
(*                                                                         *)
(* Threads interleave as on a free-threaded interpreter; with the GIL the  *)
(* sections that hold it are coarser, so its behaviours are among these.   *)
(*                                                                         *)
(* A name with a mutation comment is a plausible mistake in the operator   *)
(* that follows it; no action uses it.                                     *)
(***************************************************************************)
EXTENDS Chunking, FiniteSets

CONSTANTS Totals,    \* sizes of batch
          MaxItems,  \* bound of the sizes
          PoolSizes, \* values active_count() may have when the batch is cut
          Callers,   \* threads that register one callback each
          None

AllChunks == 0..MaxItems - 1       \* no batch has more chunks than items

ASSUME AwaitableAssumption ==
    /\ MaxItems \in Nat /\ Totals \subseteq 0..MaxItems
    /\ PoolSizes \subseteq Nat
    /\ Callers \cap AllChunks = {}
    /\ None \notin Callers \cup AllChunks /\ None \notin {"value", "error"}

VARIABLES
    total,           \* items in this batch
    chunks,          \* the items of each chunk, fixed before any is spawned
    sent,            \* chunks spawned so far
    results,         \* the results vector, an item at a time
    panic_error,     \* chunk whose panic message is kept, or None
    remaining,       \* the AtomicUsize; `done` is remaining = 0
    callbacks,       \* the Vec of callbacks, by the caller that pushed each
    lock,            \* the caller inside add_completion_callback's lock
    cpc, rpc,        \* where each chunk, and each caller, is
    toCall,          \* callbacks a chunk or a caller took and has yet to call
    calls,           \* how often each callback was called
    fut,             \* the asyncio future of each caller
    scheduled        \* what call_soon_threadsafe will set it to

batchVars == <<total, chunks, sent, results, panic_error, remaining, cpc>>
vars == <<batchVars, callbacks, lock, rpc, toCall, calls, fut, scheduled>>

Parts == DOMAIN chunks

\* How a batch of n items is cut when active_count() is w.
Cut(n, w) == [c \in LoopChunks(n, w) |-> Items(c, ChunkSize(n, w), n)]

Done == remaining = 0

\* result() of a task that is done: an exception, or the list of the results.
Errors == {i \in DOMAIN results : results[i] = "error"}
Result == IF panic_error # None THEN <<"panic", panic_error>>
          ELSE IF Errors # {}
          THEN <<"error", CHOOSE i \in Errors : \A j \in Errors : i <= j>>
          ELSE <<"list", results>>

TypeOK ==
    /\ total \in Totals
    /\ UNION {chunks[c] : c \in Parts} = 0..total - 1
    /\ sent \in 0..Cardinality(Parts)
    /\ results \in [0..total - 1 -> {"value", "error", None}]
    /\ panic_error \in Parts \cup {None}
    /\ remaining \in 0..total
    /\ callbacks \subseteq Callers
    /\ lock \in Callers \cup {None}
    /\ cpc \in [AllChunks -> {"run", "count", "drain", "calling"}]
    /\ rpc \in [Callers -> {"idle", "recheck", "calling", "added"}]
    /\ toCall \in [AllChunks \cup Callers -> SUBSET Callers]
    /\ calls \in [Callers -> Nat]
    /\ fut \in [Callers -> {"none", "pending", "done", "cancelled"}]
    /\ DOMAIN scheduled = Callers
    /\ \A r \in Callers :
         scheduled[r] = None \/ scheduled[r][1] \in {"panic", "error", "list"}

\* The batch object, before its first chunk is spawned; an empty batch is
\* returned as it is.
Init ==
    /\ total \in Totals
    /\ \E w \in PoolSizes : chunks = Cut(total, w)
    /\ sent = 0
    /\ results = [i \in 0..total - 1 |-> None]
    /\ panic_error = None
    /\ remaining = total
    /\ callbacks = {}
    /\ lock = None
    /\ cpc = [c \in AllChunks |-> "run"]
    /\ rpc = [r \in Callers |-> "idle"]
    /\ toCall = [x \in AllChunks \cup Callers |-> {}]
    /\ calls = [r \in Callers |-> 0]
    /\ fut = [r \in Callers |-> "none"]
    /\ scheduled = [r \in Callers |-> None]

-----------------------------------------------------------------------------
(* The spawning function and the chunks                                    *)

SpawnChunk ==
    /\ sent < Cardinality(Parts)
    /\ sent' = sent + 1
    /\ UNCHANGED <<total, chunks, results, panic_error, remaining, cpc,
                   callbacks, lock, rpc, toCall, calls, fut, scheduled>>

Spawned == {c \in Parts : c < sent}
Returned == sent = Cardinality(Parts)

\* mutation: an item that raised ends its chunk, whose results are then short
StoreUpToError(c, vals) ==
    /\ results' = [i \in DOMAIN results |->
                     IF i \in chunks[c] /\ \A j \in chunks[c] :
                                              j < i => vals[j] # "error"
                       THEN vals[i] ELSE results[i]]
    /\ UNCHANGED panic_error

\* Each item's outcome goes to its own place in the vector.
StoreResults(c, vals) ==
    /\ results' = [i \in DOMAIN results |->
                     IF i \in chunks[c] THEN vals[i] ELSE results[i]]
    /\ UNCHANGED panic_error

\* A panic anywhere in the chunk drops all of the chunk's results.
StorePanic(c) == panic_error' = c /\ UNCHANGED results

\* mutation: the code after the loop is not reached when an item panics
AfterRunOfOk(c) == IF panic_error' = c THEN "calling" ELSE "count"
AfterRun(c) == "count"

\* catch_unwind around the loop over the items, then the result is stored.
RunChunk(c) ==
    /\ c \in Spawned /\ cpc[c] = "run"
    /\ \/ \E vals \in [chunks[c] -> {"value", "error"}] : StoreResults(c, vals)
       \/ StorePanic(c)
    /\ cpc' = [cpc EXCEPT ![c] = AfterRun(c)]
    /\ UNCHANGED <<total, chunks, sent, remaining, callbacks, lock, rpc,
                   toCall, calls, fut, scheduled>>

Count(c) == Cardinality(chunks[c])

IsOne(c)  == remaining = 1          \* mutation: chunks are counted, not items
IsAny(c)  == remaining >= Count(c)  \* mutation: any chunk takes itself for last
IsLast(c) == remaining = Count(c)

\* fetch_sub: the chunk that finds exactly its own count left is the last.
CountDown(c) ==
    /\ cpc[c] = "count"
    /\ remaining' = remaining - Count(c)
    /\ cpc' = [cpc EXCEPT ![c] = IF IsLast(c) THEN "drain" ELSE "calling"]
    /\ UNCHANGED <<total, chunks, sent, results, panic_error, callbacks, lock,
                   rpc, toCall, calls, fut, scheduled>>

\* mutation: the list is read but not emptied
CopyCallbacks(x) ==
    /\ toCall' = [toCall EXCEPT ![x] = callbacks]
    /\ UNCHANGED callbacks

\* std::mem::take
TakeCallbacks(x) ==
    /\ toCall' = [toCall EXCEPT ![x] = callbacks]
    /\ callbacks' = {}

DrainCallbacks(c) ==
    /\ cpc[c] = "drain" /\ lock = None
    /\ TakeCallbacks(c)
    /\ cpc' = [cpc EXCEPT ![c] = "calling"]
    /\ UNCHANGED <<total, chunks, sent, results, panic_error, remaining, lock,
                   rpc, calls, fut, scheduled>>

-----------------------------------------------------------------------------
(* add_completion_callback, and __await__ which calls it                   *)

\* Takes the lock, looks at `done`, and either leaves to call the callback at
\* once or pushes it and goes on holding the lock.
AddCallback(r) ==
    /\ Returned
    /\ rpc[r] = "idle" /\ lock = None
    /\ fut' = [fut EXCEPT ![r] = "pending"]
    /\ IF Done
         THEN /\ toCall' = [toCall EXCEPT ![r] = {r}]
              /\ rpc' = [rpc EXCEPT ![r] = "calling"]
              /\ UNCHANGED <<callbacks, lock>>
         ELSE /\ callbacks' = callbacks \cup {r}
              /\ lock' = r
              /\ rpc' = [rpc EXCEPT ![r] = "recheck"]
              /\ UNCHANGED toCall
    /\ UNCHANGED <<batchVars, calls, scheduled>>

\* Looks again, still under the lock, and takes the whole list if it is done.
Recheck(r) ==
    /\ rpc[r] = "recheck"
    /\ lock' = None
    /\ IF Done
         THEN TakeCallbacks(r) /\ rpc' = [rpc EXCEPT ![r] = "calling"]
         ELSE /\ rpc' = [rpc EXCEPT ![r] = "added"]
              /\ UNCHANGED <<callbacks, toCall>>
    /\ UNCHANGED <<batchVars, calls, fut, scheduled>>

Outcome == IF Done THEN Result ELSE <<"error", "not completed">>

\* call_soon_threadsafe with set_result, or set_exception if result() raised
HandOutcome(r) == scheduled' = [scheduled EXCEPT ![r] = Outcome]

\* The closure bridge_task_await registers does nothing for a cancelled future.
CallCallback(x, r) ==
    /\ r \in toCall[x]
    /\ toCall' = [toCall EXCEPT ![x] = @ \ {r}]
    /\ calls' = [calls EXCEPT ![r] = @ + 1]
    /\ IF fut[r] = "cancelled" THEN UNCHANGED scheduled ELSE HandOutcome(r)
    /\ UNCHANGED <<batchVars, callbacks, lock, rpc, fut>>

-----------------------------------------------------------------------------
(* The event loop of the awaiting coroutine                                *)

\* set_result, set_exception; on a future cancelled since they were scheduled
\* they raise InvalidStateError, which the loop only logs.
SetFuture(r) ==
    /\ scheduled[r] # None
    /\ scheduled' = [scheduled EXCEPT ![r] = None]
    /\ fut' = IF fut[r] = "pending" THEN [fut EXCEPT ![r] = "done"] ELSE fut
    /\ UNCHANGED <<batchVars, callbacks, lock, rpc, toCall, calls>>

CancelFuture(r) ==
    /\ fut[r] = "pending"
    /\ fut' = [fut EXCEPT ![r] = "cancelled"]
    /\ UNCHANGED <<batchVars, callbacks, lock, rpc, toCall, calls, scheduled>>

-----------------------------------------------------------------------------
ChunkStep(c) ==
    \/ RunChunk(c) \/ CountDown(c) \/ DrainCallbacks(c)
    \/ \E r \in Callers : CallCallback(c, r)
CallerStep(r) == Recheck(r) \/ \E s \in Callers : CallCallback(r, s)

Next ==
    \/ SpawnChunk
    \/ \E c \in AllChunks : ChunkStep(c)
    \/ \E r \in Callers : \/ AddCallback(r) \/ CallerStep(r)
                          \/ SetFuture(r) \/ CancelFuture(r)

Spec == Init /\ [][Next]_vars

\* The pool runs every chunk it was given, a thread that entered a call goes
\* on with it, and the event loop runs what was scheduled on it.
Fairness ==
    /\ WF_vars(SpawnChunk)
    /\ \A c \in AllChunks : WF_vars(ChunkStep(c))
    /\ \A r \in Callers : WF_vars(CallerStep(r)) /\ WF_vars(SetFuture(r))
FairSpec == Spec /\ Fairness

-----------------------------------------------------------------------------
(* Properties                                                              *)

\* add_completion_callback against the draining chunk: no callback is called
\* twice, and none is in two lists that will be called.
CallbackOnce ==
    \A r \in Callers :
        calls[r] + Cardinality({x \in DOMAIN toCall : r \in toCall[x]})
          + (IF r \in callbacks THEN 1 ELSE 0) <= 1

\* `remaining` counts the items of the chunks that have not been counted yet,
\* so fetch_sub never goes below zero and only the last one finds it equal to
\* its own count; and result(), which pads missing items with Python's None,
\* finds none missing unless a chunk panicked.
Accounted ==
    /\ remaining = Cardinality({i \in 0..total - 1 :
         \E c \in Parts : i \in chunks[c] /\ cpc[c] \in {"run", "count"}})
    /\ Done /\ panic_error = None => \A i \in 0..total - 1 : results[i] # None

\* A callback is handed the task's result and never "task not completed", and
\* what it was handed is still the result when the event loop delivers it.
CallbackSeesResult ==
    \A r \in Callers : scheduled[r] # None => Done /\ scheduled[r] = Result

\* No awaiter is forgotten: as long as its future is pending, its callback is
\* in the list and some chunk or caller will take the list, or it was taken and
\* will be called, or the event loop has the result.
AwaiterKept ==
    \A r \in Callers : fut[r] = "pending" =>
        \/ /\ r \in callbacks
           /\ ~Done \/ lock # None \/ \E c \in AllChunks : cpc[c] = "drain"
        \/ \E x \in AllChunks \cup Callers : r \in toCall[x]
        \/ Done /\ scheduled[r] = Result

\* No awaiter hangs: a callback that was added is called, whether the task was
\* done before, completed during, or panicked after the registration, and the
\* future of __await__ ends, so that the awaiting coroutine is resumed.
AwaiterServed ==
    \A r \in Callers :
        rpc[r] # "idle" ~> calls[r] = 1 /\ fut[r] \in {"done", "cancelled"}
=============================================================================
