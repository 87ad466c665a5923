# Hypertile in TLA+

Hypertile is a work-stealing task runtime in Rust (`hypertile-core`) with a C interface
(`hypertile-capi`) and a Python extension (`hypertile-sys`, `python/hypertile`). This directory
models its concurrent core and the interfaces built on it, checks them with TLC on small instances,
and proves with TLAPS, for any number of threads, every safety property that the passing runs check.
Paths below are relative to `src/`.

Contents: 1 the system, 2 the modules, 3 the runs, 4 fairness, 5 what the runs found, 6 the proofs,
7 abstractions, 8 what is not modelled, 9 what could come next.

## 1. The system

| Part | Source | State | Operations |
|---|---|---|---|
| Task cell, JoinHandle | `hypertile-core/src/task.rs` | state byte, future slot, result slot, join waker | wake, `run`, complete, `cancel`, `JoinHandle::poll` |
| Executor and workers | `executor.rs`, `worker.rs`, `waker.rs`, `registration.rs` | injector, a FIFO deque for each worker, registry, idle stack, parkers, `running` | inject, find/steal, park/unpark, register, deregister, shutdown |
| Timer | `timer.rs` | heap, waker slot for each sleep, driver thread, shutdown flag | `Sleep::poll`, drop, driver loop, `shutdown_timer` |
| Global runtime | `runtime.rs` | `OnceLock`, worker threads' JoinHandles | configure/init, `shutdown`, `shutdown_with_timeout`, `block_on` |
| C ABI | `hypertile-capi/src/lib.rs` | `done`, result, list of Unparkers; batch arrays and counter; thread-local worker | spawn, poll, wait, destroy, batch, callback, worker calls |
| Python awaitables | `hypertile-sys/src/lib.rs` | `done`/`remaining`, results, callback list, asyncio future | spawn, batch, add_done_callback, `__await__` |
| Python coroutines | `hypertile-sys/src/bilingual.rs`, `cancel.rs`, `lib.rs` | coroutine mutex, interpreter lock, `pending_value`, token | step, hook, wake, cancel, `run_level1` |
| asyncio executor | `python/hypertile/asyncio_policy.py` | `_shutdown`, `_pending`, futures and their callbacks | submit, cancel, shutdown |
| Signals, facade | `python/hypertile/signals.py`, `__init__.py` | list of tokens | cancel all |

**How they interact.** A waker marks a task SCHEDULED and injects its handle; a worker takes the
handle and calls `TaskCell::run`; completion wakes the joiner, whose waker injects another task.
`Sleep` gives wakers to the timer thread, which calls them. The C and Python layers put closures
into the pool and wait for them outside it: with a Parker, with callbacks into an asyncio loop, or
by having a future's callback inject the coroutine again. The global runtime owns the workers and
stops both them and the timer.

**What is hard.** Nothing is persisted and nothing crosses a network, so crashes and lost messages
play no part. The difficulty is in interleavings of atomics and short critical sections: lost
wake-ups (task against waker, worker against injector, joiner against completion, callback against
the last chunk, sleep against driver), cancellation or panics half-way, worker registration coming
and going while thieves hold old views, and shutdown from any thread at any time. `PROJECT.json`
lists each hazard at its line with the property that would catch it.

**What makes each part correct.** A task is polled by one thread at a time, no wake is lost, it ends
once and its joiner learns how. The pool runs each handle it is given exactly once and leaves none
where nobody looks. A sleep ends at its deadline. One runtime exists, and shutting it down returns.
A C or Python caller hears of the completion exactly once, with the right result, and never hangs.

## 2. The modules

| Module | Models | Extends |
|---|---|---|
| `JoinOutcome` | what a JoinHandle promises: one decision, delivered once | |
| `TaskCell` | `task.rs`, one action per atomic access or critical section | instantiates `JoinOutcome`, `TaskPool` |
| `TaskPool` | what the pool promises: a submitted handle is queued until one worker takes it | |
| `Pool` | executor, registry, worker loop, registration | instantiates `TaskPool` |
| `Timer` | timer driver and `Sleep` | |
| `GlobalRuntime` | creation, configuration and shutdown of the process-wide pool | |
| `Chunking` | the chunk arithmetic shared by the C and Python batch functions | |
| `CAbi` | a C task that foreign threads wait for and that may call the batch function | `Chunking` |
| `Awaitable` | Python batches and single tasks, callbacks, asyncio futures | `Chunking` |
| `PyCoroutine` | a Python coroutine stepped by the pool, and `run_level1` waiting for it | |
| `AsyncioExecutor` | `HypertileAsyncioExecutor`, its futures and the jobs behind them | |
| `TaskCellProofs`, `PoolProofs`, `TimerProofs`, `GlobalRuntimeProofs`, `CAbiProofs`, `AwaitableProofs`, `ChunkingProofs` | theorems | the module each is about |
| `PythonProofs` | theorems about the two Python modules above | `PyCoroutine`, `AsyncioExecutor` |
| `MC*` | the small instances for TLC | the module each is about |

`TaskCell` implements `JoinOutcome` with `outcome <- verdict`, where `verdict` is set by the swap
that makes the state COMPLETED. `Pool` implements `TaskPool` with `queued` the handles in the
injector and the deques and `active` those held by a thread. A handle in `Pool` is a value that may
be submitted again after it ran, which is what `TaskCell` does to it. So the two meet in `TaskPool`:
`Pool` implements it, and `TaskCell` keeps to it (`UsesPool`: each step of a task's wakers and
runners, seen from the queues, is a step of `TaskPool` with one handle or no step at all), which is
the guard `~Queued(task) /\ ~Active(task)` of `Pool`'s `Inject`. The C and Python modules use the
pool by its promise: a queued closure is started by some free worker.

**TaskCell.** `state`, `future`, `result`, `join_waker` are the fields of the cell; `queued` counts
the handles in the pool's queues, `pc` says where each thread is in `mark_scheduled`, `run`,
`complete` or `cancel`, `out` what it is about to publish. `jpc` and `holder` describe the
JoinHandle and the task that polls it. `owed` is a history variable: a wake without a poll after it.
`Claim` is the compare-exchange loop at the top of `run`, `Take`/`PollEnds`/`PollPending` the poll
outside the lock, `PutBack`/`Settle` the second critical section, `Complete`/`Publish`/`HandOff`
the swap under the result mutex, the stored result, and the joiner's wake-up. The result mutex is
held from `Complete` to `Publish` and from `JoinTake` to the end of `JoinHandle::poll`.
`JoinResume` is the next poll once the stored waker fired: by the executor for a task, and in
`block_on` by the thread that the waker unparks.

**Pool.** `deque[i]` belongs to worker id `i`, `tls[t]` is the id whose deque thread `t` owns,
`workers` the registered ids (the registry and its cache of stealers), `idle` the stack of parked
workers, `token` their parkers. `pc` follows `run_loop` step by step: tick, local deque, injector,
peers, spin, mark idle, double-check, park, unmark. `Inject` and `Requeue` are `inject` from the
application, from a waker inside a task and from a task woken while it ran; `Notify` and `Deliver`
are `unpark_one_idle`; `Register`, `Flush`, `Install`, `DropGuard`, `Gone` are `WorkerHandle::new`
and the guard's drop. `MoveSpec` adds that a RegisteredWorker may be sent to another thread. The C
functions `hypertile_register_worker`, `..._run_until_idle` and `..._deregister` keep a
RegisteredWorker in a thread-local and are `Register`, `Call` and `DropGuard` here; registering
again before deregistering is the nested registration of this module.

**Timer.** `PollClock`, `PollStore` and `PollRegister` are the three steps of `Sleep::poll`;
`Scan`, `Wake`, `Arm` and `WaitTimeout` the driver's loop, split where its mutex is released.
`Slack` is the 50 microseconds by which `poll` calls a sleep over early. `MoveSpec` adds that a
pending sleep is moved to another task.

**GlobalRuntime.** Pools are named by the thread that created them, because a thread creates at most
one; a candidate that loses the race is shut down by its drop. `Actors` are outside threads and
workers inside a task, all of which may shut down. Workers start, register, run tasks of the
published pool only, and exit when they see the flag. `handles` are the JoinHandles a pool still
owns, `toJoin` those a shutdown has taken, `detached` those a worker dropped because they were its
own. `shutdown_with_timeout` is `ShutdownWithTimeout` and `ReturnAlive` if it finds a runtime and
`FindNone` if there is none, or none yet. `zero` remembers which of them returned 0: "early" before
there was a runtime, or "counted" from `active_count()`. The size of a pool is what the caller asked for, or HYPERTILE_WORKERS (`Env`), or the policy of
`worker_count_for_cores`.

**CAbi.** One task, whose closure stores its result, sets `done`, takes the list of Unparkers and
fires them; foreign threads poll, wait and finally destroy. Each call of `hypertile_wait` has a
Parker of its own, so its token is reset. The work function may call `hypertile_batch_spawn`, whose
chunks need a worker each while the caller holds one. The C header lets any thread call the batch
function; here only the task does, which is the harder case. A task made by
`hypertile_spawn_with_callback` (`callback`) has no handle: it stores nothing anyone polls and calls
its callback instead.

**Awaitable.** `remaining` is the atomic counter, `callbacks` the list, `lock` the thread inside
`add_completion_callback`; `toCall` are the callbacks taken from the list and not yet called.
`fut` and `scheduled` are the asyncio future of `__await__` and what was handed to
`call_soon_threadsafe`. Items may raise and chunks may panic; native items cannot raise, so the
single kinds and the native kind have some of these behaviours only.

**PyCoroutine.** `lock` is the coroutine mutex held during a step; a step ends the coroutine, queues
it again (`yield None`), or hooks `wake_fn` into what it yielded, which may be pending or done
and completes at any moment. `kind` says what that is: a "future" has `exception()` and passes
itself to `wake_fn`; a "task", as those of the extension, lacks the one or does not do the other, and
`wake_fn` asks it for `result()` only. `wake_fn` stores what it learns (`Carried`) and then injects,
in the hooking thread or in the one that completes futures. `gil` is the interpreter lock, `NoGil`
on a free-threaded build: a thread needs it for every step of Python code, may lose it inside such
code (`GiveUpGil`), and keeps it while it waits for a Rust mutex. `main` is the thread in `run_level1`.

**AsyncioExecutor.** Callers are threads inside `submit`, `cancel` or `shutdown`, without a lock
between them; `pendingSet` is `_pending`, `hookedSet` the futures with `_cleanup` among their callbacks,
`job` and `watched` the callable in the pool and whether its end resolves the future. Each call of
`submit` may find that `spawn_callable`, or its import, raises; then a daemon thread does both
(`Spawn`). A Future changes its state in one step and calls its callbacks in a later one.

## 3. The runs

| Run | Configuration | Bounds | Shows |
|---|---|---|---|
| `taskcell` | `MCTaskCell` | 3 threads, 2 joiners | one handle as the pool wants it (`UsesPool`), no lost wake, one poller, the future is where the runner looks and is released, the join race, `ImplementsJoin`; wakes and joiners are served |
| `taskcell_stale` | `MCTaskCellStale` | 2 threads, 1 joiner, cloned handles | finding, see section 5 |
| `pool` | `MCPool` | 2 tasks, 1 background and 1 caller thread, 3 ids | idle stack, unparks, reachability of tasks, stale guards, `ImplementsPool`; tasks are run, shutdown stops the workers |
| `pool_moved` | `MCPoolMoved` | 2 callers, 2 ids | finding |
| `timer` | `MCTimer` | 2 sleeps, 2 tasks, time 0..4, `Slack` 1 | sleeps stay armed, the driver never oversleeps, sleeps end, the driver stops |
| `timer_moved` | `MCTimerMoved` | 1 sleep, 2 tasks | finding |
| `awaitable` | `MCAwaitable` | 2 callers; batches of 0, 1, 2, 5 items | callbacks once, the count of items, the right result, no pending awaiter left to nobody, no awaiter hangs |
| `cabi` | `MCCAbi` | 2 callers, 2 workers; batches of 1 and 5 | one answer, no lost unpark, honest batches, calls return |
| `runtime` | `MCGlobalRuntime` | 2 callers, pools of 1 or 2 | one runtime survives, quiet after a shutdown that counted it down to 0, no thread lost track of, no joins in a circle, calls return |
| `coroutine` | `MCPyCoroutine` | 2 workers, 4 steps, with and without an interpreter lock | exactly one wake-up per step while the coroutine lives, nothing stale, no result and no future's exception lost; the done callback is called unless two workers block each other |
| `coroutine_gil` | `MCPyCoroutineGil` | 2 workers, 2 steps | finding |
| `executor` | `MCAsyncioExecutor` | 2 callers, 2 futures, each in the pool or in a fallback thread | `_pending` is exact, shutdown waits for what it should, futures are resolved, shutdown returns |

**Why the bounds are enough.** Three threads let one poll a task while a second wakes and a third
cancels it; a fourth could only repeat one of those. Two joiners are what moving a JoinHandle needs.
In the pool, two tasks are what a deque must hold for a steal to leave something behind, and three
ids let the caller register twice, one registration inside the other, while the background worker
parks. `TickPeriod` (64 in the code) and `BatchMax` (16) are 1, so that the injector is looked at
and the drain cut at once; one larger period is what `pool_moved` uses. The run is small because
everything in it but the two liveness properties is proved for every period, batch and number of
threads. `MaxSize` bounds a pool, `MaxWorkers` the ids ever allocated, of which one is kept for each
background thread. Two sleeps let an earlier deadline be registered while the driver waits for a
later one. Five items and one worker are cut into chunks of two, two and one, the shortest uneven
batch; `MaxItems` bounds the items of a batch. `MaxSteps` bounds the steps of a coroutine: four let
it await two futures in a row, yield and return. `MaxTime` bounds the clock, `MaxQueued` the handles
in queues when a clone is made. Two futures let one be submitted, cancelled or finished while a
shutdown waits for the other.

Deadlock is checked in the runs of `TaskCell`, where a task can always be polled again. The other
systems may really stop (everything shut down, finished or destroyed, or a bound reached), so their
configurations say `CHECK_DEADLOCK FALSE`; their liveness properties catch a stop that comes too
early. No symmetry is used, since every passing run checks liveness.

## 4. Fairness

- *TaskCell*: some thread pops queued handles; a thread inside an operation goes on, which includes
  that a future's poll returns; a woken joiner is polled. The result mutex is strongly fair for
  those that wait for it, since a joiner may poll again and again and parking_lot hands its mutexes
  over eventually. Wakes, cancels and spurious polls are never required.
- *Pool*: a thread inside a call runs and its parks time out after 5 ms; threads of `start_workers`
  start. Callers need not call anything. `EventuallyRun` speaks of tasks in the injector or in a
  background worker's deque: a task in the deque of a caller that never calls again waits for a
  thief, and one in an unregistered peer's deque is the business of `Reachable`.
- *Timer*: the clock advances, the driver thread runs, a task whose waker was called is polled.
- *GlobalRuntime*: threads run, and a task ends after any number of calls (strong fairness, because
  a task that shuts down is not at its end while it does).
- *CAbi*, *Awaitable*: the pool runs what it was given whenever a worker is free, a thread inside a
  call goes on, and the event loop runs what was scheduled on it. With one worker
  a batch called from a task would wait for ever (section 5); `Workers = 2` in the run is the
  requirement, not a convenience.
- *PyCoroutine*: a queued task is taken, futures the coroutine awaits complete, their callbacks run,
  and a thread that wants the interpreter lock gets it, however often it changes hands: CPython
  makes a thread that gave the lock up on request wait until another one had it, which is strong
  fairness of the steps that need it. `cancel()` and a signal are never required, and `cancel()`
  wakes no one.
- *AsyncioExecutor*: a thread inside `submit`, `cancel` or `shutdown` goes on, and the pool or the
  fallback thread runs the callable it was given. Nobody need submit, cancel or shut down.

## 5. What the runs found

The first four are differences between what a comment or document says and what the code does, each
shown by a run that TLC ends with a counterexample.

- `taskcell_stale`: with cloned TaskHandles (the race harness runs clones next to the pool) a second
  runner claims a task after a wake during the poll, finds no future and leaves; the poller then
  stores IDLE and the wake is lost. The comment at `task.rs:222-225` says the future can never be
  observed as absent. Without clones `FuturePresent` holds, and is proved.
- `pool_moved`: a RegisteredWorker dropped on another thread deregisters its worker but does not
  reach its deque, so the tasks in it are stranded; `registration.rs:7-9` says they are flushed.
- `timer_moved`: a pending Sleep polled by another task around its deadline can store its waker
  after the driver popped the only heap entry, and is never woken.
- `coroutine_gil`: the coroutine mutex is held over Python calls. On a build with an interpreter lock
  the hooked future can complete while `add_done_callback` has not returned; a second worker then
  attaches to the interpreter and blocks on the mutex, whose holder waits for the interpreter.
  `run_level1` "runs a root coroutine to completion" (`hypertile-sys/src/lib.rs:208`), here never.
  `CompletesOrStuck` shows that nothing else keeps a coroutine from its end.

Four more are visible in properties that hold, each of which has to say what it excepts.

- `ResumeRight`: `wake_fn` asks `exception()` only of an object that was passed to it. The tasks of the
  extension have no `exception()` and call their callbacks without an argument first
  (`hypertile-sys/src/lib.rs:76`). If such a task, yielded by an awaitable, fails, `result()` raises,
  nothing is stored (`bilingual.rs:127-132`; for an object without `exception()` that does pass
  itself, 123-126), and the coroutine is resumed with None as if the task had succeeded, although
  the module promises "Exception propagation" (`bilingual.rs:10`). A plain `await task` is not
  concerned: it polls the task with `yield None`.
- `QuietAfterZero`: `shutdown_with_timeout` also returns 0 when there is no runtime, or another thread
  is still initializing it (`runtime.rs:346-349`). Nothing is stopped, and the pool that is published
  afterwards runs tasks. The exit hook calls it "so they cannot touch the interpreter
  mid-finalization" (`hypertile-sys/src/lib.rs:890-895`); only a 0 that was counted says so.
- `CallsReturn` of `CAbi`: `hypertile_batch_spawn` parks its thread and runs no chunk itself. From a
  work function in a pool of one worker it never returns, and no `hypertile_wait` on that task
  does; TLC finds it with `Workers = 1`. The header says without exception that it "Blocks until all
  items complete" (`include/hypertile.h:164-165`). A second worker is enough.
- `ShutdownReturns` excepts a shutdown of the asyncio executor that waits for a cancelled future.
  `concurrent.futures.wait` counts such a future only after `set_running_or_notify_cancel`, which
  the executor never calls, so `shutdown(wait=True)` hangs if a future is cancelled while it waits.

## 6. The proofs

`TaskCellProofs` proves, for any sets of threads and joiners and from `ConstantsAssumption` alone
(`None` is neither a joiner nor an outcome, and `MaxQueued` is a number):

- under `CloneSpec`, with handles cloned at will: `PollExclusivity`, `FutureRelease`, `NoLostJoin`,
  and `Implementation`, the refinement of `JoinOutcome`;
- under `Spec`, in which a handle is never cloned: `HandleConservation`, `NoLostWake`,
  `FutureNeverAbsent`, and `PoolDiscipline`, that the cell uses the pool as `TaskPool` has it.

The argument has three inductive invariants over the type invariant. `FutureInv` follows the future:
it is in its slot or inside exactly one thread, and a finished task's future is about to be dropped
by somebody. It is needed because `PollExclusive` says nothing of the thread between `Take` and the
end of the poll. `JoinInv` follows the outcome: who holds the result mutex, that a thread between
the swap and the store carries the verdict, that the waker of a parked joiner is stored or called,
and that nothing is delivered but the verdict. `HandleInv` follows the handle: there is at most one,
counted over the queues and the threads that hold it, and each value of `state` says where it is.
`PoolDiscipline` needs one more, `SpentInv`: a thread whose swap won in `complete` is still inside
`run`, and so still active for the pool, but no longer holds the handle for `HandleInv`; until it
returns, no other handle may appear. The theorem speaks of steps only, since the model starts after
the first injection.

`PoolProofs` proves, for any tasks, threads, ids, tick period and batch size, `IdleStack`,
`NothingStranded`, `StaleGuard` (an action property), `NoTaskOversleeps`, and `KeepsPromise`, the
refinement of `TaskPool`. The invariant `Inv` has four parts beside the type: `Single`, that a task
is in one place (the injector, one position of one deque, or one hand), `IdleSound`, `Placed`, which
relates where a thread is to the deque it has, the id it works for and what it holds, and `Owned`,
which says whose each non-empty deque is. `Reachable` alone is not inductive: between the
replacement of a thread's deque and its flush only `Placed` knows who flushes it. `Awake` is the
invariant under `NoMissedUnpark`; it adds that a worker is listed as idle from `MarkIdle` until it is
popped or unmarks itself (`Listed`), so that a push finds somebody to unpark if nobody is attentive,
and that a popped id is on its way to being unparked or has gone (`Aimed`). The refinement maps each
step to a submission, a start, an end, or a stutter; `Single` is what makes taking a task from one
queue take it out of all.

`CAbiProofs` proves `OneAnswer`, `NoLostUnpark` and `BatchKeepsPromise` for any callers, batch
and pool sizes. The task with its waiters and the batch touch disjoint variables but for one thing,
that the work function waits for its batch; so the invariant has a task half and a batch half, and a
step of one leaves the other standing still. The task half says what `done` implies about the stored
result and the answers given (`Told`), and where the Unparker of a parked caller is (`Covered`). The
batch half says that the chunks cut the array (`Cuts`), that the counter is the number of chunks not
over (`Counted`), which items have been written (`Written`), that the flag is the disjunction of
their panics (`Flagged`), and what each program counter of the calling task implies (`Phases`).

`AwaitableProofs` proves `CalledAtMostOnce`, `CountIsExact` and `FinalResult` for any awaiting
threads and any batch. `Cuts` is the partition, from `ChunkingProofs`; `Left` counts the items of
the chunks not counted down, where the cardinality of a disjoint union is needed; `Stored` and
`Settled` say that a chunk that has run has its results or its panic in place and that nobody writes
after the last count; `Once` places each callback in one list. `AwaiterNotForgotten` is the safety
half of `AwaiterServed`: a pending future's callback is in the list while the task is not done or
somebody is still to look, or with a thread that will call it, or the event loop has the result. It
needs `Spare` besides: whoever is not calling callbacks holds none, so taking the list loses none.

`ChunkingProofs` proves for every batch and pool size that chunks are non-empty and within bounds
(`ChunkBounds`), that they cover each item exactly once (`Partition`), and that the C function's
number of chunks and the Python functions' early loop exit agree (`LoopAgrees`). The lemmas under
them are facts of integer division. `Awaitable` and `CAbi` are cut with the same operators.

`TimerProofs` proves, for any sleeps, tasks, durations and clock bound, that a pending sleep stays
armed (`SleepArmed`) and that the driver never waits past a deadline (`DriverAwake`), both of `Spec`,
in which a sleep stays in the task that first polled it; `timer_moved` shows the first is false
without that. `Armed` speaks of parked sleeps only, so the inductive invariant `Entry` follows a
sleep from the reading of the clock: a registered sleep has its entry until its deadline, its task's
waker is in the slot as long as the entry is there, and once the entry is popped after the clock was
read the task's waker is already with the driver. `Owned` says that sleeps have tasks of their own.
`DriverAwake` rests on `Earliest`, the minimum of a set of naturals, from the library's `WFMin`.

`GlobalRuntimeProofs` proves, for any callers and pool sizes up to `MaxSize`, that one runtime
survives (`SingleRuntime`), that a zero which `shutdown_with_timeout` counted from the runtime is final (`ZeroIsQuiet`; of the 0
returned without a runtime it says nothing), that
no live thread is lost track of (`EveryThreadHeld`), and that no thread joins one that is itself in
a join (`JoinsEnd`), which is what keeps shutdowns from inside and outside the pool off each other.
`Once` relates the OnceLock to the creators inside their calls; `Tended` says that a live thread of
a candidate pool is still in the hands of the candidate's creator, which `OneRuntime` by itself,
speaking of returned calls only, does not say. `Quiet` adds that a zero count was taken after the
flag was cleared, `Held` that a shutdown past its flag has a stopped pool, so that a worker which
drops its own handle will exit. `Sharing` says that the JoinHandles of a pool go all at once to one
actor, and that only a task's thread, whose pool is the published one, calls from inside a pool: a
joined thread that joined others would have taken handles of the pool its joiner has taken.
`DefaultPolicy` is what the unit tests of `worker_count_for_cores` say, for every number of cores,
and `AutomaticSize` that a pool has a worker whatever HYPERTILE_WORKERS holds.

`PythonProofs` is about two modules. Of `PyCoroutine` it proves, for any number of workers and
steps, that a live coroutine has exactly one wake-up (`OneWakeUp`), that a step comes only
once what was awaited is done and finds every result, every exception of a future and nothing stale
(`RightOutcome`), and that the done callback is called at most once (`CalledOnce`). At most one wake-up follows from
where each step puts it; at least one (`AlwaysDriven`) needs that a coroutine is only dropped by the
step that ends it, which is also the answer to one that yields what cannot be hooked.
`Flow` says, for each place the wake-up can be in, whether `pending_value` is still empty or already
what `Carried` makes of the outcome; `Guarded` ties the callback to the coroutine in its mutex.

Of `AsyncioExecutor`, whose names differ from those of `PyCoroutine` so that one module can extend
both, it proves for any callers and futures that `_pending` holds what shutdown must wait for and nothing that stays in it (`PendingTracked`), that no future is
forgotten (`NoneForgotten`), and that `shutdown(wait=True)` does not return before the futures
returned ahead of it are resolved (`ShutdownWaits`, an action property). Three facts carry the argument. `Fresh`
and `Alone`: submit keeps a future to itself until it returns it, so in
between only its own job resolves it, or a shutdown that found it in `_pending` cancels it. `Unhooked`: a future that is in `_pending` without `_cleanup` is one that
its submit is about to hook; a future resolved before that gets the callback called at once.
`Coming`: the job and submit hand the duty to resolve a future on to each other, whichever comes
second. `Kept` follows the list that shutdown took: what was returned before the call and is still
unresolved is in it.

The type invariant of each of these modules is proved with the rest and left out of the runs, which
are the better for saying less. So are `OneHandle`, since a second handle would break `UsesPool`, and
`Attended`, since a future nobody attends to would break `FutureResolved`.

Only model-checked: the liveness properties, which are out of the prover's reach. Where one fails
only if something is lost, the loss is excluded by a theorem: `WakeRemembered` under `WakeServed`,
`JoinerWoken` under `JoinerServed`, `NoMissedUnpark` and `Reachable` under `EventuallyRun`, `Armed`
under `DriverServes`, `ParkedCovered` and `NoCircularJoin` under `CallsReturn`, `AwaiterKept` under
`AwaiterServed`, `HandleOnce` under `CompletesOrStuck`, `Attended` under `FutureResolved`; what
is left to TLC is that the steps come. `OneHandle`, `WakeRemembered`, `FuturePresent` and `UsesPool`
are proved of `Spec`, the other properties of `TaskCell` also of `CloneSpec`, with handles cloned at
will.

## 7. Abstractions

- Memory is sequentially consistent: each atomic access and critical section is a step. Weak
  compare-exchange loops are one step. What the code relies on fences for (the idle count against
  the injector) is checked as an order of steps, not as an order of memory.
- A `Steal::Retry` is not a step: a steal succeeds or finds nothing. Where the worker's double-check
  treats Retry as empty, its 5 ms park bounds the delay.
- How much a batch steal takes is any number up to half, and the victim is any peer with work, since
  the order is random. The registry's workers and the cached stealers are one set.
- A thread registers workers only outside a task, and an application thread calls `run_loop`,
  `run_until_idle` or `run_one` from outside a task. The `retain` on the idle stack
  (`executor.rs:97`) removes one entry, since `IdleSound` says there is at most one.
- `cancel(&self)` and `poll(&mut self)` of one JoinHandle do not overlap, by the borrow rules. A
  JoinHandle polled after Ready reports Cancelled; only its first answer counts as delivered.
- Dropping a future does not panic; the poll may, and its panic becomes the outcome.
- Task kinds and the fuel budget only decide when a task yields; they are left out.
- A value is "value", "error" or "panic"; the payload, the messages and their formatting are not
  modelled. `hypertile_poll` that answers Pending changes nothing and is left out.
- The pool given tasks is the published one, and after `shutdown_with_timeout` only threads of
  `start_workers` are counted as the pool's: a thread the application registered may still call
  `run_until_idle`.
- A free-threaded interpreter lets Python threads interleave at will; that it stops them all for a
  garbage collection, which attached threads waiting for a Rust mutex could hold up, is left out.
  Threads other than workers hold the interpreter lock for one step at a time. A coroutine that
  ends releases its mutex and the interpreter in the step that calls `done_callback`.
- `run_level1`'s branch for a closed channel is left out: the coroutine task keeps its sender until
  it has called it.
- The fallback thread of `submit` starts. If `t.start()` raised (`asyncio_policy.py:90`), so would
  `submit`, and its future would stay in `_pending` for ever.
- Each access to `_pending` and to a Future is atomic, as the interpreter makes them; `wait and
  self._pending` followed by `list(self._pending)` is one step.

## 8. Not modelled

- `signals.py`, whose handler cancels every registered token one after the other: that is
  `CancelToken` of `PyCoroutine`, as often as one likes. `HypertileTask` and the loop policy in
  `asyncio_policy.py`, and the Python facade, choose classes and normalise arguments.
- `wrap_done_callback`, which tries a callback without an argument and then with one. It decides by
  the text of a TypeError, so a callback that raises such an error in its body is called twice; a
  callback has no body in `Awaitable`.
- A future whose Drop panics (`task.rs:218`, 260, 282): the worker thread would unwind.
- Two runtimes in one process, whose workers could receive each other's tasks (`executor.rs:215`).
- Calls of the C worker functions, and registrations, from inside a running task.
- Tests, benchmarks and the showcase. The external deques, parkers and mutexes (crossbeam,
  parking_lot) are modelled by their contract.

Some behaviours are visible in the models but are not stated as properties: tasks left in the queues
by a shutdown are never run; a sleep registered after `shutdown_timer` never ends (`DriverServes`
excepts it); of two concurrent
`shutdown()` calls the second may return before the workers have exited (`NoThreadLost` says what
holds instead); cancelling a token wakes no coroutine.

## 9. What could come next

1. Two runtimes in one `Pool`, to state what `try_push_local` may do with a foreign task.
2. Registration from inside a task, with the task's own frame on the registering thread's stack.
3. A panicking Drop in `TaskCell`, with the worker thread that unwinds as a fault.
