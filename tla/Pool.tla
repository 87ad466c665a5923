-------------------------------- MODULE Pool --------------------------------
(***************************************************************************)
(* The work-stealing pool of hypertile-core: ExecutorCore and              *)
(* WorkerRegistry (executor.rs), the worker loop and its registration      *)
(* guard (worker.rs), the thread-local deque (waker.rs) and dynamic        *)
(* registration (registration.rs).                                         *)
(*                                                                         *)
(* A step is one queue operation, one critical section or one atomic       *)
(* access.  Task handles are values; a handle that ran may be submitted    *)
(* again, which stands for the wake-ups of module TaskCell.                *)
(***************************************************************************)
EXTENDS Naturals, Sequences, FiniteSets, Functions, SequencesExt

CONSTANTS Tasks,        \* task handles
          Background,   \* threads of start_workers
          Callers,      \* threads of the application
          MaxWorkers,   \* bound: worker ids allocated, one kept per Background
          TickPeriod,   \* 64 in find_task
          BatchMax,     \* 16 in run_loop
          None

Threads == Background \cup Callers
Ids     == 1..MaxWorkers

ASSUME PoolAssumption ==
    /\ IsFiniteSet(Background)
    /\ MaxWorkers \in Nat /\ MaxWorkers >= Cardinality(Background)
    /\ TickPeriod \in Nat \ {0}
    /\ BatchMax \in Nat
    /\ Background \cap Callers = {}
    /\ None \notin Tasks \cup Ids \cup Threads

VARIABLES
    running,    \* ExecutorCore::running
    injector,   \* the shared queue
    deque,      \* each worker's FIFO deque
    tls,        \* LOCAL_WORKER_DEQUE: the id whose deque a thread owns
    workers,    \* registry.workers, and with it the stealers cache
    idle,       \* registry.idle_stack; idle_count is its length
    token,      \* each worker's parker token
    next_id,    \* registry.next_id
    owner,      \* the thread that holds the RegisteredWorker of an id
    tick,       \* find_task's counter, modulo TickPeriod
    pc,
    cur,        \* the worker a thread acts for
    held,       \* the task a thread is running
    mode,       \* run_loop, run_until_idle or run_one
    batch,      \* tasks the hot-cache drain may still run
    flush,      \* the deque a thread is flushing
    popped,     \* the idle worker a thread is about to unpark
    ret         \* where to continue after inject

queueVars    == <<injector, deque>>
registryVars == <<workers, idle, token, next_id, owner>>
loopVars     == <<tick, cur, held, mode, batch>>
callVars     == <<flush, popped, ret>>
vars == <<running, queueVars, tls, registryVars, pc, loopVars, callVars>>

Pcs == {"out", "loop", "find", "local", "steal", "peers", "spin", "mark",
        "recheck", "found", "park", "unmark", "run", "notify", "deliver", "flush",
        "install", "gone", "unparkall"}

TypeOK ==
    /\ running \in BOOLEAN
    /\ injector \in Seq(Tasks)
    /\ deque \in [Ids -> Seq(Tasks)]
    /\ tls \in [Threads -> Ids \cup {None}]
    /\ workers \subseteq Ids
    /\ idle \in Seq(Ids)
    /\ token \in [Ids -> BOOLEAN]
    /\ next_id \in 1..MaxWorkers + 1
    /\ owner \in [Ids -> Threads \cup {None}]
    /\ tick \in [Ids -> 0..TickPeriod - 1]
    /\ pc \in [Threads -> Pcs]
    /\ cur \in [Threads -> Ids \cup {None}]
    /\ held \in [Threads -> Tasks \cup {None}]
    /\ mode \in [Threads -> {"loop", "drain", "one"}]
    /\ batch \in [Threads -> 0..BatchMax]
    /\ flush \in [Threads -> Ids \cup {None}]
    /\ popped \in [Threads -> Ids \cup {None}]
    /\ ret \in [Threads -> Pcs]

Init ==
    /\ running = TRUE
    /\ injector = <<>>
    /\ deque = [i \in Ids |-> <<>>]
    /\ tls = [t \in Threads |-> None]
    /\ workers = {}
    /\ idle = <<>>
    /\ token = [i \in Ids |-> FALSE]
    /\ next_id = 1
    /\ owner = [i \in Ids |-> None]
    /\ tick = [i \in Ids |-> 0]
    /\ pc = [t \in Threads |-> "out"]
    /\ cur = [t \in Threads |-> None]
    /\ held = [t \in Threads |-> None]
    /\ mode = [t \in Threads |-> "loop"]
    /\ batch = [t \in Threads |-> 0]
    /\ flush = [t \in Threads |-> None]
    /\ popped = [t \in Threads |-> None]
    /\ ret = [t \in Threads |-> "out"]

Goto(t, to) == pc' = [pc EXCEPT ![t] = to]

\* A caller is back in its own code.
Leave(t) == /\ Goto(t, "out")
            /\ cur' = [cur EXCEPT ![t] = None]
            /\ mode' = [mode EXCEPT ![t] = "loop"]

(* A name with a mutation comment is a plausible mistake in the operator   *)
(* that follows it; no action uses it.                                     *)

Queued(task) == \/ task \in Range(injector)
                \/ \E i \in Ids : task \in Range(deque[i])
Active(task) == \E t \in Threads : held[t] = task

-----------------------------------------------------------------------------
(* inject and unpark_one_idle                                              *)

Push(t, task) ==
    IF tls[t] # None
      THEN /\ deque' = [deque EXCEPT ![tls[t]] = Append(@, task)]
           /\ UNCHANGED <<injector, pc, ret>>
      ELSE /\ injector' = Append(injector, task)
           /\ ret' = [ret EXCEPT ![t] = pc[t]]
           /\ Goto(t, "notify")
           /\ UNCHANGED deque

\* ExecutorCore::inject, called for a new task or by a waker, from outside
\* the pool or from inside a running task.
Inject(t, task) ==
    /\ \/ pc[t] = "out" /\ t \in Callers
       \/ pc[t] = "run" /\ held[t] # None
    /\ ~Queued(task) /\ ~Active(task)
    /\ Push(t, task)
    /\ UNCHANGED <<running, tls, registryVars, loopVars, flush, popped>>

\* A task that was woken during its poll queues its own handle; then its run
\* is over.
Requeue(t) ==
    /\ pc[t] = "run" /\ held[t] # None
    /\ held' = [held EXCEPT ![t] = None]
    /\ Push(t, held[t])
    /\ UNCHANGED <<running, tls, registryVars, tick, cur, mode, batch, flush,
                   popped>>

Resume(t) == /\ Goto(t, ret[t])
             /\ ret' = [ret EXCEPT ![t] = "out"]

\* idle_count.load() and idle_stack.pop()
Notify(t) ==
    /\ pc[t] = "notify"
    /\ IF idle = <<>>
         THEN Resume(t) /\ UNCHANGED <<idle, popped>>
         ELSE /\ popped' = [popped EXCEPT ![t] = Last(idle)]
              /\ idle' = Front(idle)
              /\ Goto(t, "deliver")
              /\ UNCHANGED ret
    /\ UNCHANGED <<running, queueVars, tls, workers, token, next_id, owner,
                   loopVars, flush>>

\* unpark(), or on to the next idle worker when this one deregistered.
Deliver(t) ==
    /\ pc[t] = "deliver"
    /\ popped' = [popped EXCEPT ![t] = None]
    /\ IF popped[t] \in workers
         THEN token' = [token EXCEPT ![popped[t]] = TRUE] /\ Resume(t)
         ELSE Goto(t, "notify") /\ UNCHANGED <<token, ret>>
    /\ UNCHANGED <<running, queueVars, tls, workers, idle, next_id, owner,
                   loopVars, flush>>

-----------------------------------------------------------------------------
(* Registration: WorkerHandle::new and WorkerGuard::drop                   *)

NotStarted == {t \in Background : pc[t] = "out"}

\* allocate_id and take_any_local_worker
Register(t) ==
    /\ pc[t] = "out"
    /\ next_id + Cardinality(NotStarted \ {t}) \in Ids
    /\ next_id' = next_id + 1
    /\ owner' = [owner EXCEPT ![next_id] = t]
    /\ cur' = [cur EXCEPT ![t] = next_id]
    /\ flush' = [flush EXCEPT ![t] = tls[t]]
    /\ tls' = [tls EXCEPT ![t] = None]
    /\ Goto(t, "flush")
    /\ UNCHANGED <<running, queueVars, workers, idle, token, tick, held, mode,
                   batch, popped, ret>>

\* worker.pop() and inject(), once per task left in the deque; there is no
\* local deque now, so every task goes to the injector.
Flush(t) ==
    /\ pc[t] = "flush"
    /\ IF flush[t] # None /\ deque[flush[t]] # <<>>
         THEN /\ injector' = Append(injector, Head(deque[flush[t]]))
              /\ deque' = [deque EXCEPT ![flush[t]] = Tail(@)]
              /\ ret' = [ret EXCEPT ![t] = "flush"]
              /\ Goto(t, "notify")
              /\ UNCHANGED flush
         ELSE /\ flush' = [flush EXCEPT ![t] = None]
              /\ IF owner[cur[t]] = t
                   THEN Goto(t, "install") /\ UNCHANGED ret
                   ELSE /\ ret' = [ret EXCEPT ![t] = "gone"]
                        /\ Goto(t, "notify")
              /\ UNCHANGED queueVars
    /\ UNCHANGED <<running, tls, registryVars, loopVars, popped>>

\* set_local_worker and registry.register
Install(t) ==
    /\ pc[t] = "install"
    /\ tls' = [tls EXCEPT ![t] = cur[t]]
    /\ workers' = workers \cup {cur[t]}
    /\ IF t \in Background THEN Goto(t, "loop") /\ UNCHANGED <<cur, mode>>
                            ELSE Leave(t)
    /\ UNCHANGED <<running, queueVars, idle, token, next_id, owner, tick, held,
                   batch, callVars>>

\* mutation: the guard never takes the deque; it takes whichever is there
ReclaimsNone(t, i) == FALSE
ReclaimsAny(t, i)  == tls[t] # None

\* take_local_worker(id) succeeds
Reclaims(t, i) == tls[t] = i

\* Dropping the guard: deregister, then take_local_worker if the thread's
\* deque still is this worker's.  The parker and the tick go with the handle.
DropGuard(t, i) ==
    /\ owner[i] = t
    /\ owner' = [owner EXCEPT ![i] = None]
    /\ workers' = workers \ {i}
    /\ idle' = RemoveFirst(idle, i)
    /\ token' = [token EXCEPT ![i] = FALSE]
    /\ tick' = [tick EXCEPT ![i] = 0]
    /\ cur' = [cur EXCEPT ![t] = i]
    /\ IF Reclaims(t, i)
         THEN /\ flush' = [flush EXCEPT ![t] = tls[t]]
              /\ tls' = [tls EXCEPT ![t] = None]
         ELSE UNCHANGED <<flush, tls>>
    /\ Goto(t, "flush")
    /\ UNCHANGED <<running, queueVars, next_id, held, mode, batch, popped, ret>>

Deregister(t) == /\ t \in Callers
                 /\ pc[t] = "out"
                 /\ \E i \in Ids : DropGuard(t, i)

\* The guard is gone; a thread of start_workers ends here.
Gone(t) ==
    /\ pc[t] = "gone"
    /\ t \in Callers
    /\ Leave(t)
    /\ UNCHANGED <<running, queueVars, tls, registryVars, tick, held, batch,
                   callVars>>

-----------------------------------------------------------------------------
(* find_task                                                               *)

\* run_loop, run_until_idle and run_one of a worker this thread registered
Call(t, i) ==
    /\ t \in Callers
    /\ pc[t] = "out"
    /\ owner[i] = t
    /\ cur' = [cur EXCEPT ![t] = i]
    /\ \/ mode' = [mode EXCEPT ![t] = "loop"]  /\ Goto(t, "loop")
       \/ mode' = [mode EXCEPT ![t] = "drain"] /\ Goto(t, "find")
       \/ mode' = [mode EXCEPT ![t] = "one"]   /\ Goto(t, "find")
    /\ UNCHANGED <<running, queueVars, tls, registryVars, tick, held, batch,
                   callVars>>

Run(t, task, drain) ==
    /\ held' = [held EXCEPT ![t] = task]
    /\ batch' = [batch EXCEPT ![t] = drain]
    /\ Goto(t, IF pc[t] = "recheck" THEN "found" ELSE "run")

\* steal_batch_and_pop into the local deque, or a single steal without one;
\* how many tasks move is crossbeam's choice, about half.
BatchSize(t, q) == IF tls[t] = None THEN {1} ELSE 1..((Len(q) + 1) \div 2)

TailDropsOne(q, n) == SubSeq(q, n + 2, Len(q))    \* mutation: off by one

\* What a steal of n tasks leaves behind.
TailAfter(q, n) == SubSeq(q, n + 1, Len(q))

StealInjector(t, drain) ==
    /\ injector # <<>>
    /\ \E n \in BatchSize(t, injector) :
         /\ injector' = TailAfter(injector, n)
         /\ IF n = 1
              THEN UNCHANGED deque
              ELSE deque' = [deque EXCEPT
                               ![tls[t]] = @ \o SubSeq(injector, 2, n)]
    /\ Run(t, Head(injector), drain)

TickNever(t) == FALSE             \* mutation: the injector is not looked at first

\* tick % 64 == 0
TickDue(t) == tick[cur[t]] = 0

\* Every TickPeriod-th call looks at the injector first.
FindTick(t) ==
    /\ pc[t] = "find"
    /\ tick' = [tick EXCEPT ![cur[t]] = (@ + 1) % TickPeriod]
    /\ IF TickDue(t) /\ injector # <<>>
         THEN StealInjector(t, BatchMax)
         ELSE Goto(t, "local") /\ UNCHANGED <<queueVars, held, batch>>
    /\ UNCHANGED <<running, tls, registryVars, cur, mode, callVars>>

LocalEmpty(t) == tls[t] = None \/ deque[tls[t]] = <<>>

LocalPop(t, drain) ==
    /\ ~LocalEmpty(t)
    /\ deque' = [deque EXCEPT ![tls[t]] = Tail(@)]
    /\ Run(t, Head(deque[tls[t]]), drain)

FindLocal(t) ==
    /\ pc[t] = "local"
    /\ IF LocalEmpty(t)
         THEN Goto(t, "steal") /\ UNCHANGED <<deque, held, batch>>
         ELSE LocalPop(t, BatchMax)
    /\ UNCHANGED <<running, injector, tls, registryVars, tick, cur, mode,
                   callVars>>

FindInjector(t) ==
    /\ pc[t] = "steal"
    /\ IF injector = <<>>
         THEN Goto(t, "peers") /\ UNCHANGED <<queueVars, held, batch>>
         ELSE StealInjector(t, BatchMax)
    /\ UNCHANGED <<running, tls, registryVars, tick, cur, mode, callVars>>

\* Any peer may be reached first, since the victim order is random.
Victims(t) == {i \in workers \ {cur[t]} : deque[i] # <<>>}

StealPeer(t, i) ==
    /\ \E n \in BatchSize(t, deque[i]) :
         deque' = IF n = 1 \/ tls[t] = i
                    THEN [deque EXCEPT ![i] = Tail(@)]
                    ELSE [deque EXCEPT
                            ![i] = TailAfter(@, n),
                            ![tls[t]] = @ \o SubSeq(deque[i], 2, n)]
    /\ Run(t, Head(deque[i]), BatchMax)

FindPeers(t) ==
    /\ pc[t] = "peers"
    /\ IF Victims(t) = {} \/ Cardinality(workers) <= 1
         THEN /\ IF mode[t] = "loop"
                   THEN Goto(t, "spin") /\ UNCHANGED <<cur, mode>>
                   ELSE Leave(t)
              /\ UNCHANGED <<deque, held, batch>>
         ELSE /\ \E i \in Victims(t) : StealPeer(t, i)
              /\ UNCHANGED <<cur, mode>>
    /\ UNCHANGED <<running, injector, tls, registryVars, tick, callVars>>

-----------------------------------------------------------------------------
(* The task runs, then run_loop, run_until_idle or run_one goes on         *)

\* mutation: the drain does not count
BatchSame(t) == batch[t]

\* local_batch < 16, and local_batch += 1
BatchLeft(t) == batch[t] > 0
BatchNext(t) == batch[t] - 1

Finish(t) ==
    /\ pc[t] = "run"
    /\ IF mode[t] = "loop" /\ BatchLeft(t) /\ ~LocalEmpty(t)
         THEN LocalPop(t, BatchNext(t)) /\ UNCHANGED <<cur, mode>>
         ELSE /\ held' = [held EXCEPT ![t] = None]
              /\ batch' = [batch EXCEPT ![t] = 0]
              /\ IF mode[t] = "one"
                   THEN Leave(t)
                   ELSE /\ Goto(t, IF mode[t] = "loop" THEN "loop" ELSE "find")
                        /\ UNCHANGED <<cur, mode>>
              /\ UNCHANGED deque
    /\ UNCHANGED <<running, injector, tls, registryVars, tick, callVars>>

\* `while is_running()`; the guard of a start_workers thread goes out of
\* scope with its loop, a caller gets its RegisteredWorker back.
LoopTop(t) ==
    /\ pc[t] = "loop"
    /\ IF running
         THEN /\ Goto(t, "find")
              /\ UNCHANGED <<tls, registryVars, tick, cur, mode, flush>>
         ELSE IF t \in Callers
         THEN Leave(t) /\ UNCHANGED <<tls, registryVars, tick, flush>>
         ELSE DropGuard(t, cur[t])
    /\ UNCHANGED <<running, queueVars, held, batch, popped, ret>>

\* The 32 spins: the local deque cannot fill, so only the injector matters.
Spin(t) ==
    /\ pc[t] = "spin"
    /\ IF injector = <<>>
         THEN Goto(t, "mark") /\ UNCHANGED <<queueVars, held, batch>>
         ELSE StealInjector(t, 0)
    /\ UNCHANGED <<running, tls, registryVars, tick, cur, mode, callVars>>

MarkIdle(t) ==
    /\ pc[t] = "mark"
    /\ idle' = IF cur[t] \in Range(idle) THEN idle ELSE Append(idle, cur[t])
    /\ Goto(t, "recheck")
    /\ UNCHANGED <<running, queueVars, tls, workers, token, next_id, owner,
                   loopVars, callVars>>

RecheckSkips == TRUE             \* mutation: park without the double-check

NothingInjected == injector = <<>>

\* The double-check of the injector before parking.  It is still listed as
\* idle while it holds the task it found.
Recheck(t) ==
    /\ pc[t] = "recheck"
    /\ IF NothingInjected
         THEN Goto(t, "park") /\ UNCHANGED <<queueVars, held, batch>>
         ELSE StealInjector(t, 0)
    /\ UNCHANGED <<running, tls, registryVars, tick, cur, mode, callVars>>

ParkReturns(t) ==
    /\ token' = [token EXCEPT ![cur[t]] = FALSE]
    /\ Goto(t, "unmark")
    /\ UNCHANGED <<running, queueVars, tls, workers, idle, next_id, owner,
                   loopVars, callVars>>

\* park_timeout returns because of an unpark() or after 5 ms.
Unparked(t) == pc[t] = "park" /\ token[cur[t]]  /\ ParkReturns(t)
Timeout(t)  == pc[t] = "park" /\ ~token[cur[t]] /\ ParkReturns(t)

StillListed(t) == idle            \* mutation: the worker stays in idle_stack

\* retain: an id is in idle_stack once at most.
Unlisted(t) == RemoveFirst(idle, cur[t])

\* unmark_idle, after parking or with the task the double-check found
UnmarkIdle(t) ==
    /\ pc[t] \in {"unmark", "found"}
    /\ idle' = Unlisted(t)
    /\ Goto(t, IF pc[t] = "found" THEN "run" ELSE "loop")
    /\ UNCHANGED <<running, queueVars, tls, workers, token, next_id, owner,
                   loopVars, callVars>>

-----------------------------------------------------------------------------
(* ExecutorCore::shutdown                                                  *)

Shutdown(t) ==
    /\ t \in Callers
    /\ pc[t] = "out"
    /\ running
    /\ running' = FALSE
    /\ Goto(t, "unparkall")
    /\ UNCHANGED <<queueVars, tls, registryVars, loopVars, callVars>>

UnparkAll(t) ==
    /\ pc[t] = "unparkall"
    /\ token' = [i \in Ids |-> token[i] \/ i \in workers]
    /\ Goto(t, "out")
    /\ UNCHANGED <<running, queueVars, tls, workers, idle, next_id, owner,
                   loopVars, callVars>>

-----------------------------------------------------------------------------
\* What a thread does once it is inside a call.
Working(t) ==
    \/ Notify(t) \/ Deliver(t) \/ Flush(t) \/ Install(t) \/ Gone(t)
    \/ FindTick(t) \/ FindLocal(t) \/ FindInjector(t) \/ FindPeers(t)
    \/ Finish(t) \/ LoopTop(t) \/ Spin(t) \/ MarkIdle(t) \/ Recheck(t)
    \/ Unparked(t) \/ UnmarkIdle(t) \/ UnparkAll(t)

Next == \E t \in Threads :
            \/ \E task \in Tasks : Inject(t, task)
            \/ Requeue(t)
            \/ Register(t) \/ Deregister(t) \/ Shutdown(t)
            \/ \E i \in Ids : Call(t, i)
            \/ Working(t) \/ Timeout(t)

Spec == Init /\ [][Next]_vars

\* Threads inside a call run, tasks finish, parks time out, and the threads
\* of start_workers do start.  Callers need never call anything.
Fairness == /\ \A t \in Threads : WF_vars(Working(t) \/ Timeout(t))
            /\ \A t \in Background : WF_vars(Register(t))
FairSpec == Spec /\ Fairness

\* RegisteredWorker is Send: another thread may receive it and drop it.
Move(i, u) ==
    /\ owner[i] \in Callers
    /\ pc[owner[i]] = "out"
    /\ u \in Callers
    /\ owner' = [owner EXCEPT ![i] = u]
    /\ UNCHANGED <<running, queueVars, tls, workers, idle, token, next_id, pc,
                   loopVars, callVars>>

MoveSpec == Init /\ [][Next \/ \E i \in Ids, u \in Callers : Move(i, u)]_vars

-----------------------------------------------------------------------------
(* Properties                                                              *)

\* Every handle given to inject is run once: registration, stealing,
\* flushing and shutdown neither drop nor duplicate a queued handle.
Promise == INSTANCE TaskPool WITH
             queued <- {task \in Tasks : Queued(task)},
             active <- {task \in Tasks : Active(task)}
ImplementsPool == Promise!PoolSpec

\* A task in a worker's deque can be stolen by its peers, or the thread that
\* owns the deque is moving it to the injector (registration.rs:7-9).
Reachable ==
    \A i \in Ids : deque[i] # <<>> =>
        i \in workers \/ \E t \in Threads : flush[t] = i

\* idle_stack lists registered workers that are about to park or parked, each
\* once, so that unpark_one_idle never spends a wake-up on a busy worker
\* other than one that has just found a task.
IdleSound ==
    /\ IsInjective(idle)
    /\ Range(idle) \subseteq workers
    /\ \A i \in Range(idle) : \E t \in Threads :
         cur[t] = i /\ pc[t] \in {"recheck", "found", "park", "unmark"}

\* Workers that will look at the injector again before they next park.
Parked(t) == pc[t] = "park" /\ ~token[cur[t]]
Attentive(t) ==
    \/ mode[t] = "loop"  /\ ~Parked(t)
         /\ pc[t] \in {"loop", "find", "local", "steal", "peers", "spin", "mark",
                       "recheck", "found", "park", "unmark", "run"}
    \/ mode[t] = "drain" /\ pc[t] \in {"find", "local", "steal", "run"}

\* No missed wake-up: while a worker sleeps without a token, a task in the
\* injector has an unpark under way or a worker that will find it, so the
\* 5 ms timeout of run_loop is never what saves it.
NoMissedUnpark ==
    running /\ injector # <<>> /\ (\E t \in Threads : Parked(t)) =>
        \E t \in Threads : pc[t] \in {"notify", "deliver"} \/ Attentive(t)

\* A thread's local deque is taken away only by the guard of the worker that
\* owns it or by a newer registration: a stale guard of a nested registration
\* leaves it alone (waker.rs:25-27).
StaleGuardHarmless ==
    [][\A t \in Threads : tls[t] # None /\ tls'[t] # tls[t] =>
          \/ owner[tls[t]] = t /\ owner'[tls[t]] = None
          \/ next_id \in Ids /\ owner'[next_id] = t]_<<tls, owner, next_id>>

\* Places a start_workers thread keeps serving: the injector and its deque.
Served(task) ==
    \/ task \in Range(injector)
    \/ \E t \in Background : tls[t] # None /\ task \in Range(deque[tls[t]])

\* While the pool runs, no task waits for ever in the injector (worker.rs:113)
\* or in the deque of a start_workers thread, even if other tasks requeue
\* themselves without end.  A task that a caller's run_one has moved to that
\* caller's deque is not covered: only a thread without other work steals it.
EventuallyRun ==
    \A task \in Tasks : Served(task) /\ running ~> ~Served(task) \/ ~running

\* shutdown stops every start_workers thread, even if tasks keep coming.
ShutdownStops ==
    ~running ~> \A t \in Background : pc[t] = "gone"
=============================================================================
