---------------------------- MODULE GlobalRuntime ----------------------------
(***************************************************************************)
(* The process-wide runtime (src/hypertile-core/src/runtime.rs): threads   *)
(* that race to create or configure it, its worker threads' lives (start_  *)
(* workers and run_loop, worker.rs), and the two ways to shut it down,     *)
(* also from inside a task.  GLOBAL_RUNTIME is a OnceLock: `set` waits     *)
(* while another thread is inside get_or_init, `get` does not.             *)
(*                                                                         *)
(* A thread creates a pool only while it finds the cell without one, so it *)
(* creates at most one, and pools are named by the threads that make them. *)
(*                                                                         *)
(* A name with a mutation comment is a plausible mistake in the operator   *)
(* that follows it; no action uses it.                                     *)
(***************************************************************************)
EXTENDS Integers, FiniteSets

CONSTANTS Callers,    \* threads outside the pools
          Requested,  \* worker counts asked for; 0 is "automatic"
          Env,        \* HYPERTILE_WORKERS: {n}, or {} if unset or no number
          Cores,      \* available_parallelism()
          UsizeMax,   \* the largest usize
          MaxSize,    \* bound: the largest pool
          None

BLOCKING_HEADROOM   == 4
DEFAULT_WORKERS_CAP == 32

\* The default pool size: saturating_add stops at the largest usize.
WorkerCountForCores(cores, usizeMax) ==
    LET sum    == IF cores + BLOCKING_HEADROOM > usizeMax
                    THEN usizeMax ELSE cores + BLOCKING_HEADROOM
        capped == IF sum > DEFAULT_WORKERS_CAP THEN DEFAULT_WORKERS_CAP ELSE sum
    IN  IF cores > capped THEN cores ELSE capped

\* workers_from_env: a 0 asks for the default, as no number does.
WorkersFromEnv == Env \ {0}

\* What "automatic" comes to: the override, or default_worker_count.
AutoSize == IF WorkersFromEnv = {} THEN WorkerCountForCores(Cores, UsizeMax)
                                   ELSE CHOOSE n \in WorkersFromEnv : TRUE

\* resolve_worker_count
Resolve(n) == IF n = 0 THEN AutoSize ELSE n

Sizes   == {Resolve(n) : n \in Requested \cup {0}}
Workers == Callers \X (1..MaxSize)
Pool(w) == w[1]
PoolOf(c, n) == {c} \X (1..n)
Actors  == Callers \cup Workers      \* a task may call shutdown as well
Results == {"Ok", "Err"} \X (Sizes \cup {0})   \* of configure and global_runtime

ASSUME SizeAssumption ==
    /\ UsizeMax \in Nat /\ 65535 <= UsizeMax
    /\ Cores \in 1..UsizeMax
    /\ Env \subseteq 0..UsizeMax /\ \A m, n \in Env : m = n

ASSUME RuntimeAssumption ==
    /\ Requested \subseteq Nat
    /\ MaxSize \in Nat /\ Sizes \subseteq 1..MaxSize
    /\ Callers \cap Workers = {}
    /\ None \notin Callers \cup Results \cup {"early", "counted"}

VARIABLES
    cell,      \* the OnceLock: "empty", "initializing" or "set"
    global,    \* the pool in it
    size,      \* num_workers of each pool, 0 before it exists
    stopped,   \* pools whose `running` flag was cleared
    handles,   \* JoinHandles each Runtime still owns
    detached,  \* threads whose JoinHandle was dropped without a join
    wst,       \* where each worker thread is
    pc,        \* where each caller is, and each worker inside its task
    target,    \* the pool an actor is shutting down
    toJoin,    \* the JoinHandles it took
    answer,    \* what configure or global_runtime told each caller
    zero       \* history: has shutdown_with_timeout returned 0?  "early": before
               \* there was a runtime; "counted": from active_count()

poolVars == <<size, stopped, handles, detached, wst>>
vars == <<cell, global, poolVars, pc, target, toJoin, answer, zero>>

Started(c) == PoolOf(c, size[c])
\* Between registration and deregistration: what active_count() counts.
Registered(w) == wst[w] \in {"loop", "task"}
ActiveCount(c) == Cardinality({w \in Started(c) : Registered(w)})

TypeOK ==
    /\ cell \in {"empty", "initializing", "set"}
    /\ global \in Callers \cup {None}
    /\ size \in [Callers -> Sizes \cup {0}]
    /\ stopped \subseteq Callers
    /\ handles \in [Callers -> SUBSET Workers]
    /\ detached \subseteq Workers
    /\ wst \in [Workers -> {"none", "starting", "loop", "task", "exited"}]
    /\ pc \in [Actors -> {"idle", "init", "publish", "stop", "drain", "join",
                          "watch"}]
    /\ target \in [Actors -> Callers \cup {None}]
    /\ toJoin \in [Actors -> SUBSET Workers]
    /\ \A a \in Actors : a \notin toJoin[a]
    /\ answer \in [Callers -> Results \cup {None}]
    /\ zero \in {None, "early", "counted"}

Init ==
    /\ cell = "empty"
    /\ global = None
    /\ size = [c \in Callers |-> 0]
    /\ stopped = {}
    /\ handles = [c \in Callers |-> {}]
    /\ detached = {}
    /\ wst = [w \in Workers |-> "none"]
    /\ pc = [a \in Actors |-> "idle"]
    /\ target = [a \in Actors |-> None]
    /\ toJoin = [a \in Actors |-> {}]
    /\ answer = [c \in Callers |-> None]
    /\ zero = None

Goto(a, to) == pc' = [pc EXCEPT ![a] = to]
Tell(c, what, n) == answer' = [answer EXCEPT ![c] = <<what, n>>]

-----------------------------------------------------------------------------
(* Creating the runtime                                                    *)

\* Runtime::new starts n threads; none of them has run yet.
NewPool(c, n) ==
    /\ size' = [size EXCEPT ![c] = n]
    /\ handles' = [handles EXCEPT ![c] = PoolOf(c, n)]
    /\ wst' = [w \in Workers |-> IF w \in PoolOf(c, n) THEN "starting" ELSE wst[w]]

\* configure_global_runtime, and init_global_runtime, which returns the running
\* pool in place of the error: refused if there is one, else a candidate.
Configure(c) ==
    /\ pc[c] = "idle"
    /\ IF cell = "set"
         THEN Tell(c, "Err", size[global]) /\ UNCHANGED <<poolVars, pc>>
         ELSE /\ \E n \in Requested : NewPool(c, Resolve(n))
              /\ Goto(c, "publish")
              /\ UNCHANGED <<stopped, detached, answer>>
    /\ UNCHANGED <<cell, global, target, toJoin, zero>>

\* mutation: a refused candidate is forgotten, its threads running on
LoseForgets(c) == Goto(c, "idle") /\ Tell(c, "Err", size[global])
                    /\ UNCHANGED target
\* The error drops the candidate: Drop for Runtime is shutdown().
Lose(c) == /\ Goto(c, "stop")
           /\ target' = [target EXCEPT ![c] = c]
           /\ UNCHANGED answer

Publishes  == cell = "empty"

\* OnceLock::set
Publish(c) ==
    /\ pc[c] = "publish" /\ cell # "initializing"
    /\ IF Publishes
         THEN /\ cell' = "set" /\ global' = c
              /\ Goto(c, "idle") /\ Tell(c, "Ok", size[c])
              /\ UNCHANGED target
         ELSE Lose(c) /\ UNCHANGED <<cell, global>>
    /\ UNCHANGED <<poolVars, toJoin, zero>>

\* global_runtime: get_or_init waits for another thread that is inside it.
GetOrInit(c) ==
    /\ pc[c] = "idle" /\ cell = "empty"
    /\ cell' = "initializing"
    /\ Goto(c, "init")
    /\ UNCHANGED <<global, poolVars, target, toJoin, answer, zero>>

Initialize(c) ==
    /\ pc[c] = "init"
    /\ NewPool(c, Resolve(0))
    /\ cell' = "set" /\ global' = c
    /\ Tell(c, "Ok", Resolve(0))
    /\ Goto(c, "idle")
    /\ UNCHANGED <<stopped, detached, target, toJoin, zero>>

-----------------------------------------------------------------------------
(* Worker threads                                                          *)

Register(w) ==
    /\ wst[w] = "starting"
    /\ wst' = [wst EXCEPT ![w] = "loop"]
    /\ UNCHANGED <<cell, global, size, stopped, handles, detached, pc, target,
                   toJoin, answer, zero>>

RunsOnce(w) == TRUE         \* mutation: the flag is looked at after a task
MayRun(w)   == Pool(w) \notin stopped

\* Only the published pool is ever given tasks.
StartTask(w) ==
    /\ wst[w] = "loop" /\ MayRun(w) /\ Pool(w) = global
    /\ wst' = [wst EXCEPT ![w] = "task"]
    /\ UNCHANGED <<cell, global, size, stopped, handles, detached, pc, target,
                   toJoin, answer, zero>>

EndTask(w) ==
    /\ wst[w] = "task" /\ pc[w] = "idle"
    /\ wst' = [wst EXCEPT ![w] = "loop"]
    /\ UNCHANGED <<cell, global, size, stopped, handles, detached, pc, target,
                   toJoin, answer, zero>>

\* run_loop ends, the guard deregisters, the thread is over.
Exit(w) ==
    /\ wst[w] = "loop" /\ Pool(w) \in stopped
    /\ wst' = [wst EXCEPT ![w] = "exited"]
    /\ UNCHANGED <<cell, global, size, stopped, handles, detached, pc, target,
                   toJoin, answer, zero>>

-----------------------------------------------------------------------------
(* Shutting down, from a caller or from a worker's task                    *)

Inside == {w \in Workers : wst[w] = "task"}
MayCall(a) == pc[a] = "idle" /\ a \in Callers \cup Inside

\* shutdown(): nothing without a runtime, not even while one is being made.
Shutdown(a) ==
    /\ MayCall(a) /\ cell = "set"
    /\ target' = [target EXCEPT ![a] = global]
    /\ Goto(a, "stop")
    /\ UNCHANGED <<cell, global, poolVars, toJoin, answer, zero>>

\* Runtime::shutdown clears the flag, ...
Stop(a) ==
    /\ pc[a] = "stop"
    /\ stopped' = stopped \cup {target[a]}
    /\ Goto(a, "drain")
    /\ UNCHANGED <<cell, global, size, handles, detached, wst, target, toJoin,
                   answer, zero>>

\* mutations: a worker joins itself; threads that have not run are left alone
JoinsAll(a)        == handles[target[a]]
JoinsRegistered(a) == {w \in handles[target[a]] \ {a} : Registered(w)}
Joinable(a)        == handles[target[a]] \ {a}

\* ... takes every JoinHandle, dropping the calling thread's own, ...
DrainHandles(a) ==
    /\ pc[a] = "drain"
    /\ toJoin' = [toJoin EXCEPT ![a] = Joinable(a)]
    /\ handles' = [handles EXCEPT ![target[a]] = {}]
    /\ detached' = detached \cup (handles[target[a]] \cap {a})
    /\ Goto(a, "join")
    /\ UNCHANGED <<cell, global, size, stopped, wst, target, answer, zero>>

\* ... and joins them; a losing configure reports the winner's size.
Joined(a) ==
    /\ pc[a] = "join"
    /\ \A w \in toJoin[a] : wst[w] = "exited"
    /\ toJoin' = [toJoin EXCEPT ![a] = {}]
    /\ target' = [target EXCEPT ![a] = None]
    /\ IF target[a] # global THEN Tell(a, "Err", size[global])
                             ELSE UNCHANGED answer
    /\ Goto(a, "idle")
    /\ UNCHANGED <<cell, global, poolVars, zero>>

\* shutdown_with_timeout: without a runtime, or while one is being made, it
\* returns 0 and stops nothing, ...
FindNone(a) ==
    /\ MayCall(a) /\ cell # "set"
    /\ zero' = "early"
    /\ UNCHANGED <<cell, global, poolVars, pc, target, toJoin, answer>>

\* ... else it clears the flag and looks at active_count() until that is zero
\* or the time is over.
ShutdownWithTimeout(a) ==
    /\ MayCall(a) /\ cell = "set"
    /\ stopped' = stopped \cup {global}
    /\ Goto(a, "watch")
    /\ UNCHANGED <<cell, global, size, handles, detached, wst, target, toJoin,
                   answer, zero>>

ReturnAlive(a) ==
    /\ pc[a] = "watch"
    /\ zero' = IF ActiveCount(global) = 0 THEN "counted" ELSE zero
    /\ Goto(a, "idle")
    /\ UNCHANGED <<cell, global, poolVars, target, toJoin, answer>>

-----------------------------------------------------------------------------
CallStep(a) == \/ a \in Callers /\ (Publish(a) \/ Initialize(a))
               \/ Stop(a) \/ DrainHandles(a) \/ Joined(a) \/ ReturnAlive(a)
WorkerStep(w) == Register(w) \/ Exit(w)

Next ==
    \/ \E c \in Callers : Configure(c) \/ GetOrInit(c)
    \/ \E a \in Actors : CallStep(a) \/ Shutdown(a) \/ FindNone(a)
                            \/ ShutdownWithTimeout(a)
    \/ \E w \in Workers : WorkerStep(w) \/ StartTask(w) \/ EndTask(w)

Spec == Init /\ [][Next]_vars

\* Threads run: a call goes on, and a worker looks at the flag again because
\* every park is woken or times out and every task ends, after no matter how
\* many calls.
Fairness == /\ \A a \in Actors : WF_vars(CallStep(a))
            /\ \A w \in Workers : WF_vars(WorkerStep(w)) /\ SF_vars(EndTask(w))
FairSpec == Spec /\ Fairness

-----------------------------------------------------------------------------
(* Properties                                                              *)

\* One runtime survives the race.  While no creator is still inside its call,
\* the only pool with live threads is the published one: a losing configure
\* leaves nothing behind.  Every answer is the size of that pool, and Ok goes
\* to its creator alone.
OneRuntime ==
    /\ \A w \in Workers :
         wst[w] \in {"starting", "loop", "task"} /\ pc[Pool(w)] = "idle"
             => Pool(w) = global
    /\ \A c \in Callers : answer[c] # None =>
         /\ global # None
         /\ answer[c][2] = size[global]
         /\ answer[c][1] = "Ok" => c = global

\* A zero that shutdown_with_timeout counted is final: no worker of the pool
\* is, or will be, inside a task, also no thread that had not registered when it
\* counted.  One it returned without a runtime promises nothing: the pool that
\* was being created comes up and runs tasks.
QuietAfterZero ==
    zero = "counted" => \A w \in Workers : Pool(w) = global => wst[w] # "task"

\* No thread is lost track of.  As long as it lives its JoinHandle is with the
\* runtime or with somebody who is joining it; the one exception is a worker
\* that shut its own pool down from a task, which will find the flag cleared.
\* So two shutdowns at once may share the joining, but between them they do it.
NoThreadLost ==
    \A w \in Workers : wst[w] \in {"starting", "loop", "task"} =>
        \/ w \in handles[Pool(w)]
        \/ \E a \in Actors : pc[a] = "join" /\ w \in toJoin[a]
        \/ w \in detached /\ Pool(w) \in stopped

\* Shutdowns do not wait for each other in a circle.  A thread that somebody
\* joins has been told to stop and joins nobody itself: of the threads that
\* shut one pool down, from outside it or from its tasks, only one got the
\* JoinHandles, and a task's own thread was not among those it got.
NoCircularJoin ==
    \A a \in Actors : \A w \in toJoin[a] :
        Pool(w) \in stopped /\ toJoin[w] = {}

\* Every call returns: two threads that shut down at once, a task that shuts
\* down its own pool, and a configure that waits for another's initialization.
CallsReturn == \A a \in Actors : pc[a] # "idle" ~> pc[a] = "idle"
=============================================================================
