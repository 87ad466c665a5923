--------------------------- MODULE AsyncioExecutor ---------------------------
(***************************************************************************)
(* HypertileAsyncioExecutor (src/python/hypertile/asyncio_policy.py):      *)
(* concurrent.futures put in front of the pool.  Threads submit, cancel    *)
(* and shut down at once, without a lock between them; the pool, or a      *)
(* plain thread where the extension is missing, ends the futures.          *)
(*                                                                         *)
(* A step is one method of the shared set or of a Future, which Python     *)
(* makes atomic; a Future calls its callbacks after it changed its state,  *)
(* in a step of their own.  The callable's own completion is module        *)
(* Awaitable's: its done callback is called once.                          *)
(*                                                                         *)
(* A name with a mutation comment is a plausible mistake in the operator   *)
(* that follows it; no action uses it.                                     *)
(***************************************************************************)
EXTENDS Naturals

CONSTANTS Callers,   \* threads of the application and event loops
          Futures,   \* one for each call of submit
          NoFuture   \* of a thread that is busy with none

ASSUME ExecutorAssumption == NoFuture \notin Futures

VARIABLES
    shut,       \* _shutdown
    pendingSet, \* _pending
    state,      \* each Future: "new", "pending", "finished" or "cancelled"
    hookedSet,  \* futures with _cleanup among their done callbacks
    job,        \* the callable: "none", "queued" or "done"
    watched,    \* jobs whose end calls _on_done, or wrapper's own end
    worker,     \* where the thread that ran a job is
    at, cur,    \* where each caller is, and the future it is busy with
    wait,       \* the argument of its shutdown
    list,       \* the futures it has still to cancel, or waits for
    given,      \* futures submit has returned
    before      \* history: what submit had returned when shutdown was called

futureVars == <<state, hookedSet, pendingSet>>
jobVars    == <<job, watched, worker>>
shutVars   == <<wait, list, before>>
execVars == <<shut, futureVars, jobVars, at, cur, shutVars, given>>

Submitting == {"add", "hook", "spawn", "watch", "resolve"}
Closing    == {"snapshot", "cancelall", "cancelled", "await", "wait"}

ExecTypeOK ==
    /\ shut \in BOOLEAN
    /\ pendingSet \subseteq Futures /\ hookedSet \subseteq Futures
    /\ watched \subseteq Futures /\ given \subseteq Futures
    /\ state \in [Futures -> {"new", "pending", "finished", "cancelled"}]
    /\ job \in [Futures -> {"none", "queued", "done"}]
    /\ worker \in [Futures -> {"idle", "resolve", "callbacks"}]
    /\ at \in [Callers -> {"out", "callbacks"} \cup Submitting \cup Closing]
    /\ cur \in [Callers -> Futures \cup {NoFuture}]
    /\ wait \in [Callers -> BOOLEAN]
    /\ list \in [Callers -> SUBSET Futures]
    /\ before \in [Callers -> SUBSET Futures]

ExecInit ==
    /\ shut = FALSE
    /\ pendingSet = {} /\ hookedSet = {} /\ watched = {} /\ given = {}
    /\ state = [f \in Futures |-> "new"]
    /\ job = [f \in Futures |-> "none"]
    /\ worker = [f \in Futures |-> "idle"]
    /\ at = [t \in Callers |-> "out"]
    /\ cur = [t \in Callers |-> NoFuture]
    /\ wait = [t \in Callers |-> FALSE]
    /\ list = [t \in Callers |-> {}]
    /\ before = [t \in Callers |-> {}]

Move(t, to)  == at' = [at EXCEPT ![t] = to]
Set(f, what) == state' = [state EXCEPT ![f] = what]

\* submit returns its future, or a caller's cancel() returns.
Return(t) == /\ Move(t, "out")
             /\ cur' = [cur EXCEPT ![t] = NoFuture]
             /\ given' = given \cup {cur[t]}

-----------------------------------------------------------------------------
(* submit                                                                  *)

\* It raises when _shutdown is set, which changes nothing.
Submit(t, f) ==
    /\ at[t] = "out" /\ ~shut
    /\ state[f] = "new"
    /\ Set(f, "pending")
    /\ cur' = [cur EXCEPT ![t] = f]
    /\ Move(t, "add")
    /\ UNCHANGED <<shut, hookedSet, pendingSet, jobVars, shutVars, given>>

NoCleanup == "spawn"    \* mutation: the future is never taken out of _pending
AfterAdd  == "hook"

\* _pending.add(fut)
Add(t) ==
    /\ at[t] = "add"
    /\ pendingSet' = pendingSet \cup {cur[t]}
    /\ Move(t, AfterAdd)
    /\ UNCHANGED <<shut, state, hookedSet, jobVars, cur, shutVars, given>>

\* fut.add_done_callback(_cleanup), which calls it at once if fut is done
HookCleanup(t) ==
    /\ at[t] = "hook"
    /\ IF state[cur[t]] = "pending"
         THEN hookedSet' = hookedSet \cup {cur[t]} /\ UNCHANGED pendingSet
         ELSE pendingSet' = pendingSet \ {cur[t]} /\ UNCHANGED hookedSet
    /\ Move(t, "spawn")
    /\ UNCHANGED <<shut, state, jobVars, cur, shutVars, given>>

\* spawn_callable; where it or its import raises, a daemon thread that runs the
\* callable and resolves fut
Spawn(t) ==
    /\ at[t] = "spawn"
    /\ job' = [job EXCEPT ![cur[t]] = "queued"]
    /\ \/ Move(t, "watch") /\ UNCHANGED <<watched, cur, given>>
       \/ watched' = watched \cup {cur[t]} /\ Return(t)
    /\ UNCHANGED <<shut, futureVars, worker, shutVars>>

DoneUnseen(f) == FALSE    \* mutation: a task that has ended is not looked at

Done(f) == job[f] = "done"

\* task.add_done_callback(_on_done), which calls it at once if task is done
Watch(t) ==
    /\ at[t] = "watch"
    /\ IF Done(cur[t])
         THEN Move(t, "resolve") /\ UNCHANGED <<watched, cur, given>>
         ELSE watched' = watched \cup {cur[t]} /\ Return(t)
    /\ UNCHANGED <<shut, futureVars, job, worker, shutVars>>

-----------------------------------------------------------------------------
(* The job, _on_done and wrapper                                           *)

\* The callable returns or raises, in a worker or in the fallback thread.
RunJob(f) ==
    /\ job[f] = "queued"
    /\ job' = [job EXCEPT ![f] = "done"]
    /\ worker' = [worker EXCEPT ![f] = IF f \in watched THEN "resolve" ELSE "idle"]
    /\ UNCHANGED <<shut, futureVars, watched, at, cur, shutVars, given>>

ResolvesFinal(f) == state[f] # "pending"     \* mutation: the test the wrong way

\* set_result and set_exception refuse a future that is done: the first
\* refusal leads to the second, whose exception is only printed.  What the
\* callable returned or raised makes no other difference.
Resolves(f) == state[f] = "pending"

ResolveInline(t) ==
    /\ at[t] = "resolve"
    /\ IF Resolves(cur[t])
         THEN /\ Set(cur[t], "finished")
              /\ Move(t, "callbacks")
              /\ UNCHANGED <<cur, given>>
         ELSE Return(t) /\ UNCHANGED state
    /\ UNCHANGED <<shut, hookedSet, pendingSet, jobVars, shutVars>>

ResolveInWorker(f) ==
    /\ worker[f] = "resolve"
    /\ IF Resolves(f)
         THEN Set(f, "finished") /\ worker' = [worker EXCEPT ![f] = "callbacks"]
         ELSE worker' = [worker EXCEPT ![f] = "idle"] /\ UNCHANGED state
    /\ UNCHANGED <<shut, hookedSet, pendingSet, job, watched, at, cur,
                   shutVars, given>>

\* _cleanup, if it was hooked before the future was done
Cleanup(f) == pendingSet' = IF f \in hookedSet THEN pendingSet \ {f} ELSE pendingSet

Callbacks(t) ==
    /\ at[t] = "callbacks"
    /\ Cleanup(cur[t])
    /\ Return(t)
    /\ UNCHANGED <<shut, state, hookedSet, jobVars, shutVars>>

CallbacksInWorker(f) ==
    /\ worker[f] = "callbacks"
    /\ Cleanup(f)
    /\ worker' = [worker EXCEPT ![f] = "idle"]
    /\ UNCHANGED <<shut, state, hookedSet, job, watched, at, cur, shutVars,
                   given>>

\* Future.cancel by whoever holds the future.  The executor never marks a
\* future as running, so this succeeds even while the callable runs.
Cancel(t, f) ==
    /\ at[t] = "out"
    /\ f \in given /\ state[f] = "pending"
    /\ Set(f, "cancelled")
    /\ cur' = [cur EXCEPT ![t] = f]
    /\ Move(t, "callbacks")
    /\ UNCHANGED <<shut, hookedSet, pendingSet, jobVars, shutVars, given>>

-----------------------------------------------------------------------------
(* shutdown                                                                *)

Shutdown(t, w, c) ==
    /\ at[t] = "out"
    /\ shut' = TRUE
    /\ wait' = [wait EXCEPT ![t] = w]
    /\ before' = [before EXCEPT ![t] = given]
    /\ Move(t, IF c THEN "snapshot" ELSE "await")
    /\ UNCHANGED <<futureVars, jobVars, cur, list, given>>

\* shutdown returns.
Leave(t) == /\ Move(t, "out")
            /\ wait' = [wait EXCEPT ![t] = FALSE]
            /\ list' = [list EXCEPT ![t] = {}]
            /\ before' = [before EXCEPT ![t] = {}]

\* for f in list(self._pending)
Snapshot(t) ==
    /\ at[t] = "snapshot"
    /\ list' = [list EXCEPT ![t] = pendingSet]
    /\ Move(t, "cancelall")
    /\ UNCHANGED <<shut, futureVars, jobVars, cur, wait, before,
                   given>>

\* f.cancel(), for one after the other
CancelNext(t) ==
    /\ at[t] = "cancelall"
    /\ \/ /\ list[t] = {}
          /\ Move(t, "await")
          /\ UNCHANGED <<state, cur, list>>
       \/ \E f \in list[t] :
            /\ list' = [list EXCEPT ![t] = @ \ {f}]
            /\ IF state[f] = "pending"
                 THEN /\ Set(f, "cancelled")
                      /\ cur' = [cur EXCEPT ![t] = f]
                      /\ Move(t, "cancelled")
                 ELSE UNCHANGED <<state, cur, at>>
    /\ UNCHANGED <<shut, hookedSet, pendingSet, jobVars, wait, before,
                   given>>

\* the callbacks of that cancel()
CancelCallbacks(t) ==
    /\ at[t] = "cancelled"
    /\ Cleanup(cur[t])
    /\ cur' = [cur EXCEPT ![t] = NoFuture]
    /\ Move(t, "cancelall")
    /\ UNCHANGED <<shut, state, hookedSet, jobVars, shutVars, given>>

NeverWaits(t) == FALSE         \* mutation: shutdown does not wait

\* wait and self._pending
Waits(t) == wait[t] /\ pendingSet # {}

Await(t) ==
    /\ at[t] = "await"
    /\ IF Waits(t)
         THEN /\ list' = [list EXCEPT ![t] = pendingSet]
              /\ Move(t, "wait")
              /\ UNCHANGED <<wait, before>>
         ELSE Leave(t)
    /\ UNCHANGED <<shut, futureVars, jobVars, cur, given>>

\* concurrent.futures.wait(list(self._pending)).  It counts futures that have
\* finished; a cancelled one counts once its executor has called
\* set_running_or_notify_cancel on it, which this executor never does.
WaitOver(t) ==
    /\ at[t] = "wait"
    /\ \A f \in list[t] : state[f] = "finished"
    /\ Leave(t)
    /\ UNCHANGED <<shut, futureVars, jobVars, cur, given>>

-----------------------------------------------------------------------------
CallerStep(t) == \/ Add(t) \/ HookCleanup(t) \/ Spawn(t) \/ Watch(t)
                 \/ ResolveInline(t) \/ Callbacks(t)
                 \/ Snapshot(t) \/ CancelNext(t) \/ CancelCallbacks(t)
                 \/ Await(t) \/ WaitOver(t)
JobStep(f) == RunJob(f) \/ ResolveInWorker(f) \/ CallbacksInWorker(f)

ExecNext == \/ \E t \in Callers :
             \/ CallerStep(t)
             \/ \E f \in Futures : Submit(t, f) \/ Cancel(t, f)
             \/ \E w, c \in BOOLEAN : Shutdown(t, w, c)
        \/ \E f \in Futures : JobStep(f)

ExecSpec == ExecInit /\ [][ExecNext]_execVars

\* A thread inside a call goes on, and the pool runs the callables it is given.
ExecFairness == /\ \A t \in Callers : WF_execVars(CallerStep(t))
            /\ \A f \in Futures : WF_execVars(JobStep(f))
ExecFairSpec == ExecSpec /\ ExecFairness

-----------------------------------------------------------------------------
(* Properties                                                              *)

\* _pending is what shutdown waits for.  An unresolved future is in it as soon
\* as submit has added it, and a resolved one is about to be taken out, however
\* the end of the job, cancel() and the hooking of _cleanup interleave.
Tracked ==
    \A f \in Futures :
      /\ state[f] = "pending" =>
           f \in pendingSet \/ \E t \in Callers : cur[t] = f /\ at[t] = "add"
      /\ state[f] # "pending" /\ f \in pendingSet =>
           \/ worker[f] = "callbacks"
           \/ \E t \in Callers : /\ cur[t] = f
                                 /\ at[t] \in {"hook", "callbacks", "cancelled"}

\* shutdown(wait=True) returns only when every future that submit had returned
\* before the call is resolved, also if others submit and cancel meanwhile.
ShutdownDrains ==
    [][\A t \in Callers :
         at[t] \in {"await", "wait"} /\ at'[t] = "out" /\ wait[t] =>
             \A f \in before[t] : state'[f] # "pending"]_execVars

\* No future is forgotten.  While one that submit has returned is unresolved,
\* its job is still to run and will resolve it, or a thread is about to, also
\* if the job ended before its done callback was added.
Attended ==
    \A f \in given : state[f] = "pending" =>
        \/ f \in watched /\ job[f] = "queued"
        \/ worker[f] = "resolve"

\* asyncio callers observe a completed future (asyncio_policy.py:78-79).
FutureResolved == \A f \in Futures : f \in given ~> state[f] # "pending"

\* shutdown returns, unless it waits for a future that was cancelled: by its
\* owner meanwhile, or by shutdown itself before _cleanup was hooked.  Nothing
\* else can hold it up.
ShutdownReturns ==
    \A t \in Callers : at[t] \in Closing ~>
        \/ at[t] = "out"
        \/ at[t] = "wait" /\ \E f \in list[t] : state[f] = "cancelled"
=============================================================================
