----------------------------- MODULE PyCoroutine -----------------------------
(***************************************************************************)
(* One Python coroutine stepped by the pool (src/hypertile-sys/src/        *)
(* bilingual.rs): every run takes the `coro` mutex, looks at the           *)
(* cancellation token, sends what the last awaited future brought, and     *)
(* either ends the coroutine, queues it again, or hooks a closure into the *)
(* future it yielded.  The future completes in another thread, at any      *)
(* moment, also before and while the hook is put in.                       *)
(*                                                                         *)
(* On a build with a global interpreter lock a thread needs it for every   *)
(* step of Python code, may be switched out while it runs any, and keeps   *)
(* it while it waits for a Rust mutex; on a free-threaded build (gil is    *)
(* NoGil throughout) threads interleave freely.                            *)
(*                                                                         *)
(* A name with a mutation comment is a plausible mistake in the operator   *)
(* that follows it; no action uses it.                                     *)
(***************************************************************************)
EXTENDS Naturals

CONSTANTS Workers, None,
          NoGil,    \* the interpreter has no global lock
          MaxSteps  \* bound: the coroutine ends after at most so many steps

ASSUME CoroutineAssumption ==
    /\ MaxSteps \in Nat \ {0}
    /\ None \notin Workers
    /\ NoGil \notin Workers \cup {None}

VARIABLES
    coro,       \* is the coroutine still in its mutex?
    lock,       \* the worker that holds that mutex
    gil,        \* the worker that holds the interpreter lock
    token,      \* the cancellation token
    pending,    \* pending_value: None, "value" or "error"
    queued,     \* handles of this task in the pool's queues
    pc,         \* where each worker is
    fut,        \* the awaitable yielded last: "none", "pending" or "done"
    kind,       \* "future": it has exception() and gives itself to wake_fn;
                \* "task": it lacks the one or does not do the other, as the
                \* tasks of this extension
    outcome,    \* what it brings
    hooked,     \* has it got wake_fn as a done callback?
    loop,       \* where the thread that completes futures is in wake_fn
    steps,      \* times the coroutine was resumed
    answer,     \* what done_callback was given
    calls,      \* history: how often it was called
    main        \* run_level1: "waiting", "answered" or "interrupted"

futVars == <<fut, kind, outcome, hooked>>
endVars == <<answer, calls, main>>
vars == <<coro, lock, gil, token, pending, queued, pc, futVars, loop, steps,
          endVars>>

Answers == {"value", "error", "panic", "unsupported", "cancelled"}

TypeOK ==
    /\ coro \in BOOLEAN
    /\ lock \in Workers \cup {None}
    /\ gil \in Workers \cup {None, NoGil}
    /\ token \in BOOLEAN
    /\ pending \in {None, "value", "error"}
    /\ queued \in {0, 1}
    /\ pc \in [Workers -> {"idle", "attach", "lock", "step", "hook", "set",
                           "inject", "return", "unlock"}]
    /\ fut \in {"none", "pending", "done"}
    /\ kind \in {None, "future", "task"}
    /\ outcome \in {None, "value", "error", "cancelled"}
    /\ hooked \in BOOLEAN
    /\ loop \in {"idle", "set", "inject"}
    /\ steps \in Nat
    /\ answer \in Answers \cup {None}
    /\ calls \in Nat
    /\ main \in {"waiting", "answered", "interrupted"}

\* spawn_coroutine has injected the task; its token may already be cancelled.
Init ==
    /\ coro = TRUE
    /\ lock = None
    /\ gil \in {None, NoGil}
    /\ token \in BOOLEAN
    /\ pending = None
    /\ queued = 1
    /\ pc = [w \in Workers |-> "idle"]
    /\ fut = "none" /\ kind = None /\ outcome = None /\ hooked = FALSE
    /\ loop = "idle"
    /\ steps = 0
    /\ answer = None
    /\ calls = 0
    /\ main = "waiting"

Goto(w, to) == pc' = [pc EXCEPT ![w] = to]

\* A worker runs Python code with the interpreter lock; other threads take it
\* for a moment.
Attached(w) == gil \in {w, NoGil}
GilFree     == gil \in {None, NoGil}
Released    == IF gil = NoGil THEN NoGil ELSE None

\* The coroutine is dropped and done_callback, taken out of its slot, called;
\* returning then releases the mutex and the interpreter.
Finish(w, what) ==
    /\ coro' = FALSE
    /\ answer' = what
    /\ calls' = calls + 1
    /\ lock' = None
    /\ gil' = Released
    /\ Goto(w, "idle")
    /\ UNCHANGED main

-----------------------------------------------------------------------------
(* PyCoroutineTask::run                                                    *)

Take(w) ==
    /\ pc[w] = "idle" /\ queued > 0
    /\ queued' = queued - 1
    /\ Goto(w, "attach")
    /\ UNCHANGED <<coro, lock, gil, token, pending, futVars, loop, steps,
                   endVars>>

\* Python::attach
Attach(w) ==
    /\ pc[w] = "attach" /\ GilFree
    /\ gil' = IF gil = NoGil THEN NoGil ELSE w
    /\ Goto(w, "lock")
    /\ UNCHANGED <<coro, lock, token, pending, queued, futVars, loop, steps,
                   endVars>>

\* self.coro.lock(), which waits without giving the interpreter lock up
LockCoro(w) ==
    /\ pc[w] = "lock" /\ lock = None
    /\ IF coro THEN lock' = w /\ Goto(w, "step") /\ UNCHANGED gil
               ELSE gil' = Released /\ Goto(w, "idle") /\ UNCHANGED lock
    /\ UNCHANGED <<coro, token, pending, queued, futVars, loop, steps, endVars>>

\* Inside send, throw, add_done_callback, exception and result the interpreter
\* may let another thread run.
GiveUpGil(w) ==
    /\ gil = w /\ pc[w] \in {"step", "hook", "set", "return"}
    /\ gil' = None
    /\ UNCHANGED <<coro, lock, token, pending, queued, pc, futVars, loop, steps,
                   endVars>>

RegainGil(w) ==
    /\ gil = None /\ pc[w] \in {"step", "hook", "set", "return"}
    /\ gil' = w
    /\ UNCHANGED <<coro, lock, token, pending, queued, pc, futVars, loop, steps,
                   endVars>>

\* Whatever the coroutine does with the TaskCancelled thrown into it.
StepCancelled(w) ==
    /\ pc[w] = "step" /\ Attached(w) /\ token
    /\ Finish(w, "cancelled")
    /\ UNCHANGED <<token, pending, queued, futVars, loop, steps>>

Peeked == pending     \* mutation: pending_value is read but not taken
Taken == None

\* Before a send or throw of what pending_value held.
Resume(w) ==
    /\ pc[w] = "step" /\ Attached(w) /\ ~token
    /\ steps' = steps + 1
    /\ pending' = Taken
    /\ UNCHANGED <<token, loop>>

\* StopIteration, any other exception, or a panic
StepEnds(w) ==
    /\ Resume(w)
    /\ \E what \in {"value", "error", "panic"} : Finish(w, what)
    /\ UNCHANGED <<queued, futVars>>

\* A bare `yield None`: queued again at once, the mutex still held.
StepYieldsNone(w) ==
    /\ Resume(w)
    /\ steps' < MaxSteps
    /\ queued' = queued + 1
    /\ fut' = "none" /\ kind' = None /\ outcome' = None /\ hooked' = FALSE
    /\ Goto(w, "unlock")
    /\ UNCHANGED <<coro, lock, gil, endVars>>

\* mutation: the executor waits for something that never wakes the coroutine
SleepForever(w) ==
    Goto(w, "unlock") /\ UNCHANGED <<coro, lock, gil, endVars>>
FailLoudly(w) == Finish(w, "unsupported")

\* Something else without add_done_callback, or whose add_done_callback raises.
StepYieldsOther(w) ==
    /\ Resume(w)
    /\ steps' < MaxSteps
    /\ fut' = "none" /\ kind' = None /\ outcome' = None /\ hooked' = FALSE
    /\ FailLoudly(w)
    /\ UNCHANGED queued

\* What an awaitable may bring: exception() and result() of a cancelled future
\* raise; a task has only result(), which raises whatever went wrong.
Outcomes(k) == {"value", "error"} \cup (IF k = "future" THEN {"cancelled"} ELSE {})

\* An object with add_done_callback, done already or not.
StepYieldsFuture(w) ==
    /\ Resume(w)
    /\ steps' < MaxSteps
    /\ fut' \in {"pending", "done"}
    /\ kind' \in {"future", "task"}
    /\ outcome' \in IF fut' = "done" THEN Outcomes(kind') ELSE {None}
    /\ hooked' = FALSE
    /\ Goto(w, "hook")
    /\ UNCHANGED <<coro, lock, gil, queued, endVars>>

RequeueToo == queued + 1     \* mutation: a hooked coroutine is queued as well
HookQueues == queued

\* add_done_callback: a done future calls wake_fn at once, as the tasks of this
\* extension do, or has its event loop call it soon, as asyncio does.  The
\* callback may come before the call has returned.
Hook(w) ==
    /\ pc[w] = "hook" /\ Attached(w)
    /\ hooked' = TRUE
    /\ queued' = HookQueues
    /\ \/ fut = "pending" /\ Goto(w, "return") /\ UNCHANGED loop
       \/ fut = "done" /\ Goto(w, "set") /\ UNCHANGED loop
       \/ fut = "done" /\ Goto(w, "return") /\ loop' = "set"
    /\ UNCHANGED <<coro, lock, gil, token, pending, fut, kind, outcome, steps,
                   endVars>>

\* add_done_callback has returned, or nothing was hooked; run returns.
Unlock(w) ==
    /\ pc[w] \in {"return", "unlock"} /\ Attached(w)
    /\ lock' = None
    /\ gil' = Released
    /\ Goto(w, "idle")
    /\ UNCHANGED <<coro, token, pending, queued, futVars, loop, steps, endVars>>

-----------------------------------------------------------------------------
(* wake_fn, in the hooking worker or in the thread that completes futures  *)

\* The exception is asked for of a future that was passed to wake_fn.  Whatever
\* else it hooked is only asked for its result(), and of one that raises nothing
\* is stored: neither of a cancelled future, which raises again when the
\* coroutine is resumed, nor of a failed task.
Carried ==
    IF outcome = "value" \/ (outcome = "error" /\ kind = "future")
    THEN outcome ELSE pending

SetPending(w) ==
    /\ pc[w] = "set" /\ Attached(w)
    /\ pending' = Carried
    /\ Goto(w, "inject")
    /\ UNCHANGED <<coro, lock, gil, token, queued, futVars, loop, steps, endVars>>

Inject(w) ==
    /\ pc[w] = "inject"
    /\ queued' = queued + 1
    /\ Goto(w, "return")
    /\ UNCHANGED <<coro, lock, gil, token, pending, futVars, loop, steps,
                   endVars>>

LoopSets ==
    /\ loop = "set" /\ GilFree
    /\ pending' = Carried
    /\ loop' = "inject"
    /\ UNCHANGED <<coro, lock, gil, token, queued, pc, futVars, steps, endVars>>

LoopInjects ==
    /\ loop = "inject" /\ GilFree
    /\ queued' = queued + 1
    /\ loop' = "idle"
    /\ UNCHANGED <<coro, lock, gil, token, pending, pc, futVars, steps, endVars>>

CompleteFuture ==
    /\ fut = "pending" /\ GilFree
    /\ fut' = "done"
    /\ outcome' \in Outcomes(kind)
    /\ loop' = IF hooked THEN "set" ELSE loop
    /\ UNCHANGED <<coro, lock, gil, token, pending, queued, pc, kind, hooked,
                   steps, endVars>>

\* CancellationToken.cancel: nobody is woken.
CancelToken ==
    /\ ~token /\ GilFree
    /\ token' = TRUE
    /\ UNCHANGED <<coro, lock, gil, pending, queued, pc, futVars, loop, steps,
                   endVars>>

-----------------------------------------------------------------------------
(* run_level1: the caller waits without the interpreter lock               *)

\* done_fn has sent the outcome, which recv_timeout returns.
Receive ==
    /\ main = "waiting" /\ calls > 0 /\ GilFree
    /\ main' = "answered"
    /\ UNCHANGED <<coro, lock, gil, token, pending, queued, pc, futVars, loop,
                   steps, answer, calls>>

\* After 50 ms check_signals raises; the coroutine goes on without its caller.
Interrupt ==
    /\ main = "waiting" /\ GilFree
    /\ main' = "interrupted"
    /\ UNCHANGED <<coro, lock, gil, token, pending, queued, pc, futVars, loop,
                   steps, answer, calls>>

-----------------------------------------------------------------------------
Step(w) == \/ StepCancelled(w) \/ StepEnds(w) \/ StepYieldsNone(w)
           \/ StepYieldsOther(w) \/ StepYieldsFuture(w)
Run(w)  == \/ Take(w) \/ Attach(w) \/ LockCoro(w) \/ Step(w) \/ Hook(w)
           \/ SetPending(w) \/ Inject(w) \/ Unlock(w)
Wake    == LoopSets \/ LoopInjects

Next == \/ \E w \in Workers : Run(w) \/ GiveUpGil(w) \/ RegainGil(w)
        \/ Wake \/ CompleteFuture \/ CancelToken \/ Receive \/ Interrupt

Spec == Init /\ [][Next]_vars

\* Some worker takes the queued task, a run goes on once begun, the futures
\* this coroutine awaits complete and their callbacks are called; threads that
\* want the interpreter lock get it, however often it changes hands.
Fairness == /\ WF_vars(\E w \in Workers : Take(w))
            /\ \A w \in Workers : SF_vars(Run(w)) /\ SF_vars(RegainGil(w))
            /\ SF_vars(Wake) /\ SF_vars(CompleteFuture) /\ SF_vars(Receive)
FairSpec == Spec /\ Fairness

-----------------------------------------------------------------------------
(* Properties                                                              *)

Stepping(w) == pc[w] \in {"attach", "lock", "step", "hook", "set", "inject"}
Awaited     == loop # "idle" \/ (fut = "pending" /\ hooked)

\* Never two wake-ups, whenever the future completed around its hooking, ...
AtMostOne ==
    /\ \A w \in Workers : Stepping(w) => queued = 0 /\ ~Awaited
    /\ \A w, v \in Workers : Stepping(w) /\ Stepping(v) => w = v
    /\ Awaited => queued = 0
\* ... and never none, also when it yields something that cannot wake it.
NeverAbandoned ==
    coro => queued = 1 \/ Awaited \/ \E w \in Workers : Stepping(w)

\* Exactly one wake-up for each step: a coroutine that has not ended is queued,
\* being stepped, or awaited by one hooked future, and only one of the three.
HandleOnce == AtMostOne /\ NeverAbandoned

\* The coroutine is never resumed while what it awaits is pending, never gets
\* what an earlier awaitable brought, and gets every result and the exception of
\* every future; an awaitable that only result() was asked of may have failed
\* without its knowing.
ResumeRight ==
    \A w \in Workers : pc[w] = "step" =>
        \/ fut = "none" /\ pending = None
        \/ /\ fut = "done" /\ pending \in {None, outcome}
           /\ outcome = "value" \/ (outcome = "error" /\ kind = "future")
                => pending = outcome

\* What run_level1's doc says: it "runs a root coroutine to completion"
\* (sys/src/lib.rs:208).  On builds with a global lock it may not.
Completes == <>[](calls = 1 /\ main # "waiting")

\* One worker holds the interpreter and waits for the mutex; another holds the
\* mutex and waits, inside add_done_callback, for the interpreter.
Stuck == \E w, v \in Workers :
    pc[w] = "lock" /\ gil = w /\ lock = v /\ pc[v] = "return"

\* The done callback is called, once and for all, on return, exception, panic,
\* cancellation, and for an awaitable this executor cannot drive, and run_level1
\* returns; nothing but the two locks taken in turn can keep it from that.
CompletesOrStuck == <>[](calls = 1 /\ main # "waiting") \/ <>[]Stuck
=============================================================================
