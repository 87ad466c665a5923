------------------------------ MODULE TaskCell ------------------------------
(***************************************************************************)
(* One task of hypertile-core (src/hypertile-core/src/task.rs): the atomic *)
(* `state`, the three mutex-protected slots `future`, `result` and         *)
(* `join_waker`, and every thread that touches them.  A step is one atomic *)
(* access: a compare-and-swap, or one short critical section.  The weak    *)
(* CAS loops are single steps, since a failed attempt only retries.        *)
(*                                                                         *)
(* Any idle thread may take the task's handle from a queue and run it, may *)
(* wake it through a Waker, or may cancel it.  A future that wakes or      *)
(* cancels itself from inside its own poll is another thread doing so      *)
(* while this one stands at "poll".                                        *)
(***************************************************************************)
EXTENDS Naturals

CONSTANTS Threads,   \* workers and any other thread that owns a Waker
          Joiners,   \* tasks the JoinHandle can be moved between
          None,
          MaxQueued  \* bound: clones are made while at most so many are queued

ASSUME ConstantsAssumption ==
    /\ MaxQueued \in Nat
    /\ None \notin Joiners
    /\ None \notin {"Ok", "Panicked", "Cancelled"}

VARIABLES
    state,        \* AtomicU8
    future,       \* is the boxed future in its slot?
    result,       \* the result slot: None or an outcome
    join_waker,   \* whose waker is stored, or None
    queued,       \* handles of this task in deques and the injector
    pc, out,      \* where each thread is, and the outcome it carries
    holder,       \* the joiner that owns the JoinHandle
    jpc,          \* where that joiner is
    woken,        \* joiners whose waker was fired
    delivered,    \* first outcome JoinHandle::poll returned
    verdict,      \* history: the outcome of the winning swap
    owed          \* history: a wake came and no poll has started since

threadVars == <<pc, out>>
joinVars   == <<holder, jpc, delivered>>
vars == <<state, future, result, join_waker, queued, pc, out,
          holder, jpc, woken, delivered, verdict, owed>>

Outcomes == {"Ok", "Panicked", "Cancelled"}
States   == {"IDLE", "SCHEDULED", "RUNNING", "COMPLETED"}
Pcs == {"idle", "claim", "take", "poll", "putback", "settle", "discard",
        "requeue", "enqueue", "complete", "publish", "handoff",
        "dropfut", "store"}
JoinPcs == {"ready", "looked", "storing", "parked", "done"}

TypeOK ==
    /\ state \in States
    /\ future \in BOOLEAN
    /\ result \in Outcomes \cup {None}
    /\ join_waker \in Joiners \cup {None}
    /\ queued \in Nat
    /\ pc \in [Threads -> Pcs]
    /\ out \in [Threads -> Outcomes \cup {None}]
    /\ holder \in Joiners
    /\ jpc \in JoinPcs
    /\ woken \subseteq Joiners
    /\ delivered \in Outcomes \cup {None}
    /\ verdict \in Outcomes \cup {None}
    /\ owed \in BOOLEAN

\* TaskCell::new, followed by the spawn that queues the handle.
Init ==
    /\ state = "SCHEDULED"
    /\ future = TRUE
    /\ result = None
    /\ join_waker = None
    /\ queued = 1
    /\ pc = [t \in Threads |-> "idle"]
    /\ out = [t \in Threads |-> None]
    /\ holder \in Joiners
    /\ jpc = "ready"
    /\ woken = {}
    /\ delivered = None
    /\ verdict = None
    /\ owed = FALSE

Goto(t, to) == pc' = [pc EXCEPT ![t] = to]

(* A name with a mutation comment is a plausible mistake in the operator   *)
(* that follows it; no action uses it.                                     *)

\* The result mutex is held by a publishing thread and by a polling joiner.
JoinerPolling == jpc \in {"looked", "storing"}
NoResultMutex == TRUE                       \* mutation: the mutex is not taken
ResultFree    == ~JoinerPolling /\ \A t \in Threads : pc[t] # "publish"

\* Threads inside JoinHandle::cancel past a winning swap.
Cancelling(t) == out[t] = "Cancelled"

-----------------------------------------------------------------------------
(* Wakers: Wake::wake_by_ref and mark_scheduled                            *)

\* mutation: a running task's wake is dropped, or queues a second handle
MarkedUnlessRunning == IF state = "RUNNING" THEN state ELSE "SCHEDULED"
MustQueueIfRunning  == state # "SCHEDULED"

\* What mark_scheduled stores, and when it returns true: only the step out
\* of IDLE obliges the waker to queue a handle.
Marked    == "SCHEDULED"
MustQueue == state = "IDLE"

\* mark_scheduled on a task that still accepts wakes
MarkScheduled(t) ==
    /\ pc[t] = "idle"
    /\ state # "COMPLETED"
    /\ state' = Marked
    /\ IF MustQueue THEN Goto(t, "enqueue") ELSE UNCHANGED pc
    /\ owed' = TRUE
    /\ UNCHANGED <<future, result, join_waker, queued, out, joinVars, woken,
                   verdict>>

\* try_push_local or TaskScheduler::schedule
Enqueue(t) ==
    /\ pc[t] \in {"enqueue", "requeue"}
    /\ queued' = queued + 1
    /\ Goto(t, "idle")
    /\ UNCHANGED <<state, future, result, join_waker, out, joinVars, woken,
                   verdict, owed>>

-----------------------------------------------------------------------------
(* Runners: Runnable::run                                                  *)

\* A worker takes a handle from a deque or the injector.
Pop(t) ==
    /\ pc[t] = "idle"
    /\ queued > 0
    /\ queued' = queued - 1
    /\ Goto(t, "claim")
    /\ UNCHANGED <<state, future, result, join_waker, out, joinVars, woken,
                   verdict, owed>>

\* compare_exchange(SCHEDULED, RUNNING)
Claim(t) ==
    /\ pc[t] = "claim"
    /\ IF state = "SCHEDULED"
         THEN state' = "RUNNING" /\ Goto(t, "take")
         ELSE UNCHANGED state /\ Goto(t, "idle")
    /\ UNCHANGED <<future, result, join_waker, queued, out, joinVars, woken,
                   verdict, owed>>

\* mutation: the future stays in the cell while it is polled
TakeBorrows(t) ==
    /\ pc[t] = "take"
    /\ Goto(t, IF future THEN "poll" ELSE "idle")
    /\ owed' = (owed /\ ~future)
    /\ UNCHANGED <<state, future, result, join_waker, queued, out, joinVars,
                   woken, verdict>>

\* future.lock().take(): the poll that follows serves every earlier wake.
Take(t) ==
    /\ pc[t] = "take"
    /\ future' = FALSE
    /\ Goto(t, IF future THEN "poll" ELSE "idle")
    /\ owed' = (owed /\ ~future)
    /\ UNCHANGED <<state, result, join_waker, queued, out, joinVars, woken,
                   verdict>>

\* Poll::Ready or a caught panic: the future is dropped and complete() called.
PollEnds(t) ==
    /\ pc[t] = "poll"
    /\ out' = [out EXCEPT ![t] = "Ok"] \/ out' = [out EXCEPT ![t] = "Panicked"]
    /\ Goto(t, "complete")
    /\ UNCHANGED <<state, future, result, join_waker, queued, joinVars, woken,
                   verdict, owed>>

\* mutation: RUNNING is left before the future is back in its slot
PollPendingEarly(t) ==
    /\ pc[t] = "poll"
    /\ Goto(t, "putback")
    /\ state' = IF state = "RUNNING" THEN "IDLE" ELSE state
    /\ UNCHANGED <<future, result, join_waker, queued, out, joinVars,
                   woken, verdict, owed>>

PollPending(t) ==
    /\ pc[t] = "poll"
    /\ Goto(t, "putback")
    /\ UNCHANGED <<state, future, result, join_waker, queued, out, joinVars,
                   woken, verdict, owed>>

PutBack(t) ==
    /\ pc[t] = "putback"
    /\ future' = TRUE
    /\ Goto(t, "settle")
    /\ UNCHANGED <<state, result, join_waker, queued, out, joinVars, woken,
                   verdict, owed>>

\* mutation: a wake during the poll is overwritten; a task cancelled during the
\* poll keeps its future
SettledOver   == IF state = "COMPLETED" THEN state ELSE "IDLE"
AfterNoDrop   == IF state = "SCHEDULED" THEN "requeue" ELSE "idle"

\* The loop after a pending poll: cancelled, woken, or back to IDLE.
Settled   == IF state \in {"COMPLETED", "SCHEDULED"} THEN state ELSE "IDLE"
AfterPoll == CASE state = "COMPLETED" -> "discard"
               [] state = "SCHEDULED" -> "requeue"
               [] OTHER               -> "idle"

Settle(t) ==
    /\ pc[t] = "settle"
    /\ state' = Settled
    /\ Goto(t, AfterPoll)
    /\ UNCHANGED <<future, result, join_waker, queued, out, joinVars, woken,
                   verdict, owed>>

Discard(t) ==
    /\ pc[t] = "discard"
    /\ future' = FALSE
    /\ Goto(t, "idle")
    /\ UNCHANGED <<state, result, join_waker, queued, out, joinVars, woken,
                   verdict, owed>>

-----------------------------------------------------------------------------
(* Completion: TaskCell::complete                                          *)

WinsAlways == TRUE             \* mutation: a cancelled task is completed anew

\* The swap found the task not COMPLETED yet.
Wins == state # "COMPLETED"

\* The swap, made while holding the result mutex.
Complete(t) ==
    /\ pc[t] = "complete"
    /\ ResultFree
    /\ state' = "COMPLETED"
    /\ owed' = FALSE
    /\ IF Wins
         THEN /\ Goto(t, "publish")
              /\ verdict' = out[t]
              /\ UNCHANGED out
         ELSE /\ Goto(t, "idle")
              /\ out' = [out EXCEPT ![t] = None]
              /\ UNCHANGED verdict
    /\ UNCHANGED <<future, result, join_waker, queued, joinVars, woken>>

\* *result = Some(outcome); drop(result)
Publish(t) ==
    /\ pc[t] = "publish"
    /\ result' = out[t]
    /\ Goto(t, "handoff")
    /\ UNCHANGED <<state, future, join_waker, queued, out, joinVars, woken,
                   verdict, owed>>

WokenNone == {}     \* mutation: the waker is taken but not woken

\* `if let Some(join_waker)`
Woken == {join_waker} \ {None}

\* join_waker.lock().take() and its wake(), in complete() and in cancel()
HandOff(t) ==
    /\ pc[t] = "handoff"
    /\ woken' = woken \cup Woken
    /\ join_waker' = None
    /\ Goto(t, "idle")
    /\ out' = [out EXCEPT ![t] = None]
    /\ UNCHANGED <<state, future, result, queued, joinVars, verdict, owed>>

-----------------------------------------------------------------------------
(* Cancellation: JoinHandle::cancel                                        *)

\* The swap.  `&self` keeps it apart from JoinHandle::poll's `&mut self`.
Cancel(t) ==
    /\ pc[t] = "idle"
    /\ ~JoinerPolling
    /\ state # "COMPLETED"
    /\ state' = "COMPLETED"
    /\ verdict' = "Cancelled"
    /\ out' = [out EXCEPT ![t] = "Cancelled"]
    /\ owed' = FALSE
    /\ Goto(t, "dropfut")
    /\ UNCHANGED <<future, result, join_waker, queued, joinVars, woken>>

DropFuture(t) ==
    /\ pc[t] = "dropfut"
    /\ future' = FALSE
    /\ Goto(t, "store")
    /\ UNCHANGED <<state, result, join_waker, queued, out, joinVars, woken,
                   verdict, owed>>

StoreCancelled(t) ==
    /\ pc[t] = "store"
    /\ ResultFree
    /\ result' = "Cancelled"
    /\ Goto(t, "handoff")
    /\ UNCHANGED <<state, future, join_waker, queued, out, joinVars, woken,
                   verdict, owed>>

-----------------------------------------------------------------------------
(* The joiner: JoinHandle::poll                                            *)

Returned(o) == /\ jpc' = "done"
               /\ delivered' = IF delivered = None THEN o ELSE delivered

\* Lock the result and take it; with no result the lock is kept.
JoinTake ==
    /\ jpc = "ready"
    /\ ResultFree
    /\ \A t \in Threads : ~Cancelling(t)
    /\ result' = None
    /\ IF result # None THEN Returned(result)
                        ELSE jpc' = "looked" /\ UNCHANGED delivered
    /\ UNCHANGED <<state, future, join_waker, queued, threadVars, holder,
                   woken, verdict, owed>>

\* No result is left, and none will come.
JoinOver == state = "COMPLETED"

\* state.load(): a completed task without a result reports Cancelled.
JoinLoad ==
    /\ jpc = "looked"
    /\ IF JoinOver THEN Returned("Cancelled")
                   ELSE jpc' = "storing" /\ UNCHANGED delivered
    /\ UNCHANGED <<state, future, result, join_waker, queued, threadVars,
                   holder, woken, verdict, owed>>

JoinStore ==
    /\ jpc = "storing"
    /\ join_waker' = holder
    /\ jpc' = "parked"
    /\ UNCHANGED <<state, future, result, queued, threadVars, holder, woken,
                   delivered, verdict, owed>>

\* The handle is polled again because its waker fired: by the executor, or by
\* block_on, whose waker unparks the thread that waits in parker.park().
JoinResume ==
    /\ jpc = "parked"
    /\ holder \in woken
    /\ woken' = woken \ {holder}
    /\ jpc' = "ready"
    /\ UNCHANGED <<state, future, result, join_waker, queued, threadVars,
                   holder, delivered, verdict, owed>>

\* The handle is polled again for another reason, by the same task or by a
\* task it was moved to, before or after it returned Ready.
JoinAgain ==
    /\ jpc \in {"parked", "done"}
    /\ holder' \in Joiners
    /\ jpc' = "ready"
    /\ UNCHANGED <<state, future, result, join_waker, queued, threadVars,
                   woken, delivered, verdict, owed>>

-----------------------------------------------------------------------------
RunStep(t) == \/ Claim(t) \/ Take(t) \/ PollEnds(t) \/ PollPending(t)
              \/ PutBack(t) \/ Settle(t) \/ Discard(t) \/ Enqueue(t)
              \/ Complete(t) \/ Publish(t) \/ HandOff(t)
              \/ DropFuture(t) \/ StoreCancelled(t)
JoinStep == JoinTake \/ JoinLoad \/ JoinStore \/ JoinResume

Next == \/ \E t \in Threads : \/ MarkScheduled(t) \/ Pop(t) \/ Cancel(t)
                              \/ RunStep(t)
        \/ JoinStep
        \/ JoinAgain

Spec == Init /\ [][Next]_vars

\* The executor keeps popping, a thread inside an operation finishes it (a
\* poll returns), and a woken joiner is polled.  Waiting for the result mutex
\* is strongly fair, as parking_lot's mutexes are.  Wakes, cancels and
\* spurious polls need never happen.
Fairness == /\ WF_vars(\E t \in Threads : Pop(t))
            /\ \A t \in Threads : /\ WF_vars(RunStep(t))
                                  /\ SF_vars(Complete(t) \/ StoreCancelled(t))
            /\ WF_vars(JoinStep)
FairSpec == Spec /\ Fairness

\* TaskHandle is Clone: its owner may run or inject a copy at any time.
CloneHandle(t) ==
    /\ pc[t] = "idle"
    /\ queued <= MaxQueued
    /\ Goto(t, "claim")
    /\ UNCHANGED <<state, future, result, join_waker, queued, out, joinVars,
                   woken, verdict, owed>>

CloneNext == Next \/ \E t \in Threads : CloneHandle(t)
CloneSpec == Init /\ [][CloneNext]_vars

-----------------------------------------------------------------------------
(* Properties                                                              *)

\* Threads that hold the task: they took its only handle, or must queue it.
Holds(t) == pc[t] \in {"claim", "take", "poll", "putback", "settle",
                       "discard", "requeue", "enqueue", "complete"}

Polling(t) == pc[t] \in {"take", "poll", "putback", "settle", "complete"}

\* The wake-up protocol of mark_scheduled and run never lets two handles of
\* one task exist: it is in one queue or with one thread.
OneHandle ==
    /\ queued \in {0, 1}
    /\ \A t \in Threads : Holds(t) => queued = 0
    /\ \A t, u \in Threads : Holds(t) /\ Holds(u) => t = u

\* A task that is SCHEDULED or RUNNING is in a queue or with a thread that
\* will look at `state` again, so the wake recorded there is not lost; an
\* IDLE task is nowhere.
NeverStranded ==
    /\ state = "SCHEDULED" => queued = 1 \/ \E t \in Threads : Holds(t)
    /\ state = "RUNNING" => \E t \in Threads : Polling(t)
    /\ state = "IDLE" => queued = 0 /\ \A t \in Threads : ~Holds(t)

\* A wake not yet answered by a poll is remembered by `state`: IDLE means
\* every wake was served (task.rs:236-238, "so the wake-up is not lost").
WakeRemembered ==
    owed => \/ state = "SCHEDULED"
            \/ state = "RUNNING" /\ \E t \in Threads : pc[t] = "take"

\* A live task's runner always finds the future in its slot (task.rs:222-225).
FuturePresent ==
    \A t \in Threads : pc[t] = "take" /\ state # "COMPLETED" => future

\* Once the task is over and no call is in progress, its future has been
\* dropped, whichever of run and cancel came last.
FutureReleased ==
    state = "COMPLETED" /\ (\A t \in Threads : pc[t] \in {"idle", "claim"})
        => ~future

\* Only one thread is ever inside the future, even with cloned handles.
PollExclusive ==
    /\ \A t, u \in Threads : pc[t] \in {"poll", "putback"}
                             /\ pc[u] \in {"poll", "putback"} => t = u
    /\ \A t \in Threads : pc[t] \in {"poll", "putback"} => ~future

\* The JoinHandle lost-wake-up race: a joiner that parked on a finished task
\* has been woken, or the thread that finished it has yet to call the waker.
JoinerWoken ==
    jpc = "parked" /\ state = "COMPLETED" =>
        \/ holder \in woken
        \/ /\ join_waker = holder
           /\ \E t \in Threads : pc[t] \in {"publish", "handoff", "dropfut",
                                            "store"}

\* A handle that returned Ready never goes back to waiting.
ReadyIsFinal == delivered # None => jpc \notin {"storing", "parked"}

\* complete() and cancel() agree on one outcome, which the joiner receives.
Join == INSTANCE JoinOutcome WITH outcome <- verdict
ImplementsJoin == Join!JoinSpec

\* The pool's side of the handle: it is queued, or some thread is inside
\* run() with it.  A thread about to queue a woken task has no handle yet.
Running(t) ==
    \/ pc[t] \in {"claim", "take", "poll", "putback", "settle", "discard",
                   "requeue", "complete", "publish"}
    \/ pc[t] = "handoff" /\ ~Cancelling(t)

\* Wakers and run() use the pool as TaskPool, and so Pool, has it: a handle is
\* submitted only while it is neither queued nor being run.
Uses == INSTANCE TaskPool
          WITH Tasks  <- {"handle"},
               queued <- {h \in {"handle"} : queued > 0},
               active <- {h \in {"handle"} : \E t \in Threads : Running(t)}
UsesPool == [][Uses!PoolNext]_<<queued, {t \in Threads : Running(t)}>>

\* Every wake of a live task is answered by a poll that starts after it.
WakeServed == owed ~> ~owed
\* A joiner eventually receives the outcome of a finished task.
JoinerServed == verdict # None ~> delivered # None
=============================================================================
