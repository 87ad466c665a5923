---------------------------- MODULE PythonProofs ----------------------------
(***************************************************************************)
(* Theorems about the Python layer, for any number of threads.             *)
(*                                                                         *)
(* First about PyCoroutine: each step of the coroutine has exactly one     *)
(* wake-up and is resumed with the outcome of the future it awaited, and   *)
(* its done callback is called at most once.  Then about AsyncioExecutor,  *)
(* which shares no variable with it: _pending is exact, no future is       *)
(* forgotten, and shutdown waits for what it should.                       *)
(***************************************************************************)
EXTENDS PyCoroutine, AsyncioExecutor, TLAPS

\* What a resumed coroutine must find in pending_value.
Ready ==
    \/ fut = "none" /\ pending = None
    \/ fut = "done" /\ pending = (IF outcome = "value"
                                     \/ (outcome = "error" /\ kind = "future")
                                  THEN outcome ELSE None)

\* Where the one wake-up of the coroutine is tells what pending_value holds:
\* nothing until wake_fn has stored the outcome, Ready from then on.
Flow ==
    /\ fut = "done" => outcome \in Outcomes(kind)
    /\ loop # "idle" => fut = "done"
    /\ fut = "pending" => pending = None
    /\ loop = "set" => pending = None
    /\ queued = 1 \/ loop = "inject" => Ready
    /\ \A w \in Workers : pc[w] \in {"attach", "lock", "step", "inject"} => Ready
    /\ \A w \in Workers : pc[w] \in {"hook", "set"} => pending = None
    /\ \A w \in Workers : pc[w] \in {"set", "inject"} => fut = "done"
    /\ \A w \in Workers : pc[w] = "hook" => ~hooked

\* run() leaves every variable in its type and hands its wake-up on: into the
\* queue, to the future it hooked, or to wake_fn.
LEMMA Wakes == Spec => [](TypeOK /\ AtMostOne /\ Flow)
<1>1. Init => TypeOK /\ AtMostOne /\ Flow
  <2> SUFFICES ASSUME Init PROVE TypeOK /\ AtMostOne /\ Flow
    OBVIOUS
  <2>1. coro \in BOOLEAN /\ token \in BOOLEAN /\ hooked \in BOOLEAN
    BY Zenon DEF Init
  <2>2. TypeOK
    BY <2>1, CoroutineAssumption, SMT DEF Init, TypeOK
  <2> QED BY <2>2, SMT DEF Init, AtMostOne, Flow, Stepping, Awaited, Ready
<1>2. TypeOK /\ AtMostOne /\ Flow /\ [Next]_vars => TypeOK'
  <2> SUFFICES ASSUME TypeOK, AtMostOne, Flow, [Next]_vars
               PROVE  TypeOK'
    OBVIOUS
  <2> USE CoroutineAssumption DEF TypeOK, AtMostOne, Flow, Stepping, Awaited, Goto,
          futVars, endVars, Released, Answers
  <2>1. ASSUME NEW w \in Workers, Take(w) PROVE TypeOK'
    BY <2>1 DEF Take
  <2>2. ASSUME NEW w \in Workers, LockCoro(w) PROVE TypeOK'
    BY <2>2 DEF LockCoro
  <2>3. ASSUME NEW w \in Workers, StepCancelled(w) PROVE TypeOK'
    <3>1. coro' \in BOOLEAN /\ hooked' \in BOOLEAN /\ answer' \in Answers \cup {None}
      BY <2>3 DEF StepCancelled, Finish
    <3>2. lock' \in Workers \cup {None} /\ queued' \in {0, 1}
      BY <2>3 DEF StepCancelled, Finish
    <3> QED BY <2>3, <3>1, <3>2 DEF StepCancelled, Finish
  <2>4. ASSUME NEW w \in Workers, StepEnds(w) PROVE TypeOK'
    <3>1. coro' \in BOOLEAN /\ hooked' \in BOOLEAN /\ answer' \in Answers \cup {None}
      BY <2>4 DEF StepEnds, Resume, Taken, Finish
    <3>2. lock' \in Workers \cup {None} /\ queued' \in {0, 1}
      BY <2>4 DEF StepEnds, Resume, Taken, Finish
    <3> QED BY <2>4, <3>1, <3>2 DEF StepEnds, Resume, Taken, Finish
  <2>5. ASSUME NEW w \in Workers, StepYieldsNone(w) PROVE TypeOK'
    <3>1. coro' \in BOOLEAN /\ hooked' \in BOOLEAN /\ answer' \in Answers \cup {None}
      BY <2>5 DEF StepYieldsNone, Resume, Taken
    <3>2. lock' \in Workers \cup {None} /\ queued' \in {0, 1}
      BY <2>5 DEF StepYieldsNone, Resume, Taken
    <3> QED BY <2>5, <3>1, <3>2 DEF StepYieldsNone, Resume, Taken
  <2>6. ASSUME NEW w \in Workers, StepYieldsOther(w) PROVE TypeOK'
    <3>1. coro' \in BOOLEAN /\ hooked' \in BOOLEAN /\ answer' \in Answers \cup {None}
      BY <2>6 DEF StepYieldsOther, Resume, Taken, FailLoudly, Finish
    <3>2. lock' \in Workers \cup {None} /\ queued' \in {0, 1}
      BY <2>6 DEF StepYieldsOther, Resume, Taken, FailLoudly, Finish
    <3> QED BY <2>6, <3>1, <3>2 DEF StepYieldsOther, Resume, Taken, FailLoudly, Finish
  <2>7. ASSUME NEW w \in Workers, StepYieldsFuture(w) PROVE TypeOK'
    <3>1. coro' \in BOOLEAN /\ hooked' \in BOOLEAN /\ answer' \in Answers \cup {None}
      BY <2>7 DEF StepYieldsFuture, Resume, Taken, Outcomes
    <3>2. lock' \in Workers \cup {None} /\ queued' \in {0, 1}
      BY <2>7 DEF StepYieldsFuture, Resume, Taken, Outcomes
    <3> QED BY <2>7, <3>1, <3>2 DEF StepYieldsFuture, Resume, Taken, Outcomes
  <2>8. ASSUME NEW w \in Workers, Hook(w) PROVE TypeOK'
    BY <2>8 DEF Hook, HookQueues
  <2>9. ASSUME NEW w \in Workers, SetPending(w) PROVE TypeOK'
    BY <2>9 DEF SetPending, Carried, Outcomes
  <2>10. ASSUME NEW w \in Workers, Inject(w) PROVE TypeOK'
    BY <2>10 DEF Inject
  <2>11. ASSUME NEW w \in Workers, Unlock(w) PROVE TypeOK'
    BY <2>11 DEF Unlock
  <2>12. CASE LoopSets
    BY <2>12 DEF LoopSets, Carried, Outcomes
  <2>13. CASE LoopInjects
    BY <2>13 DEF LoopInjects
  <2>14. CASE CompleteFuture
    BY <2>14 DEF CompleteFuture, Outcomes
  <2>15. CASE CancelToken
    BY <2>15 DEF CancelToken
  <2>16. CASE UNCHANGED vars
    BY <2>16 DEF vars
  <2>17. ASSUME NEW w \in Workers, Attach(w) PROVE TypeOK'
    BY <2>17 DEF Attach
  <2>18. ASSUME NEW w \in Workers, GiveUpGil(w) \/ RegainGil(w) PROVE TypeOK'
    BY <2>18 DEF GiveUpGil, RegainGil
  <2>19. CASE Receive \/ Interrupt
    BY <2>19 DEF Receive, Interrupt
  <2> QED
    BY <2>1, <2>2, <2>3, <2>4, <2>5, <2>6, <2>7, <2>8, <2>9, <2>10, <2>11,
       <2>12, <2>13, <2>14, <2>15, <2>16,
       <2>17, <2>18, <2>19
    DEF Next, Run, Step, Wake
<1>3. TypeOK /\ AtMostOne /\ Flow /\ [Next]_vars => AtMostOne'
  <2> SUFFICES ASSUME TypeOK, AtMostOne, Flow, [Next]_vars
               PROVE  AtMostOne'
    OBVIOUS
  <2> USE CoroutineAssumption DEF TypeOK, AtMostOne, Flow, Stepping, Awaited, Goto,
          futVars, endVars
  <2>1. ASSUME NEW w \in Workers, Take(w) PROVE AtMostOne'
    BY <2>1 DEF Take
  <2>2. ASSUME NEW w \in Workers, LockCoro(w) PROVE AtMostOne'
    BY <2>2 DEF LockCoro
  <2>3. ASSUME NEW w \in Workers, StepCancelled(w) PROVE AtMostOne'
    BY <2>3 DEF StepCancelled, Finish
  <2>4. ASSUME NEW w \in Workers, StepEnds(w) PROVE AtMostOne'
    BY <2>4 DEF StepEnds, Resume, Taken, Finish
  <2>5. ASSUME NEW w \in Workers, StepYieldsNone(w) PROVE AtMostOne'
    BY <2>5 DEF StepYieldsNone, Resume, Taken
  <2>6. ASSUME NEW w \in Workers, StepYieldsOther(w) PROVE AtMostOne'
    BY <2>6 DEF StepYieldsOther, Resume, Taken, FailLoudly, Finish
  <2>7. ASSUME NEW w \in Workers, StepYieldsFuture(w) PROVE AtMostOne'
    BY <2>7 DEF StepYieldsFuture, Resume, Taken, Outcomes
  <2>8. ASSUME NEW w \in Workers, Hook(w) PROVE AtMostOne'
    BY <2>8 DEF Hook, HookQueues
  <2>9. ASSUME NEW w \in Workers, SetPending(w) PROVE AtMostOne'
    BY <2>9 DEF SetPending, Carried, Outcomes
  <2>10. ASSUME NEW w \in Workers, Inject(w) PROVE AtMostOne'
    BY <2>10 DEF Inject
  <2>11. ASSUME NEW w \in Workers, Unlock(w) PROVE AtMostOne'
    BY <2>11 DEF Unlock
  <2>12. CASE LoopSets
    BY <2>12 DEF LoopSets, Carried, Outcomes
  <2>13. CASE LoopInjects
    BY <2>13 DEF LoopInjects
  <2>14. CASE CompleteFuture
    BY <2>14 DEF CompleteFuture, Outcomes
  <2>15. CASE CancelToken
    BY <2>15 DEF CancelToken
  <2>16. CASE UNCHANGED vars
    BY <2>16 DEF vars
  <2>17. ASSUME NEW w \in Workers, Attach(w) PROVE AtMostOne'
    BY <2>17 DEF Attach
  <2>18. ASSUME NEW w \in Workers, GiveUpGil(w) \/ RegainGil(w) PROVE AtMostOne'
    BY <2>18 DEF GiveUpGil, RegainGil
  <2>19. CASE Receive \/ Interrupt
    BY <2>19 DEF Receive, Interrupt
  <2> QED
    BY <2>1, <2>2, <2>3, <2>4, <2>5, <2>6, <2>7, <2>8, <2>9, <2>10, <2>11,
       <2>12, <2>13, <2>14, <2>15, <2>16,
       <2>17, <2>18, <2>19
    DEF Next, Run, Step, Wake
<1>4. TypeOK /\ AtMostOne /\ Flow /\ [Next]_vars => Flow'
  <2> SUFFICES ASSUME TypeOK, AtMostOne, Flow, [Next]_vars
               PROVE  Flow'
    OBVIOUS
  <2> USE CoroutineAssumption DEF TypeOK, AtMostOne, Flow, Stepping, Awaited, Goto,
          futVars, endVars, Ready
  <2>1. ASSUME NEW w \in Workers, Take(w) PROVE Flow'
    BY <2>1 DEF Take
  <2>2. ASSUME NEW w \in Workers, LockCoro(w) PROVE Flow'
    BY <2>2 DEF LockCoro
  <2>3. ASSUME NEW w \in Workers, StepCancelled(w) PROVE Flow'
    BY <2>3 DEF StepCancelled, Finish
  <2>4. ASSUME NEW w \in Workers, StepEnds(w) PROVE Flow'
    BY <2>4 DEF StepEnds, Resume, Taken, Finish
  <2>5. ASSUME NEW w \in Workers, StepYieldsNone(w) PROVE Flow'
    BY <2>5 DEF StepYieldsNone, Resume, Taken
  <2>6. ASSUME NEW w \in Workers, StepYieldsOther(w) PROVE Flow'
    BY <2>6 DEF StepYieldsOther, Resume, Taken, FailLoudly, Finish
  <2>7. ASSUME NEW w \in Workers, StepYieldsFuture(w) PROVE Flow'
    BY <2>7 DEF StepYieldsFuture, Resume, Taken, Outcomes
  <2>8. ASSUME NEW w \in Workers, Hook(w) PROVE Flow'
    BY <2>8 DEF Hook, HookQueues
  <2>9. ASSUME NEW w \in Workers, SetPending(w) PROVE Flow'
    BY <2>9 DEF SetPending, Carried, Outcomes
  <2>10. ASSUME NEW w \in Workers, Inject(w) PROVE Flow'
    BY <2>10 DEF Inject
  <2>11. ASSUME NEW w \in Workers, Unlock(w) PROVE Flow'
    BY <2>11 DEF Unlock
  <2>12. CASE LoopSets
    BY <2>12 DEF LoopSets, Carried, Outcomes
  <2>13. CASE LoopInjects
    BY <2>13 DEF LoopInjects
  <2>14. CASE CompleteFuture
    BY <2>14 DEF CompleteFuture, Outcomes
  <2>15. CASE CancelToken
    BY <2>15 DEF CancelToken
  <2>16. CASE UNCHANGED vars
    BY <2>16 DEF vars
  <2>17. ASSUME NEW w \in Workers, Attach(w) PROVE Flow'
    BY <2>17 DEF Attach
  <2>18. ASSUME NEW w \in Workers, GiveUpGil(w) \/ RegainGil(w) PROVE Flow'
    BY <2>18 DEF GiveUpGil, RegainGil
  <2>19. CASE Receive \/ Interrupt
    BY <2>19 DEF Receive, Interrupt
  <2> QED
    BY <2>1, <2>2, <2>3, <2>4, <2>5, <2>6, <2>7, <2>8, <2>9, <2>10, <2>11,
       <2>12, <2>13, <2>14, <2>15, <2>16,
       <2>17, <2>18, <2>19
    DEF Next, Run, Step, Wake
<1> QED
  BY <1>1, <1>2, <1>3, <1>4, PTL DEF Spec

\* The coroutine is resumed only when what it yielded is done, with its result
\* or, if it is a future, its exception, and never with an earlier outcome.
THEOREM RightOutcome == Spec => []ResumeRight
<1>1. Flow => ResumeRight
  BY DEF Flow, ResumeRight, Ready, Outcomes
<1> QED BY <1>1, Wakes, PTL

-----------------------------------------------------------------------------
\* A worker past the lock holds the mutex, and the coroutine is there as long
\* as nobody has called the done callback.
CallbackOnce == calls <= 1
Guarded ==
    /\ \A w \in Workers : pc[w] \in {"step", "hook", "set", "inject", "return", "unlock"}
         => lock = w
    /\ \A w \in Workers : pc[w] = "step" => coro
    /\ calls = IF coro THEN 0 ELSE 1

\* A step runs inside the coroutine mutex and calls done_callback at its end.
LEMMA Guards == Spec => []Guarded
<1>1. Init => Guarded
  BY DEF Init, Guarded
<1>2. TypeOK /\ Guarded /\ [Next]_vars => Guarded'
  <2> SUFFICES ASSUME TypeOK, Guarded, [Next]_vars
               PROVE  Guarded'
    OBVIOUS
  <2> USE CoroutineAssumption DEF TypeOK, Guarded, Goto, futVars, endVars
  <2>1. ASSUME NEW w \in Workers, Take(w) PROVE Guarded'
    BY <2>1 DEF Take
  <2>2. ASSUME NEW w \in Workers, LockCoro(w) PROVE Guarded'
    BY <2>2 DEF LockCoro
  <2>3. ASSUME NEW w \in Workers, StepCancelled(w) PROVE Guarded'
    BY <2>3 DEF StepCancelled, Finish
  <2>4. ASSUME NEW w \in Workers, StepEnds(w) PROVE Guarded'
    BY <2>4 DEF StepEnds, Resume, Taken, Finish
  <2>5. ASSUME NEW w \in Workers, StepYieldsNone(w) PROVE Guarded'
    BY <2>5 DEF StepYieldsNone, Resume, Taken
  <2>6. ASSUME NEW w \in Workers, StepYieldsOther(w) PROVE Guarded'
    BY <2>6 DEF StepYieldsOther, Resume, Taken, FailLoudly, Finish
  <2>7. ASSUME NEW w \in Workers, StepYieldsFuture(w) PROVE Guarded'
    BY <2>7 DEF StepYieldsFuture, Resume, Taken, Outcomes
  <2>8. ASSUME NEW w \in Workers, Hook(w) PROVE Guarded'
    BY <2>8 DEF Hook, HookQueues
  <2>9. ASSUME NEW w \in Workers, SetPending(w) PROVE Guarded'
    BY <2>9 DEF SetPending, Carried, Outcomes
  <2>10. ASSUME NEW w \in Workers, Inject(w) PROVE Guarded'
    BY <2>10 DEF Inject
  <2>11. ASSUME NEW w \in Workers, Unlock(w) PROVE Guarded'
    BY <2>11 DEF Unlock
  <2>12. CASE LoopSets
    BY <2>12 DEF LoopSets, Carried, Outcomes
  <2>13. CASE LoopInjects
    BY <2>13 DEF LoopInjects
  <2>14. CASE CompleteFuture
    BY <2>14 DEF CompleteFuture, Outcomes
  <2>15. CASE CancelToken
    BY <2>15 DEF CancelToken
  <2>16. CASE UNCHANGED vars
    BY <2>16 DEF vars
  <2>17. ASSUME NEW w \in Workers, Attach(w) PROVE Guarded'
    BY <2>17 DEF Attach
  <2>18. ASSUME NEW w \in Workers, GiveUpGil(w) \/ RegainGil(w) PROVE Guarded'
    BY <2>18 DEF GiveUpGil, RegainGil
  <2>19. CASE Receive \/ Interrupt
    BY <2>19 DEF Receive, Interrupt
  <2> QED
    BY <2>1, <2>2, <2>3, <2>4, <2>5, <2>6, <2>7, <2>8, <2>9, <2>10, <2>11,
       <2>12, <2>13, <2>14, <2>15, <2>16,
       <2>17, <2>18, <2>19
    DEF Next, Run, Step, Wake
<1> QED
  BY <1>1, <1>2, Wakes, PTL DEF Spec

\* done_callback is taken out of its slot when the coroutine is dropped, so
\* run_level1 is told one outcome however many wake-ups come later.
THEOREM CalledOnce == Spec => []CallbackOnce
<1>1. Guarded => CallbackOnce
  BY DEF Guarded, CallbackOnce
<1> QED
  BY <1>1, Guards, PTL

\* PyCoroutineTask::run never leaves a live coroutine without its next wake-up:
\* it queues it, hooks wake_fn, or ends it with an error.
LEMMA AlwaysDriven == Spec => []NeverAbandoned
<1>1. Init => NeverAbandoned
  BY DEF Init, NeverAbandoned
<1>2. TypeOK /\ AtMostOne /\ Flow /\ Guarded /\ NeverAbandoned /\ [Next]_vars
        => NeverAbandoned'
  <2> SUFFICES ASSUME TypeOK, AtMostOne, Flow, Guarded, NeverAbandoned,
                      [Next]_vars
               PROVE  NeverAbandoned'
    OBVIOUS
  <2> USE CoroutineAssumption DEF TypeOK, AtMostOne, Flow, Guarded,
          NeverAbandoned, Stepping, Awaited, Goto, futVars, endVars
  <2>1. ASSUME NEW w \in Workers, Take(w) PROVE NeverAbandoned'
    BY <2>1 DEF Take
  <2>2. ASSUME NEW w \in Workers, LockCoro(w) PROVE NeverAbandoned'
    BY <2>2 DEF LockCoro
  <2>3. ASSUME NEW w \in Workers, StepCancelled(w) PROVE NeverAbandoned'
    BY <2>3 DEF StepCancelled, Finish
  <2>4. ASSUME NEW w \in Workers, StepEnds(w) PROVE NeverAbandoned'
    BY <2>4 DEF StepEnds, Resume, Taken, Finish
  <2>5. ASSUME NEW w \in Workers, StepYieldsNone(w) PROVE NeverAbandoned'
    BY <2>5 DEF StepYieldsNone, Resume, Taken
  <2>6. ASSUME NEW w \in Workers, StepYieldsOther(w) PROVE NeverAbandoned'
    BY <2>6 DEF StepYieldsOther, Resume, Taken, FailLoudly, Finish
  <2>7. ASSUME NEW w \in Workers, StepYieldsFuture(w) PROVE NeverAbandoned'
    BY <2>7 DEF StepYieldsFuture, Resume, Taken, Outcomes
  <2>8. ASSUME NEW w \in Workers, Hook(w) PROVE NeverAbandoned'
    BY <2>8 DEF Hook, HookQueues
  <2>9. ASSUME NEW w \in Workers, SetPending(w) PROVE NeverAbandoned'
    BY <2>9 DEF SetPending, Carried, Outcomes
  <2>10. ASSUME NEW w \in Workers, Inject(w) PROVE NeverAbandoned'
    BY <2>10 DEF Inject
  <2>11. ASSUME NEW w \in Workers, Unlock(w) PROVE NeverAbandoned'
    BY <2>11 DEF Unlock
  <2>12. CASE LoopSets
    BY <2>12 DEF LoopSets, Carried, Outcomes
  <2>13. CASE LoopInjects
    BY <2>13 DEF LoopInjects
  <2>14. CASE CompleteFuture
    BY <2>14 DEF CompleteFuture, Outcomes
  <2>15. CASE CancelToken
    BY <2>15 DEF CancelToken
  <2>16. CASE UNCHANGED vars
    BY <2>16 DEF vars
  <2>17. ASSUME NEW w \in Workers, Attach(w) PROVE NeverAbandoned'
    BY <2>17 DEF Attach
  <2>18. ASSUME NEW w \in Workers, GiveUpGil(w) \/ RegainGil(w) PROVE NeverAbandoned'
    BY <2>18 DEF GiveUpGil, RegainGil
  <2>19. CASE Receive \/ Interrupt
    BY <2>19 DEF Receive, Interrupt
  <2> QED
    BY <2>1, <2>2, <2>3, <2>4, <2>5, <2>6, <2>7, <2>8, <2>9, <2>10, <2>11,
       <2>12, <2>13, <2>14, <2>15, <2>16, <2>17, <2>18, <2>19
    DEF Next, Run, Step, Wake
<1> QED
  BY <1>1, <1>2, Wakes, Guards, PTL DEF Spec

\* PyCoroutineTask::run and wake_fn: exactly one wake-up for each step.
THEOREM OneWakeUp == Spec => []HandleOnce
<1>1. AtMostOne /\ NeverAbandoned => HandleOnce
  BY DEF HandleOnce
<1> QED
  BY <1>1, Wakes, AlwaysDriven, PTL

-----------------------------------------------------------------------------
(* The asyncio executor                                                    *)

\* Calls of submit, and of cancel() once the future is cancelled.
Inside == Submitting \cup {"callbacks"}

\* A thread inside submit or cancel() is busy with a future.
Busy == \A t \in Callers : at[t] \in Inside \cup {"cancelled"} => cur[t] \in Futures

\* Callbacks are called for futures that are resolved.
Resolved ==
    /\ \A t \in Callers : at[t] \in {"callbacks", "cancelled"}
                            => state[cur[t]] \in {"finished", "cancelled"}
    /\ \A f \in Futures : worker[f] = "callbacks"
                            => state[f] \in {"finished", "cancelled"}

\* A future in _pending has _cleanup, or is about to get it.
Unhooked == \A f \in pendingSet \ hookedSet :
                \E t \in Callers : cur[t] = f /\ at[t] = "hook"

\* submit, cancel, shutdown and the jobs leave every variable in its type.
LEMMA ExecTyped == ExecSpec => [](ExecTypeOK /\ Busy)
<1>1. ExecInit => ExecTypeOK /\ Busy
  <2> SUFFICES ASSUME ExecInit PROVE ExecTypeOK /\ Busy
    OBVIOUS
  <2>1. shut \in BOOLEAN
    BY Zenon DEF ExecInit
  <2> QED BY <2>1, SMT DEF ExecInit, ExecTypeOK, Busy, Inside, Submitting
<1>2. ExecTypeOK /\ Busy /\ [ExecNext]_execVars => ExecTypeOK'
  <2> SUFFICES ASSUME ExecTypeOK, Busy, [ExecNext]_execVars
               PROVE  ExecTypeOK'
    OBVIOUS
  <2> USE DEF ExecTypeOK, Busy, Inside,
          Move, Set, Return, Cleanup, Leave,
          futureVars, jobVars, shutVars, Submitting, Closing,
          AfterAdd
  <2>1. ASSUME NEW t \in Callers, Add(t) PROVE ExecTypeOK'
    BY <2>1 DEF Add
  <2>2. ASSUME NEW t \in Callers, HookCleanup(t) PROVE ExecTypeOK'
    BY <2>2 DEF HookCleanup
  <2>3. ASSUME NEW t \in Callers, Spawn(t) PROVE ExecTypeOK'
    BY <2>3 DEF Spawn
  <2>4. ASSUME NEW t \in Callers, Watch(t) PROVE ExecTypeOK'
    BY <2>4 DEF Watch
  <2>5. ASSUME NEW t \in Callers, ResolveInline(t) PROVE ExecTypeOK'
    BY <2>5 DEF ResolveInline
  <2>6. ASSUME NEW t \in Callers, Callbacks(t) PROVE ExecTypeOK'
    BY <2>6 DEF Callbacks
  <2>7. ASSUME NEW t \in Callers, Snapshot(t) PROVE ExecTypeOK'
    BY <2>7 DEF Snapshot
  <2>8. ASSUME NEW t \in Callers, CancelNext(t) PROVE ExecTypeOK'
    BY <2>8 DEF CancelNext
  <2>9. ASSUME NEW t \in Callers, CancelCallbacks(t) PROVE ExecTypeOK'
    BY <2>9 DEF CancelCallbacks
  <2>10. ASSUME NEW t \in Callers, Await(t) PROVE ExecTypeOK'
    <3>1. at' \in [Callers -> {"out", "callbacks"} \cup Submitting \cup Closing]
      BY <2>10 DEF Await
    <3>2. wait' \in [Callers -> BOOLEAN]
      BY <2>10 DEF Await
    <3>3. list' \in [Callers -> SUBSET Futures] /\ before' \in [Callers -> SUBSET Futures]
      BY <2>10 DEF Await
    <3> QED BY <2>10, <3>1, <3>2, <3>3 DEF Await
  <2>11. ASSUME NEW t \in Callers, WaitOver(t) PROVE ExecTypeOK'
    BY <2>11 DEF WaitOver
  <2>12. ASSUME NEW t \in Callers, NEW f \in Futures, Submit(t, f) PROVE ExecTypeOK'
    BY <2>12 DEF Submit
  <2>13. ASSUME NEW t \in Callers, NEW f \in Futures, Cancel(t, f) PROVE ExecTypeOK'
    BY <2>13 DEF Cancel
  <2>14. ASSUME NEW t \in Callers, NEW w \in BOOLEAN, NEW c \in BOOLEAN,
              Shutdown(t, w, c)
       PROVE  ExecTypeOK'
    BY <2>14 DEF Shutdown
  <2>15. ASSUME NEW f \in Futures, RunJob(f) PROVE ExecTypeOK'
    BY <2>15 DEF RunJob
  <2>16. ASSUME NEW f \in Futures, ResolveInWorker(f) PROVE ExecTypeOK'
    BY <2>16 DEF ResolveInWorker
  <2>17. ASSUME NEW f \in Futures, CallbacksInWorker(f) PROVE ExecTypeOK'
    BY <2>17 DEF CallbacksInWorker
  <2>18. CASE UNCHANGED execVars
    BY <2>18 DEF execVars
  <2> QED
    BY <2>1, <2>2, <2>3, <2>4, <2>5, <2>6, <2>7, <2>8, <2>9,
       <2>10, <2>11, <2>12, <2>13, <2>14, <2>15, <2>16, <2>17, <2>18
    DEF ExecNext, CallerStep, JobStep
<1>3. ExecTypeOK /\ Busy /\ [ExecNext]_execVars => Busy'
  <2> SUFFICES ASSUME ExecTypeOK, Busy, [ExecNext]_execVars
               PROVE  Busy'
    OBVIOUS
  <2> USE DEF ExecTypeOK, Busy, Inside,
          Move, Set, Return, Cleanup, Leave,
          futureVars, jobVars, shutVars, Submitting, Closing,
          AfterAdd
  <2>1. ASSUME NEW t \in Callers, Add(t) PROVE Busy'
    BY <2>1 DEF Add
  <2>2. ASSUME NEW t \in Callers, HookCleanup(t) PROVE Busy'
    BY <2>2 DEF HookCleanup
  <2>3. ASSUME NEW t \in Callers, Spawn(t) PROVE Busy'
    BY <2>3 DEF Spawn
  <2>4. ASSUME NEW t \in Callers, Watch(t) PROVE Busy'
    BY <2>4 DEF Watch
  <2>5. ASSUME NEW t \in Callers, ResolveInline(t) PROVE Busy'
    BY <2>5 DEF ResolveInline
  <2>6. ASSUME NEW t \in Callers, Callbacks(t) PROVE Busy'
    BY <2>6 DEF Callbacks
  <2>7. ASSUME NEW t \in Callers, Snapshot(t) PROVE Busy'
    BY <2>7 DEF Snapshot
  <2>8. ASSUME NEW t \in Callers, CancelNext(t) PROVE Busy'
    BY <2>8 DEF CancelNext
  <2>9. ASSUME NEW t \in Callers, CancelCallbacks(t) PROVE Busy'
    BY <2>9 DEF CancelCallbacks
  <2>10. ASSUME NEW t \in Callers, Await(t) PROVE Busy'
    BY <2>10 DEF Await
  <2>11. ASSUME NEW t \in Callers, WaitOver(t) PROVE Busy'
    BY <2>11 DEF WaitOver
  <2>12. ASSUME NEW t \in Callers, NEW f \in Futures, Submit(t, f) PROVE Busy'
    BY <2>12 DEF Submit
  <2>13. ASSUME NEW t \in Callers, NEW f \in Futures, Cancel(t, f) PROVE Busy'
    BY <2>13 DEF Cancel
  <2>14. ASSUME NEW t \in Callers, NEW w \in BOOLEAN, NEW c \in BOOLEAN,
              Shutdown(t, w, c)
       PROVE  Busy'
    BY <2>14 DEF Shutdown
  <2>15. ASSUME NEW f \in Futures, RunJob(f) PROVE Busy'
    BY <2>15 DEF RunJob
  <2>16. ASSUME NEW f \in Futures, ResolveInWorker(f) PROVE Busy'
    BY <2>16 DEF ResolveInWorker
  <2>17. ASSUME NEW f \in Futures, CallbacksInWorker(f) PROVE Busy'
    BY <2>17 DEF CallbacksInWorker
  <2>18. CASE UNCHANGED execVars
    BY <2>18 DEF execVars
  <2> QED
    BY <2>1, <2>2, <2>3, <2>4, <2>5, <2>6, <2>7, <2>8, <2>9,
       <2>10, <2>11, <2>12, <2>13, <2>14, <2>15, <2>16, <2>17, <2>18
    DEF ExecNext, CallerStep, JobStep
<1> QED
  BY <1>1, <1>2, <1>3, PTL DEF ExecSpec

\* A future nobody has submitted, and one that submit has not returned, are
\* known to nobody else; only the worker of an ended job resolves anything.
Early(t) == at[t] \in {"add", "hook", "spawn"}
Fresh == \A f \in Futures : state[f] = "new" =>
             /\ f \notin given /\ job[f] = "none"
             /\ \A t \in Callers : at[t] \in Inside => cur[t] # f
Alone == \A t \in Callers : at[t] \in Submitting =>
             /\ cur[t] \notin given
             /\ Early(t) => job[cur[t]] = "none"
             /\ \A u \in Callers \ {t} : at[u] \in Inside => cur[u] # cur[t]
Ended == \A f \in Futures : worker[f] # "idle" => job[f] = "done"

\* submit keeps its future to itself until it returns it.
LEMMA ExecOwned == ExecSpec => [](Fresh /\ Alone /\ Ended)
<1>1. ExecInit => Fresh /\ Alone /\ Ended
  BY DEF ExecInit, Fresh, Alone, Ended, Early, Inside, Submitting
<1>2. ExecTypeOK /\ Busy /\ Fresh /\ [ExecNext]_execVars => Fresh'
  <2> SUFFICES ASSUME ExecTypeOK, Busy, Fresh, [ExecNext]_execVars
               PROVE  Fresh'
    OBVIOUS
  <2> USE DEF ExecTypeOK, Busy, Inside,
          Move, Set, Return, Cleanup, Leave,
          futureVars, jobVars, shutVars, Submitting, Closing,
          AfterAdd,
          Fresh
  <2>1. ASSUME NEW t \in Callers, Add(t) PROVE Fresh'
    BY <2>1 DEF Add
  <2>2. ASSUME NEW t \in Callers, HookCleanup(t) PROVE Fresh'
    BY <2>2 DEF HookCleanup
  <2>3. ASSUME NEW t \in Callers, Spawn(t) PROVE Fresh'
    BY <2>3 DEF Spawn
  <2>4. ASSUME NEW t \in Callers, Watch(t) PROVE Fresh'
    BY <2>4 DEF Watch
  <2>5. ASSUME NEW t \in Callers, ResolveInline(t) PROVE Fresh'
    BY <2>5 DEF ResolveInline
  <2>6. ASSUME NEW t \in Callers, Callbacks(t) PROVE Fresh'
    BY <2>6 DEF Callbacks
  <2>7. ASSUME NEW t \in Callers, Snapshot(t) PROVE Fresh'
    BY <2>7 DEF Snapshot
  <2>8. ASSUME NEW t \in Callers, CancelNext(t) PROVE Fresh'
    BY <2>8 DEF CancelNext
  <2>9. ASSUME NEW t \in Callers, CancelCallbacks(t) PROVE Fresh'
    BY <2>9 DEF CancelCallbacks
  <2>10. ASSUME NEW t \in Callers, Await(t) PROVE Fresh'
    BY <2>10 DEF Await
  <2>11. ASSUME NEW t \in Callers, WaitOver(t) PROVE Fresh'
    BY <2>11 DEF WaitOver
  <2>12. ASSUME NEW t \in Callers, NEW f \in Futures, Submit(t, f) PROVE Fresh'
    BY <2>12 DEF Submit
  <2>13. ASSUME NEW t \in Callers, NEW f \in Futures, Cancel(t, f) PROVE Fresh'
    BY <2>13 DEF Cancel
  <2>14. ASSUME NEW t \in Callers, NEW w \in BOOLEAN, NEW c \in BOOLEAN,
              Shutdown(t, w, c)
       PROVE  Fresh'
    BY <2>14 DEF Shutdown
  <2>15. ASSUME NEW f \in Futures, RunJob(f) PROVE Fresh'
    BY <2>15 DEF RunJob
  <2>16. ASSUME NEW f \in Futures, ResolveInWorker(f) PROVE Fresh'
    BY <2>16 DEF ResolveInWorker
  <2>17. ASSUME NEW f \in Futures, CallbacksInWorker(f) PROVE Fresh'
    BY <2>17 DEF CallbacksInWorker
  <2>18. CASE UNCHANGED execVars
    BY <2>18 DEF execVars
  <2> QED
    BY <2>1, <2>2, <2>3, <2>4, <2>5, <2>6, <2>7, <2>8, <2>9,
       <2>10, <2>11, <2>12, <2>13, <2>14, <2>15, <2>16, <2>17, <2>18
    DEF ExecNext, CallerStep, JobStep
<1>3. ExecTypeOK /\ Busy /\ Fresh /\ Alone /\ [ExecNext]_execVars => Alone'
  <2> SUFFICES ASSUME ExecTypeOK, Busy, Fresh, Alone, [ExecNext]_execVars
               PROVE  Alone'
    OBVIOUS
  <2> USE DEF ExecTypeOK, Busy, Inside,
          Move, Set, Return, Cleanup, Leave,
          futureVars, jobVars, shutVars, Submitting, Closing,
          AfterAdd,
          Fresh, Alone, Early
  <2>1. ASSUME NEW t \in Callers, Add(t) PROVE Alone'
    BY <2>1 DEF Add
  <2>2. ASSUME NEW t \in Callers, HookCleanup(t) PROVE Alone'
    BY <2>2 DEF HookCleanup
  <2>3. ASSUME NEW t \in Callers, Spawn(t) PROVE Alone'
    BY <2>3 DEF Spawn
  <2>4. ASSUME NEW t \in Callers, Watch(t) PROVE Alone'
    BY <2>4 DEF Watch
  <2>5. ASSUME NEW t \in Callers, ResolveInline(t) PROVE Alone'
    BY <2>5 DEF ResolveInline
  <2>6. ASSUME NEW t \in Callers, Callbacks(t) PROVE Alone'
    BY <2>6 DEF Callbacks
  <2>7. ASSUME NEW t \in Callers, Snapshot(t) PROVE Alone'
    BY <2>7 DEF Snapshot
  <2>8. ASSUME NEW t \in Callers, CancelNext(t) PROVE Alone'
    BY <2>8 DEF CancelNext
  <2>9. ASSUME NEW t \in Callers, CancelCallbacks(t) PROVE Alone'
    BY <2>9 DEF CancelCallbacks
  <2>10. ASSUME NEW t \in Callers, Await(t) PROVE Alone'
    BY <2>10 DEF Await
  <2>11. ASSUME NEW t \in Callers, WaitOver(t) PROVE Alone'
    BY <2>11 DEF WaitOver
  <2>12. ASSUME NEW t \in Callers, NEW f \in Futures, Submit(t, f) PROVE Alone'
    BY <2>12 DEF Submit
  <2>13. ASSUME NEW t \in Callers, NEW f \in Futures, Cancel(t, f) PROVE Alone'
    BY <2>13 DEF Cancel
  <2>14. ASSUME NEW t \in Callers, NEW w \in BOOLEAN, NEW c \in BOOLEAN,
              Shutdown(t, w, c)
       PROVE  Alone'
    BY <2>14 DEF Shutdown
  <2>15. ASSUME NEW f \in Futures, RunJob(f) PROVE Alone'
    BY <2>15 DEF RunJob
  <2>16. ASSUME NEW f \in Futures, ResolveInWorker(f) PROVE Alone'
    BY <2>16 DEF ResolveInWorker
  <2>17. ASSUME NEW f \in Futures, CallbacksInWorker(f) PROVE Alone'
    BY <2>17 DEF CallbacksInWorker
  <2>18. CASE UNCHANGED execVars
    BY <2>18 DEF execVars
  <2> QED
    BY <2>1, <2>2, <2>3, <2>4, <2>5, <2>6, <2>7, <2>8, <2>9,
       <2>10, <2>11, <2>12, <2>13, <2>14, <2>15, <2>16, <2>17, <2>18
    DEF ExecNext, CallerStep, JobStep
<1>4. ExecTypeOK /\ Busy /\ Alone /\ Ended /\ [ExecNext]_execVars => Ended'
  <2> SUFFICES ASSUME ExecTypeOK, Busy, Alone, Ended, [ExecNext]_execVars
               PROVE  Ended'
    OBVIOUS
  <2> USE DEF ExecTypeOK, Busy, Inside,
          Move, Set, Return, Cleanup, Leave,
          futureVars, jobVars, shutVars, Submitting, Closing,
          AfterAdd,
          Alone, Early, Ended
  <2>1. ASSUME NEW t \in Callers, Add(t) PROVE Ended'
    BY <2>1 DEF Add
  <2>2. ASSUME NEW t \in Callers, HookCleanup(t) PROVE Ended'
    BY <2>2 DEF HookCleanup
  <2>3. ASSUME NEW t \in Callers, Spawn(t) PROVE Ended'
    BY <2>3 DEF Spawn
  <2>4. ASSUME NEW t \in Callers, Watch(t) PROVE Ended'
    BY <2>4 DEF Watch
  <2>5. ASSUME NEW t \in Callers, ResolveInline(t) PROVE Ended'
    BY <2>5 DEF ResolveInline
  <2>6. ASSUME NEW t \in Callers, Callbacks(t) PROVE Ended'
    BY <2>6 DEF Callbacks
  <2>7. ASSUME NEW t \in Callers, Snapshot(t) PROVE Ended'
    BY <2>7 DEF Snapshot
  <2>8. ASSUME NEW t \in Callers, CancelNext(t) PROVE Ended'
    BY <2>8 DEF CancelNext
  <2>9. ASSUME NEW t \in Callers, CancelCallbacks(t) PROVE Ended'
    BY <2>9 DEF CancelCallbacks
  <2>10. ASSUME NEW t \in Callers, Await(t) PROVE Ended'
    BY <2>10 DEF Await
  <2>11. ASSUME NEW t \in Callers, WaitOver(t) PROVE Ended'
    BY <2>11 DEF WaitOver
  <2>12. ASSUME NEW t \in Callers, NEW f \in Futures, Submit(t, f) PROVE Ended'
    BY <2>12 DEF Submit
  <2>13. ASSUME NEW t \in Callers, NEW f \in Futures, Cancel(t, f) PROVE Ended'
    BY <2>13 DEF Cancel
  <2>14. ASSUME NEW t \in Callers, NEW w \in BOOLEAN, NEW c \in BOOLEAN,
              Shutdown(t, w, c)
       PROVE  Ended'
    BY <2>14 DEF Shutdown
  <2>15. ASSUME NEW f \in Futures, RunJob(f) PROVE Ended'
    BY <2>15 DEF RunJob
  <2>16. ASSUME NEW f \in Futures, ResolveInWorker(f) PROVE Ended'
    BY <2>16 DEF ResolveInWorker
  <2>17. ASSUME NEW f \in Futures, CallbacksInWorker(f) PROVE Ended'
    BY <2>17 DEF CallbacksInWorker
  <2>18. CASE UNCHANGED execVars
    BY <2>18 DEF execVars
  <2> QED
    BY <2>1, <2>2, <2>3, <2>4, <2>5, <2>6, <2>7, <2>8, <2>9,
       <2>10, <2>11, <2>12, <2>13, <2>14, <2>15, <2>16, <2>17, <2>18
    DEF ExecNext, CallerStep, JobStep
<1> QED
  BY <1>1, <1>2, <1>3, <1>4, ExecTyped, PTL DEF ExecSpec

\* _cleanup, hooked or called, takes every resolved future out of _pending.
LEMMA ExecTracks == ExecSpec => [](Resolved /\ Unhooked /\ Tracked)
<1>1. ExecInit => Resolved /\ Unhooked /\ Tracked
  BY DEF ExecInit, Resolved, Unhooked, Tracked
<1>2. ExecTypeOK /\ Busy /\ Resolved /\ [ExecNext]_execVars => Resolved'
  <2> SUFFICES ASSUME ExecTypeOK, Busy, Resolved, [ExecNext]_execVars
               PROVE  Resolved'
    OBVIOUS
  <2> USE DEF ExecTypeOK, Busy, Inside,
          Move, Set, Return, Cleanup, Leave,
          futureVars, jobVars, shutVars, Submitting, Closing,
          AfterAdd,
          Resolved, Resolves
  <2>1. ASSUME NEW t \in Callers, Add(t) PROVE Resolved'
    BY <2>1 DEF Add
  <2>2. ASSUME NEW t \in Callers, HookCleanup(t) PROVE Resolved'
    BY <2>2 DEF HookCleanup
  <2>3. ASSUME NEW t \in Callers, Spawn(t) PROVE Resolved'
    BY <2>3 DEF Spawn
  <2>4. ASSUME NEW t \in Callers, Watch(t) PROVE Resolved'
    BY <2>4 DEF Watch
  <2>5. ASSUME NEW t \in Callers, ResolveInline(t) PROVE Resolved'
    BY <2>5 DEF ResolveInline
  <2>6. ASSUME NEW t \in Callers, Callbacks(t) PROVE Resolved'
    BY <2>6 DEF Callbacks
  <2>7. ASSUME NEW t \in Callers, Snapshot(t) PROVE Resolved'
    BY <2>7 DEF Snapshot
  <2>8. ASSUME NEW t \in Callers, CancelNext(t) PROVE Resolved'
    BY <2>8 DEF CancelNext
  <2>9. ASSUME NEW t \in Callers, CancelCallbacks(t) PROVE Resolved'
    BY <2>9 DEF CancelCallbacks
  <2>10. ASSUME NEW t \in Callers, Await(t) PROVE Resolved'
    BY <2>10 DEF Await
  <2>11. ASSUME NEW t \in Callers, WaitOver(t) PROVE Resolved'
    BY <2>11 DEF WaitOver
  <2>12. ASSUME NEW t \in Callers, NEW f \in Futures, Submit(t, f) PROVE Resolved'
    BY <2>12 DEF Submit
  <2>13. ASSUME NEW t \in Callers, NEW f \in Futures, Cancel(t, f) PROVE Resolved'
    BY <2>13 DEF Cancel
  <2>14. ASSUME NEW t \in Callers, NEW w \in BOOLEAN, NEW c \in BOOLEAN,
              Shutdown(t, w, c)
       PROVE  Resolved'
    BY <2>14 DEF Shutdown
  <2>15. ASSUME NEW f \in Futures, RunJob(f) PROVE Resolved'
    BY <2>15 DEF RunJob
  <2>16. ASSUME NEW f \in Futures, ResolveInWorker(f) PROVE Resolved'
    BY <2>16 DEF ResolveInWorker
  <2>17. ASSUME NEW f \in Futures, CallbacksInWorker(f) PROVE Resolved'
    BY <2>17 DEF CallbacksInWorker
  <2>18. CASE UNCHANGED execVars
    BY <2>18 DEF execVars
  <2> QED
    BY <2>1, <2>2, <2>3, <2>4, <2>5, <2>6, <2>7, <2>8, <2>9,
       <2>10, <2>11, <2>12, <2>13, <2>14, <2>15, <2>16, <2>17, <2>18
    DEF ExecNext, CallerStep, JobStep
<1>3. ExecTypeOK /\ Busy /\ Unhooked /\ [ExecNext]_execVars => Unhooked'
  <2> SUFFICES ASSUME ExecTypeOK, Busy, Unhooked, [ExecNext]_execVars
               PROVE  Unhooked'
    OBVIOUS
  <2> USE DEF ExecTypeOK, Busy, Inside,
          Move, Set, Return, Cleanup, Leave,
          futureVars, jobVars, shutVars, Submitting, Closing,
          AfterAdd,
          Unhooked
  <2>1. ASSUME NEW t \in Callers, Add(t) PROVE Unhooked'
    BY <2>1 DEF Add
  <2>2. ASSUME NEW t \in Callers, HookCleanup(t) PROVE Unhooked'
    BY <2>2 DEF HookCleanup
  <2>3. ASSUME NEW t \in Callers, Spawn(t) PROVE Unhooked'
    BY <2>3 DEF Spawn
  <2>4. ASSUME NEW t \in Callers, Watch(t) PROVE Unhooked'
    BY <2>4 DEF Watch
  <2>5. ASSUME NEW t \in Callers, ResolveInline(t) PROVE Unhooked'
    BY <2>5 DEF ResolveInline
  <2>6. ASSUME NEW t \in Callers, Callbacks(t) PROVE Unhooked'
    BY <2>6 DEF Callbacks
  <2>7. ASSUME NEW t \in Callers, Snapshot(t) PROVE Unhooked'
    BY <2>7 DEF Snapshot
  <2>8. ASSUME NEW t \in Callers, CancelNext(t) PROVE Unhooked'
    BY <2>8 DEF CancelNext
  <2>9. ASSUME NEW t \in Callers, CancelCallbacks(t) PROVE Unhooked'
    BY <2>9 DEF CancelCallbacks
  <2>10. ASSUME NEW t \in Callers, Await(t) PROVE Unhooked'
    BY <2>10 DEF Await
  <2>11. ASSUME NEW t \in Callers, WaitOver(t) PROVE Unhooked'
    BY <2>11 DEF WaitOver
  <2>12. ASSUME NEW t \in Callers, NEW f \in Futures, Submit(t, f) PROVE Unhooked'
    BY <2>12 DEF Submit
  <2>13. ASSUME NEW t \in Callers, NEW f \in Futures, Cancel(t, f) PROVE Unhooked'
    BY <2>13 DEF Cancel
  <2>14. ASSUME NEW t \in Callers, NEW w \in BOOLEAN, NEW c \in BOOLEAN,
              Shutdown(t, w, c)
       PROVE  Unhooked'
    BY <2>14 DEF Shutdown
  <2>15. ASSUME NEW f \in Futures, RunJob(f) PROVE Unhooked'
    BY <2>15 DEF RunJob
  <2>16. ASSUME NEW f \in Futures, ResolveInWorker(f) PROVE Unhooked'
    BY <2>16 DEF ResolveInWorker
  <2>17. ASSUME NEW f \in Futures, CallbacksInWorker(f) PROVE Unhooked'
    BY <2>17 DEF CallbacksInWorker
  <2>18. CASE UNCHANGED execVars
    BY <2>18 DEF execVars
  <2> QED
    BY <2>1, <2>2, <2>3, <2>4, <2>5, <2>6, <2>7, <2>8, <2>9,
       <2>10, <2>11, <2>12, <2>13, <2>14, <2>15, <2>16, <2>17, <2>18
    DEF ExecNext, CallerStep, JobStep
<1>4. ExecTypeOK /\ Busy /\ Ended /\ Resolved /\ Unhooked /\ Tracked
      /\ [ExecNext]_execVars => Tracked'
  <2> SUFFICES ASSUME ExecTypeOK, Busy, Ended, Resolved, Unhooked, Tracked,
                      [ExecNext]_execVars
               PROVE  Tracked'
    OBVIOUS
  <2> USE DEF ExecTypeOK, Busy, Inside,
          Move, Set, Return, Cleanup, Leave,
          futureVars, jobVars, shutVars, Submitting, Closing,
          AfterAdd,
          Ended, Resolved, Unhooked, Tracked, Resolves
  <2>1. ASSUME NEW t \in Callers, Add(t) PROVE Tracked'
    BY <2>1 DEF Add
  <2>2. ASSUME NEW t \in Callers, HookCleanup(t) PROVE Tracked'
    BY <2>2 DEF HookCleanup
  <2>3. ASSUME NEW t \in Callers, Spawn(t) PROVE Tracked'
    BY <2>3 DEF Spawn
  <2>4. ASSUME NEW t \in Callers, Watch(t) PROVE Tracked'
    BY <2>4 DEF Watch
  <2>5. ASSUME NEW t \in Callers, ResolveInline(t) PROVE Tracked'
    BY <2>5 DEF ResolveInline
  <2>6. ASSUME NEW t \in Callers, Callbacks(t) PROVE Tracked'
    BY <2>6 DEF Callbacks
  <2>7. ASSUME NEW t \in Callers, Snapshot(t) PROVE Tracked'
    BY <2>7 DEF Snapshot
  <2>8. ASSUME NEW t \in Callers, CancelNext(t) PROVE Tracked'
    BY <2>8 DEF CancelNext
  <2>9. ASSUME NEW t \in Callers, CancelCallbacks(t) PROVE Tracked'
    BY <2>9 DEF CancelCallbacks
  <2>10. ASSUME NEW t \in Callers, Await(t) PROVE Tracked'
    BY <2>10 DEF Await
  <2>11. ASSUME NEW t \in Callers, WaitOver(t) PROVE Tracked'
    BY <2>11 DEF WaitOver
  <2>12. ASSUME NEW t \in Callers, NEW f \in Futures, Submit(t, f)
         PROVE Tracked'
    BY <2>12 DEF Submit
  <2>13. ASSUME NEW t \in Callers, NEW f \in Futures, Cancel(t, f)
         PROVE Tracked'
    BY <2>13 DEF Cancel
  <2>14. ASSUME NEW t \in Callers, NEW w \in BOOLEAN, NEW c \in BOOLEAN,
              Shutdown(t, w, c)
       PROVE  Tracked'
    BY <2>14 DEF Shutdown
  <2>15. ASSUME NEW f \in Futures, RunJob(f) PROVE Tracked'
    BY <2>15 DEF RunJob
  <2>16. ASSUME NEW f \in Futures, ResolveInWorker(f) PROVE Tracked'
    BY <2>16 DEF ResolveInWorker
  <2>17. ASSUME NEW f \in Futures, CallbacksInWorker(f) PROVE Tracked'
    BY <2>17 DEF CallbacksInWorker
  <2>18. CASE UNCHANGED execVars
    BY <2>18 DEF execVars
  <2> QED
    BY <2>1, <2>2, <2>3, <2>4, <2>5, <2>6, <2>7, <2>8, <2>9,
       <2>10, <2>11, <2>12, <2>13, <2>14, <2>15, <2>16, <2>17, <2>18
    DEF ExecNext, CallerStep, JobStep
<1> QED
  BY <1>1, <1>2, <1>3, <1>4, ExecTyped, ExecOwned, PTL DEF ExecSpec

\* _pending is exact up to calls in progress: what shutdown finds there is what
\* is unresolved, whichever of _cleanup, _on_done and cancel() comes first.
THEOREM PendingTracked == ExecSpec => []Tracked
BY ExecTracks, PTL

\* Who will resolve a future: its job, the worker that ran it, or submit
\* itself, which looks whether the job has ended when it adds _on_done.
Coming == \A f \in Futures :
    /\ state[f] = "pending" =>
         \/ f \in watched /\ job[f] = "queued"
         \/ worker[f] = "resolve"
         \/ \E t \in Callers : cur[t] = f /\ at[t] \in Submitting
    /\ \A t \in Callers : cur[t] = f /\ at[t] = "watch" => job[f] # "none"

\* The job and submit hand the duty to resolve the future on to each other.
LEMMA ExecComes == ExecSpec => []Coming
<1>1. ExecInit => Coming
  BY DEF ExecInit, Coming
<1>2. ExecTypeOK /\ Busy /\ Fresh /\ Alone /\ Ended /\ Coming
      /\ [ExecNext]_execVars => Coming'
  <2> SUFFICES ASSUME ExecTypeOK, Busy, Fresh, Alone, Ended, Coming,
                      [ExecNext]_execVars
               PROVE  Coming'
    OBVIOUS
  <2> USE DEF ExecTypeOK, Busy, Inside,
          Move, Set, Return, Cleanup, Leave,
          futureVars, jobVars, shutVars, Submitting, Closing,
          AfterAdd,
          Fresh, Alone, Ended, Early, Coming, Resolves, Done
  <2>1. ASSUME NEW t \in Callers, Add(t) PROVE Coming'
    BY <2>1 DEF Add
  <2>2. ASSUME NEW t \in Callers, HookCleanup(t) PROVE Coming'
    BY <2>2 DEF HookCleanup
  <2>3. ASSUME NEW t \in Callers, Spawn(t) PROVE Coming'
    BY <2>3 DEF Spawn
  <2>4. ASSUME NEW t \in Callers, Watch(t) PROVE Coming'
    BY <2>4 DEF Watch
  <2>5. ASSUME NEW t \in Callers, ResolveInline(t) PROVE Coming'
    BY <2>5 DEF ResolveInline
  <2>6. ASSUME NEW t \in Callers, Callbacks(t) PROVE Coming'
    BY <2>6 DEF Callbacks
  <2>7. ASSUME NEW t \in Callers, Snapshot(t) PROVE Coming'
    BY <2>7 DEF Snapshot
  <2>8. ASSUME NEW t \in Callers, CancelNext(t) PROVE Coming'
    BY <2>8 DEF CancelNext
  <2>9. ASSUME NEW t \in Callers, CancelCallbacks(t) PROVE Coming'
    BY <2>9 DEF CancelCallbacks
  <2>10. ASSUME NEW t \in Callers, Await(t) PROVE Coming'
    BY <2>10 DEF Await
  <2>11. ASSUME NEW t \in Callers, WaitOver(t) PROVE Coming'
    BY <2>11 DEF WaitOver
  <2>12. ASSUME NEW t \in Callers, NEW f \in Futures, Submit(t, f) PROVE Coming'
    BY <2>12 DEF Submit
  <2>13. ASSUME NEW t \in Callers, NEW f \in Futures, Cancel(t, f) PROVE Coming'
    BY <2>13 DEF Cancel
  <2>14. ASSUME NEW t \in Callers, NEW w \in BOOLEAN, NEW c \in BOOLEAN,
              Shutdown(t, w, c)
       PROVE  Coming'
    BY <2>14 DEF Shutdown
  <2>15. ASSUME NEW f \in Futures, RunJob(f) PROVE Coming'
    BY <2>15 DEF RunJob
  <2>16. ASSUME NEW f \in Futures, ResolveInWorker(f) PROVE Coming'
    BY <2>16 DEF ResolveInWorker
  <2>17. ASSUME NEW f \in Futures, CallbacksInWorker(f) PROVE Coming'
    BY <2>17 DEF CallbacksInWorker
  <2>18. CASE UNCHANGED execVars
    BY <2>18 DEF execVars
  <2> QED
    BY <2>1, <2>2, <2>3, <2>4, <2>5, <2>6, <2>7, <2>8, <2>9,
       <2>10, <2>11, <2>12, <2>13, <2>14, <2>15, <2>16, <2>17, <2>18
    DEF ExecNext, CallerStep, JobStep
<1> QED
  BY <1>1, <1>2, ExecTyped, ExecOwned, PTL DEF ExecSpec

\* A future that submit has returned is resolved or somebody is bound to resolve
\* it: the end of the job and task.add_done_callback never miss each other.
THEOREM NoneForgotten == ExecSpec => []Attended
<1>1. ExecTypeOK /\ Alone /\ Coming => Attended
  BY DEF ExecTypeOK, Alone, Coming, Attended
<1> QED BY <1>1, ExecTyped, ExecOwned, ExecComes, PTL

\* What a shutdown waits for includes the unresolved futures returned before.
Kept == \A t \in Callers :
             /\ before[t] \subseteq given
             /\ at[t] = "wait" =>
                  \A f \in before[t] : state[f] = "pending" => f \in list[t]

\* Futures submitted, resolved or cancelled meanwhile take none from the list.
LEMMA ExecKeeps == ExecSpec => []Kept
<1>1. ExecInit => Kept
  BY DEF ExecInit, Kept
<1>2. ExecTypeOK /\ Busy /\ Tracked /\ Fresh /\ Alone /\ Kept
      /\ [ExecNext]_execVars => Kept'
  <2> SUFFICES ASSUME ExecTypeOK, Busy, Tracked, Fresh, Alone, Kept,
                      [ExecNext]_execVars
               PROVE  Kept'
    OBVIOUS
  <2> USE DEF ExecTypeOK, Busy, Inside,
          Move, Set, Return, Cleanup, Leave,
          futureVars, jobVars, shutVars, Submitting, Closing,
          AfterAdd,
          Tracked, Waits, Fresh, Alone, Early, Kept
  <2>1. ASSUME NEW t \in Callers, Add(t) PROVE Kept'
    BY <2>1 DEF Add
  <2>2. ASSUME NEW t \in Callers, HookCleanup(t) PROVE Kept'
    BY <2>2 DEF HookCleanup
  <2>3. ASSUME NEW t \in Callers, Spawn(t) PROVE Kept'
    BY <2>3 DEF Spawn
  <2>4. ASSUME NEW t \in Callers, Watch(t) PROVE Kept'
    BY <2>4 DEF Watch
  <2>5. ASSUME NEW t \in Callers, ResolveInline(t) PROVE Kept'
    BY <2>5 DEF ResolveInline
  <2>6. ASSUME NEW t \in Callers, Callbacks(t) PROVE Kept'
    BY <2>6 DEF Callbacks
  <2>7. ASSUME NEW t \in Callers, Snapshot(t) PROVE Kept'
    BY <2>7 DEF Snapshot
  <2>8. ASSUME NEW t \in Callers, CancelNext(t) PROVE Kept'
    BY <2>8 DEF CancelNext
  <2>9. ASSUME NEW t \in Callers, CancelCallbacks(t) PROVE Kept'
    BY <2>9 DEF CancelCallbacks
  <2>10. ASSUME NEW t \in Callers, Await(t) PROVE Kept'
    BY <2>10 DEF Await
  <2>11. ASSUME NEW t \in Callers, WaitOver(t) PROVE Kept'
    BY <2>11 DEF WaitOver
  <2>12. ASSUME NEW t \in Callers, NEW f \in Futures, Submit(t, f) PROVE Kept'
    BY <2>12 DEF Submit
  <2>13. ASSUME NEW t \in Callers, NEW f \in Futures, Cancel(t, f) PROVE Kept'
    BY <2>13 DEF Cancel
  <2>14. ASSUME NEW t \in Callers, NEW w \in BOOLEAN, NEW c \in BOOLEAN,
              Shutdown(t, w, c)
       PROVE  Kept'
    BY <2>14 DEF Shutdown
  <2>15. ASSUME NEW f \in Futures, RunJob(f) PROVE Kept'
    BY <2>15 DEF RunJob
  <2>16. ASSUME NEW f \in Futures, ResolveInWorker(f) PROVE Kept'
    BY <2>16 DEF ResolveInWorker
  <2>17. ASSUME NEW f \in Futures, CallbacksInWorker(f) PROVE Kept'
    BY <2>17 DEF CallbacksInWorker
  <2>18. CASE UNCHANGED execVars
    BY <2>18 DEF execVars
  <2> QED
    BY <2>1, <2>2, <2>3, <2>4, <2>5, <2>6, <2>7, <2>8, <2>9,
       <2>10, <2>11, <2>12, <2>13, <2>14, <2>15, <2>16, <2>17, <2>18
    DEF ExecNext, CallerStep, JobStep
<1> QED
  BY <1>1, <1>2, ExecTyped, ExecOwned, ExecTracks, PTL DEF ExecSpec

\* shutdown(wait=True) returns only when every future that submit had returned
\* before the call is resolved.
THEOREM ShutdownWaits == ExecSpec => ShutdownDrains
<1> DEFINE Drained(t) ==
      at[t] \in {"await", "wait"} /\ at'[t] = "out" /\ wait[t] =>
          \A f \in before[t] : state'[f] # "pending"
<1>1. ASSUME ExecTypeOK, Tracked, Alone, Kept, [ExecNext]_execVars,
             NEW t \in Callers
      PROVE  Drained(t)
  <2> SUFFICES ASSUME at[t] \in {"await", "wait"}, at'[t] = "out", wait[t],
                      NEW f \in before[t]
               PROVE  state'[f] # "pending"
    OBVIOUS
  <2>1. f \in Futures /\ f \in given
    BY <1>1 DEF Kept, ExecTypeOK
  <2>2. CASE Await(t)
    BY <1>1, <2>1, <2>2 DEF Await, Waits, Leave, Move,
       futureVars, Tracked, Alone, Submitting, ExecTypeOK
  <2>3. CASE WaitOver(t)
    BY <1>1, <2>1, <2>3 DEF WaitOver, futureVars, Kept, ExecTypeOK
  <2>4. Await(t) \/ WaitOver(t)
    <3>1. at'[t] # at[t]
      OBVIOUS
    <3> QED BY <1>1, <3>1 DEF ExecNext, CallerStep, JobStep, execVars,
       Add, HookCleanup, Spawn, Watch, ResolveInline,
       Callbacks, Snapshot, CancelNext, CancelCallbacks,
       Submit, Cancel, Shutdown, RunJob, Await,
       WaitOver, ResolveInWorker, CallbacksInWorker, Move,
       Return, Leave, ExecTypeOK
  <2> QED BY <2>2, <2>3, <2>4
<1>2. ExecTypeOK /\ Tracked /\ Alone /\ Kept /\ [ExecNext]_execVars
        => [\A t \in Callers : Drained(t)]_execVars
  BY <1>1
<1> QED
  BY <1>2, ExecTyped, ExecOwned, ExecTracks, ExecKeeps,
  PTL DEF ExecSpec, ShutdownDrains
=============================================================================
