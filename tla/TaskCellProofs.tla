--------------------------- MODULE TaskCellProofs ---------------------------
(***************************************************************************)
(* Theorems about TaskCell for any number of threads and joiners.  What    *)
(* concerns the future and the JoinHandle is proved of CloneSpec, where    *)
(* handles may be cloned; what concerns the wake-up protocol is proved of  *)
(* Spec, the discipline under which the pool uses a task.                  *)
(***************************************************************************)
EXTENDS TaskCell, TLAPS

USE DEF Pcs, States, Outcomes, JoinPcs, Marked, MustQueue, Settled, AfterPoll,
        Wins, Woken, JoinOver

-----------------------------------------------------------------------------
(* The JoinHandle side, with cloned handles                                *)

\* JoinHandle::poll, complete and cancel leave every variable in its type.
LEMMA CloneTyped == CloneSpec => []TypeOK
<1>1. Init => TypeOK
  <2> SUFFICES ASSUME Init PROVE TypeOK
    OBVIOUS
  <2>1. future \in BOOLEAN /\ owed \in BOOLEAN
    BY Zenon DEF Init
  <2>2. pc \in [Threads -> Pcs] /\ out \in [Threads -> Outcomes \cup {None}]
    BY SMT DEF Init
  <2> QED
    BY <2>1, <2>2, SMT DEF Init, TypeOK
<1>2. TypeOK /\ [CloneNext]_vars => TypeOK'
  <2> SUFFICES ASSUME TypeOK, [CloneNext]_vars
               PROVE  TypeOK'
    OBVIOUS
  <2> USE ConstantsAssumption DEF TypeOK, Goto, joinVars, threadVars, Returned
  <2>1. ASSUME NEW t \in Threads, MarkScheduled(t) PROVE TypeOK'
    BY <2>1 DEF MarkScheduled
  <2>2. ASSUME NEW t \in Threads, Pop(t) PROVE TypeOK'
    BY <2>2 DEF Pop
  <2>3. ASSUME NEW t \in Threads, Cancel(t) PROVE TypeOK'
    BY <2>3 DEF Cancel
  <2>4. ASSUME NEW t \in Threads, CloneHandle(t) PROVE TypeOK'
    BY <2>4 DEF CloneHandle
  <2>5. ASSUME NEW t \in Threads, Claim(t) PROVE TypeOK'
    BY <2>5 DEF Claim
  <2>6. ASSUME NEW t \in Threads, Take(t) PROVE TypeOK'
    <3>1. future' \in BOOLEAN /\ owed' \in BOOLEAN
      BY <2>6 DEF Take
    <3>2. pc' \in [Threads -> Pcs] /\ out' \in [Threads -> Outcomes \cup {None}]
      BY <2>6 DEF Take
    <3>3. state' \in States /\ verdict' \in Outcomes \cup {None}
      BY <2>6 DEF Take
    <3>4. UNCHANGED <<result, join_waker, queued, holder, jpc, woken, delivered>>
      BY <2>6 DEF Take
    <3> QED BY <3>1, <3>2, <3>3, <3>4
  <2>7. ASSUME NEW t \in Threads, PollEnds(t) PROVE TypeOK'
    BY <2>7 DEF PollEnds
  <2>8. ASSUME NEW t \in Threads, PollPending(t) PROVE TypeOK'
    BY <2>8 DEF PollPending
  <2>9. ASSUME NEW t \in Threads, PutBack(t) PROVE TypeOK'
    BY <2>9 DEF PutBack
  <2>10. ASSUME NEW t \in Threads, Settle(t) PROVE TypeOK'
    BY <2>10 DEF Settle
  <2>11. ASSUME NEW t \in Threads, Discard(t) PROVE TypeOK'
    <3>1. future' \in BOOLEAN /\ owed' \in BOOLEAN
      BY <2>11 DEF Discard
    <3>2. pc' \in [Threads -> Pcs] /\ out' \in [Threads -> Outcomes \cup {None}]
      BY <2>11 DEF Discard
    <3>3. state' \in States /\ verdict' \in Outcomes \cup {None}
      BY <2>11 DEF Discard
    <3>4. UNCHANGED <<result, join_waker, queued, holder, jpc, woken, delivered>>
      BY <2>11 DEF Discard
    <3> QED BY <3>1, <3>2, <3>3, <3>4
  <2>12. ASSUME NEW t \in Threads, Enqueue(t) PROVE TypeOK'
    BY <2>12 DEF Enqueue
  <2>13. ASSUME NEW t \in Threads, Complete(t) PROVE TypeOK'
    <3>1. future' \in BOOLEAN /\ owed' \in BOOLEAN
      BY <2>13 DEF Complete
    <3>2. pc' \in [Threads -> Pcs] /\ out' \in [Threads -> Outcomes \cup {None}]
      BY <2>13 DEF Complete
    <3>3. state' \in States /\ verdict' \in Outcomes \cup {None}
      BY <2>13 DEF Complete
    <3>4. UNCHANGED <<result, join_waker, queued, holder, jpc, woken, delivered>>
      BY <2>13 DEF Complete
    <3> QED BY <3>1, <3>2, <3>3, <3>4
  <2>14. ASSUME NEW t \in Threads, Publish(t) PROVE TypeOK'
    BY <2>14 DEF Publish
  <2>15. ASSUME NEW t \in Threads, HandOff(t) PROVE TypeOK'
    BY <2>15 DEF HandOff
  <2>16. ASSUME NEW t \in Threads, DropFuture(t) PROVE TypeOK'
    <3>1. future' \in BOOLEAN /\ owed' \in BOOLEAN
      BY <2>16 DEF DropFuture
    <3>2. pc' \in [Threads -> Pcs] /\ out' \in [Threads -> Outcomes \cup {None}]
      BY <2>16 DEF DropFuture
    <3>3. state' \in States /\ verdict' \in Outcomes \cup {None}
      BY <2>16 DEF DropFuture
    <3>4. UNCHANGED <<result, join_waker, queued, holder, jpc, woken, delivered>>
      BY <2>16 DEF DropFuture
    <3> QED BY <3>1, <3>2, <3>3, <3>4
  <2>17. ASSUME NEW t \in Threads, StoreCancelled(t) PROVE TypeOK'
    BY <2>17 DEF StoreCancelled
  <2>18. CASE JoinTake
    BY <2>18 DEF JoinTake
  <2>19. CASE JoinLoad
    BY <2>19 DEF JoinLoad
  <2>20. CASE JoinStore
    BY <2>20 DEF JoinStore
  <2>21. CASE JoinResume
    BY <2>21 DEF JoinResume
  <2>22. CASE JoinAgain
    BY <2>22 DEF JoinAgain
  <2>23. CASE UNCHANGED vars
    BY <2>23 DEF vars
  <2> QED
    BY <2>1, <2>2, <2>3, <2>4, <2>5, <2>6, <2>7, <2>8, <2>9, <2>10, <2>11, <2>12, <2>13, <2>14, <2>15, <2>16, <2>17, <2>18, <2>19, <2>20, <2>21, <2>22, <2>23
    DEF CloneNext, Next, RunStep, JoinStep
<1> QED
  BY <1>1, <1>2, PTL DEF CloneSpec

\* The future is in its slot or inside one thread's run(), never both, and a
\* finished task's future is about to be dropped.
Inside(t) == pc[t] \in {"poll", "putback", "complete"}
FutureInv ==
    /\ \A t, u \in Threads : Inside(t) /\ Inside(u) => t = u
    /\ \A t \in Threads : Inside(t) => ~future
    /\ state = "COMPLETED" /\ future =>
         \E t \in Threads : pc[t] \in {"settle", "discard", "dropfut"}

LEMMA FutureInvariant == CloneSpec => []FutureInv
<1>1. Init => FutureInv
  BY DEF Init, FutureInv, Inside
<1>2. TypeOK /\ TypeOK' /\ FutureInv /\ [CloneNext]_vars => FutureInv'
  <2> SUFFICES ASSUME TypeOK /\ TypeOK' /\ FutureInv, [CloneNext]_vars
               PROVE  FutureInv'
    OBVIOUS
  <2> USE ConstantsAssumption DEF TypeOK, Goto, joinVars, threadVars, Returned, FutureInv, Inside
  <2>1. ASSUME NEW t \in Threads, MarkScheduled(t) PROVE FutureInv'
    BY <2>1 DEF MarkScheduled
  <2>2. ASSUME NEW t \in Threads, Pop(t) PROVE FutureInv'
    BY <2>2 DEF Pop
  <2>3. ASSUME NEW t \in Threads, Cancel(t) PROVE FutureInv'
    BY <2>3 DEF Cancel
  <2>4. ASSUME NEW t \in Threads, CloneHandle(t) PROVE FutureInv'
    BY <2>4 DEF CloneHandle
  <2>5. ASSUME NEW t \in Threads, Claim(t) PROVE FutureInv'
    BY <2>5 DEF Claim
  <2>6. ASSUME NEW t \in Threads, Take(t) PROVE FutureInv'
    BY <2>6 DEF Take
  <2>7. ASSUME NEW t \in Threads, PollEnds(t) PROVE FutureInv'
    BY <2>7 DEF PollEnds
  <2>8. ASSUME NEW t \in Threads, PollPending(t) PROVE FutureInv'
    BY <2>8 DEF PollPending
  <2>9. ASSUME NEW t \in Threads, PutBack(t) PROVE FutureInv'
    BY <2>9 DEF PutBack
  <2>10. ASSUME NEW t \in Threads, Settle(t) PROVE FutureInv'
    BY <2>10 DEF Settle
  <2>11. ASSUME NEW t \in Threads, Discard(t) PROVE FutureInv'
    BY <2>11 DEF Discard
  <2>12. ASSUME NEW t \in Threads, Enqueue(t) PROVE FutureInv'
    BY <2>12 DEF Enqueue
  <2>13. ASSUME NEW t \in Threads, Complete(t) PROVE FutureInv'
    BY <2>13 DEF Complete
  <2>14. ASSUME NEW t \in Threads, Publish(t) PROVE FutureInv'
    BY <2>14 DEF Publish
  <2>15. ASSUME NEW t \in Threads, HandOff(t) PROVE FutureInv'
    BY <2>15 DEF HandOff
  <2>16. ASSUME NEW t \in Threads, DropFuture(t) PROVE FutureInv'
    BY <2>16 DEF DropFuture
  <2>17. ASSUME NEW t \in Threads, StoreCancelled(t) PROVE FutureInv'
    BY <2>17 DEF StoreCancelled
  <2>18. CASE JoinTake
    BY <2>18 DEF JoinTake
  <2>19. CASE JoinLoad
    BY <2>19 DEF JoinLoad
  <2>20. CASE JoinStore
    BY <2>20 DEF JoinStore
  <2>21. CASE JoinResume
    BY <2>21 DEF JoinResume
  <2>22. CASE JoinAgain
    BY <2>22 DEF JoinAgain
  <2>23. CASE UNCHANGED vars
    BY <2>23 DEF vars
  <2> QED
    BY <2>1, <2>2, <2>3, <2>4, <2>5, <2>6, <2>7, <2>8, <2>9, <2>10, <2>11, <2>12, <2>13, <2>14, <2>15, <2>16, <2>17, <2>18, <2>19, <2>20, <2>21, <2>22, <2>23
    DEF CloneNext, Next, RunStep, JoinStep
<1> QED
  BY <1>1, <1>2, CloneTyped, PTL DEF CloneSpec

\* Runnable::run moves the future out of its slot before it polls: no two
\* threads are ever inside one future, even with cloned handles.
THEOREM PollExclusivity == CloneSpec => []PollExclusive
<1>1. FutureInv => PollExclusive
  BY DEF FutureInv, Inside, PollExclusive
<1> QED
  BY <1>1, FutureInvariant, PTL

\* run() and cancel() leave no finished task holding on to its future.
THEOREM FutureRelease == CloneSpec => []FutureReleased
<1>1. FutureInv => FutureReleased
  BY DEF FutureInv, FutureReleased
<1> QED
  BY <1>1, FutureInvariant, PTL

\* How the result slot, the stored waker and the joiner follow `state`.
JoinInv ==
    /\ verdict = None <=> state # "COMPLETED"
    /\ result # None => result = verdict
    /\ delivered # None => delivered = verdict
    /\ \A t \in Threads :
         /\ pc[t] \in {"publish", "handoff", "dropfut", "store"}
              => state = "COMPLETED"
         /\ pc[t] = "complete" => out[t] \in {"Ok", "Panicked"}
         /\ pc[t] = "publish" => out[t] = verdict
         /\ pc[t] \in {"dropfut", "store"}
              => out[t] = "Cancelled" /\ verdict = "Cancelled"
    /\ state = "COMPLETED" /\ delivered = None =>
         \/ result # None
         \/ \E t \in Threads : pc[t] \in {"publish", "dropfut", "store"}
    /\ jpc = "looked" /\ state = "COMPLETED" => delivered # None
    /\ jpc = "storing" => state # "COMPLETED"
    /\ jpc = "parked" => join_waker = holder \/ holder \in woken
    /\ JoinerWoken
    /\ ReadyIsFinal

LEMMA JoinInvariant == CloneSpec => []JoinInv
<1>1. Init => JoinInv
  BY ConstantsAssumption DEF Init, JoinInv, JoinerWoken, ReadyIsFinal
<1>2. TypeOK /\ TypeOK' /\ JoinInv /\ [CloneNext]_vars => JoinInv'
  <2> SUFFICES ASSUME TypeOK /\ TypeOK' /\ JoinInv, [CloneNext]_vars
               PROVE  JoinInv'
    OBVIOUS
  <2> USE ConstantsAssumption DEF TypeOK, Goto, joinVars, threadVars, Returned, JoinInv, JoinerWoken,
               ReadyIsFinal, ResultFree, JoinerPolling, Cancelling
  <2>1. ASSUME NEW t \in Threads, MarkScheduled(t) PROVE JoinInv'
    BY <2>1 DEF MarkScheduled
  <2>2. ASSUME NEW t \in Threads, Pop(t) PROVE JoinInv'
    BY <2>2 DEF Pop
  <2>3. ASSUME NEW t \in Threads, Cancel(t) PROVE JoinInv'
    BY <2>3 DEF Cancel
  <2>4. ASSUME NEW t \in Threads, CloneHandle(t) PROVE JoinInv'
    BY <2>4 DEF CloneHandle
  <2>5. ASSUME NEW t \in Threads, Claim(t) PROVE JoinInv'
    BY <2>5 DEF Claim
  <2>6. ASSUME NEW t \in Threads, Take(t) PROVE JoinInv'
    BY <2>6 DEF Take
  <2>7. ASSUME NEW t \in Threads, PollEnds(t) PROVE JoinInv'
    BY <2>7 DEF PollEnds
  <2>8. ASSUME NEW t \in Threads, PollPending(t) PROVE JoinInv'
    BY <2>8 DEF PollPending
  <2>9. ASSUME NEW t \in Threads, PutBack(t) PROVE JoinInv'
    BY <2>9 DEF PutBack
  <2>10. ASSUME NEW t \in Threads, Settle(t) PROVE JoinInv'
    BY <2>10 DEF Settle
  <2>11. ASSUME NEW t \in Threads, Discard(t) PROVE JoinInv'
    BY <2>11 DEF Discard
  <2>12. ASSUME NEW t \in Threads, Enqueue(t) PROVE JoinInv'
    BY <2>12 DEF Enqueue
  <2>13. ASSUME NEW t \in Threads, Complete(t) PROVE JoinInv'
    BY <2>13 DEF Complete
  <2>14. ASSUME NEW t \in Threads, Publish(t) PROVE JoinInv'
    BY <2>14 DEF Publish
  <2>15. ASSUME NEW t \in Threads, HandOff(t) PROVE JoinInv'
    BY <2>15 DEF HandOff
  <2>16. ASSUME NEW t \in Threads, DropFuture(t) PROVE JoinInv'
    BY <2>16 DEF DropFuture
  <2>17. ASSUME NEW t \in Threads, StoreCancelled(t) PROVE JoinInv'
    BY <2>17 DEF StoreCancelled
  <2>18. CASE JoinTake
    BY <2>18 DEF JoinTake
  <2>19. CASE JoinLoad
    BY <2>19 DEF JoinLoad
  <2>20. CASE JoinStore
    BY <2>20 DEF JoinStore
  <2>21. CASE JoinResume
    BY <2>21 DEF JoinResume
  <2>22. CASE JoinAgain
    BY <2>22 DEF JoinAgain
  <2>23. CASE UNCHANGED vars
    BY <2>23 DEF vars
  <2> QED
    BY <2>1, <2>2, <2>3, <2>4, <2>5, <2>6, <2>7, <2>8, <2>9, <2>10, <2>11, <2>12, <2>13, <2>14, <2>15, <2>16, <2>17, <2>18, <2>19, <2>20, <2>21, <2>22, <2>23
    DEF CloneNext, Next, RunStep, JoinStep
<1> QED
  BY <1>1, <1>2, CloneTyped, PTL DEF CloneSpec

\* complete() and cancel() never leave a parked joiner without its wake-up,
\* whatever the interleaving with JoinHandle::poll.
THEOREM NoLostJoin == CloneSpec => [](JoinerWoken /\ ReadyIsFinal)
<1>1. JoinInv => JoinerWoken /\ ReadyIsFinal
  BY DEF JoinInv
<1> QED
  BY <1>1, JoinInvariant, PTL

\* A task and its JoinHandle implement the one-shot outcome: decided by one
\* swap, never changed, and delivered as decided.
THEOREM Implementation == CloneSpec => ImplementsJoin
<1>1. Init => Join!JoinInit
  BY DEF Init, Join!JoinInit
<1>2. TypeOK /\ TypeOK' /\ JoinInv /\ [CloneNext]_vars => [Join!JoinNext]_<<verdict, delivered>>
  <2> SUFFICES ASSUME TypeOK /\ TypeOK' /\ JoinInv, [CloneNext]_vars
               PROVE  [Join!JoinNext]_<<verdict, delivered>>
    OBVIOUS
  <2> USE ConstantsAssumption DEF TypeOK, Goto, joinVars, threadVars, Returned, JoinInv, ResultFree, JoinerPolling, Cancelling,
               Join!JoinNext, Join!Decide, Join!Deliver
  <2>1. ASSUME NEW t \in Threads, MarkScheduled(t) PROVE [Join!JoinNext]_<<verdict, delivered>>
    BY <2>1 DEF MarkScheduled
  <2>2. ASSUME NEW t \in Threads, Pop(t) PROVE [Join!JoinNext]_<<verdict, delivered>>
    BY <2>2 DEF Pop
  <2>3. ASSUME NEW t \in Threads, Cancel(t) PROVE [Join!JoinNext]_<<verdict, delivered>>
    BY <2>3 DEF Cancel
  <2>4. ASSUME NEW t \in Threads, CloneHandle(t) PROVE [Join!JoinNext]_<<verdict, delivered>>
    BY <2>4 DEF CloneHandle
  <2>5. ASSUME NEW t \in Threads, Claim(t) PROVE [Join!JoinNext]_<<verdict, delivered>>
    BY <2>5 DEF Claim
  <2>6. ASSUME NEW t \in Threads, Take(t) PROVE [Join!JoinNext]_<<verdict, delivered>>
    BY <2>6 DEF Take
  <2>7. ASSUME NEW t \in Threads, PollEnds(t) PROVE [Join!JoinNext]_<<verdict, delivered>>
    BY <2>7 DEF PollEnds
  <2>8. ASSUME NEW t \in Threads, PollPending(t) PROVE [Join!JoinNext]_<<verdict, delivered>>
    BY <2>8 DEF PollPending
  <2>9. ASSUME NEW t \in Threads, PutBack(t) PROVE [Join!JoinNext]_<<verdict, delivered>>
    BY <2>9 DEF PutBack
  <2>10. ASSUME NEW t \in Threads, Settle(t) PROVE [Join!JoinNext]_<<verdict, delivered>>
    BY <2>10 DEF Settle
  <2>11. ASSUME NEW t \in Threads, Discard(t) PROVE [Join!JoinNext]_<<verdict, delivered>>
    BY <2>11 DEF Discard
  <2>12. ASSUME NEW t \in Threads, Enqueue(t) PROVE [Join!JoinNext]_<<verdict, delivered>>
    BY <2>12 DEF Enqueue
  <2>13. ASSUME NEW t \in Threads, Complete(t) PROVE [Join!JoinNext]_<<verdict, delivered>>
    BY <2>13 DEF Complete
  <2>14. ASSUME NEW t \in Threads, Publish(t) PROVE [Join!JoinNext]_<<verdict, delivered>>
    BY <2>14 DEF Publish
  <2>15. ASSUME NEW t \in Threads, HandOff(t) PROVE [Join!JoinNext]_<<verdict, delivered>>
    BY <2>15 DEF HandOff
  <2>16. ASSUME NEW t \in Threads, DropFuture(t) PROVE [Join!JoinNext]_<<verdict, delivered>>
    BY <2>16 DEF DropFuture
  <2>17. ASSUME NEW t \in Threads, StoreCancelled(t) PROVE [Join!JoinNext]_<<verdict, delivered>>
    BY <2>17 DEF StoreCancelled
  <2>18. CASE JoinTake
    BY <2>18 DEF JoinTake
  <2>19. CASE JoinLoad
    BY <2>19 DEF JoinLoad
  <2>20. CASE JoinStore
    BY <2>20 DEF JoinStore
  <2>21. CASE JoinResume
    BY <2>21 DEF JoinResume
  <2>22. CASE JoinAgain
    BY <2>22 DEF JoinAgain
  <2>23. CASE UNCHANGED vars
    BY <2>23 DEF vars
  <2> QED
    BY <2>1, <2>2, <2>3, <2>4, <2>5, <2>6, <2>7, <2>8, <2>9, <2>10, <2>11, <2>12, <2>13, <2>14, <2>15, <2>16, <2>17, <2>18, <2>19, <2>20, <2>21, <2>22, <2>23
    DEF CloneNext, Next, RunStep, JoinStep
<1> QED
  BY <1>1, <1>2, CloneTyped, JoinInvariant, PTL
  DEF CloneSpec, ImplementsJoin, Join!JoinSpec

-----------------------------------------------------------------------------
(* The wake-up protocol, with the one handle the pool passes around        *)

\* A behaviour without cloned handles is one of CloneSpec.
LEMMA Narrower == Spec => CloneSpec
<1>1. [Next]_vars => [CloneNext]_vars
  BY DEF CloneNext
<1> QED
  BY <1>1, PTL DEF Spec, CloneSpec

\* So what holds with cloned handles holds without them.
LEMMA Typed == Spec => []TypeOK
BY Narrower, CloneTyped, PTL

\* The outcome and the joiner, as JoinInv has them.
LEMMA JoinAlso == Spec => []JoinInv
BY Narrower, JoinInvariant, PTL

\* OneHandle and NeverStranded with what each place of the handle says of
\* `state`, where the future is, and which wakes are outstanding.
HandleInv ==
    /\ OneHandle
    /\ NeverStranded
    /\ WakeRemembered
    /\ queued = 1 => state \in {"SCHEDULED", "COMPLETED"}
    /\ \A t \in Threads :
         /\ pc[t] \in {"claim", "requeue", "enqueue"}
              => state \in {"SCHEDULED", "COMPLETED"}
         /\ pc[t] = "discard" => state = "COMPLETED"
         /\ pc[t] \in {"publish", "handoff", "dropfut", "store"}
              => state = "COMPLETED"
    /\ state = "COMPLETED"
         \/ (future <=> \A t \in Threads :
                          pc[t] \notin {"poll", "putback", "complete"})

LEMMA HandleInvariant == Spec => []HandleInv
<1>1. Init => HandleInv
  BY DEF Init, HandleInv, OneHandle, NeverStranded, WakeRemembered, Holds,
         Polling
<1>2. TypeOK /\ TypeOK' /\ HandleInv /\ [Next]_vars => HandleInv'
  <2> SUFFICES ASSUME TypeOK /\ TypeOK' /\ HandleInv, [Next]_vars
               PROVE  HandleInv'
    OBVIOUS
  <2> USE ConstantsAssumption DEF TypeOK, Goto, joinVars, threadVars, Returned, HandleInv, OneHandle, NeverStranded,
               WakeRemembered, Holds, Polling
  <2>1. ASSUME NEW t \in Threads, MarkScheduled(t) PROVE HandleInv'
    BY <2>1 DEF MarkScheduled
  <2>2. ASSUME NEW t \in Threads, Pop(t) PROVE HandleInv'
    BY <2>2 DEF Pop
  <2>3. ASSUME NEW t \in Threads, Cancel(t) PROVE HandleInv'
    BY <2>3 DEF Cancel
  <2>4. ASSUME NEW t \in Threads, Claim(t) PROVE HandleInv'
    BY <2>4 DEF Claim
  <2>5. ASSUME NEW t \in Threads, Take(t) PROVE HandleInv'
    BY <2>5 DEF Take
  <2>6. ASSUME NEW t \in Threads, PollEnds(t) PROVE HandleInv'
    BY <2>6 DEF PollEnds
  <2>7. ASSUME NEW t \in Threads, PollPending(t) PROVE HandleInv'
    BY <2>7 DEF PollPending
  <2>8. ASSUME NEW t \in Threads, PutBack(t) PROVE HandleInv'
    BY <2>8 DEF PutBack
  <2>9. ASSUME NEW t \in Threads, Settle(t) PROVE HandleInv'
    BY <2>9 DEF Settle
  <2>10. ASSUME NEW t \in Threads, Discard(t) PROVE HandleInv'
    BY <2>10 DEF Discard
  <2>11. ASSUME NEW t \in Threads, Enqueue(t) PROVE HandleInv'
    BY <2>11 DEF Enqueue
  <2>12. ASSUME NEW t \in Threads, Complete(t) PROVE HandleInv'
    BY <2>12 DEF Complete
  <2>13. ASSUME NEW t \in Threads, Publish(t) PROVE HandleInv'
    BY <2>13 DEF Publish
  <2>14. ASSUME NEW t \in Threads, HandOff(t) PROVE HandleInv'
    BY <2>14 DEF HandOff
  <2>15. ASSUME NEW t \in Threads, DropFuture(t) PROVE HandleInv'
    BY <2>15 DEF DropFuture
  <2>16. ASSUME NEW t \in Threads, StoreCancelled(t) PROVE HandleInv'
    BY <2>16 DEF StoreCancelled
  <2>17. CASE JoinTake
    BY <2>17 DEF JoinTake
  <2>18. CASE JoinLoad
    BY <2>18 DEF JoinLoad
  <2>19. CASE JoinStore
    BY <2>19 DEF JoinStore
  <2>20. CASE JoinResume
    BY <2>20 DEF JoinResume
  <2>21. CASE JoinAgain
    BY <2>21 DEF JoinAgain
  <2>22. CASE UNCHANGED vars
    BY <2>22 DEF vars
  <2> QED
    BY <2>1, <2>2, <2>3, <2>4, <2>5, <2>6, <2>7, <2>8, <2>9, <2>10, <2>11, <2>12, <2>13, <2>14, <2>15, <2>16, <2>17, <2>18, <2>19, <2>20, <2>21, <2>22
    DEF Next, RunStep, JoinStep
<1> QED
  BY <1>1, <1>2, Typed, PTL DEF Spec

\* mark_scheduled and run() keep one handle per task and lose none, so a
\* SCHEDULED or RUNNING task always has somebody who will look at it.
THEOREM HandleConservation == Spec => [](OneHandle /\ NeverStranded)
<1>1. HandleInv => OneHandle /\ NeverStranded
  BY DEF HandleInv
<1> QED
  BY <1>1, HandleInvariant, PTL

\* No wake-up is lost between a poll and the return to IDLE.
THEOREM NoLostWake == Spec => []WakeRemembered
<1>1. HandleInv => WakeRemembered
  BY DEF HandleInv
<1> QED
  BY <1>1, HandleInvariant, PTL

\* The comment of run(): a runner never observes a live task's future absent.
THEOREM FutureNeverAbsent == Spec => []FuturePresent
<1>1. HandleInv => FuturePresent
  BY DEF HandleInv, FuturePresent, OneHandle, Holds
<1> QED
  BY <1>1, HandleInvariant, PTL

-----------------------------------------------------------------------------
(* The pool's side of the handle                                           *)

\* A thread whose swap won in complete() has used the handle up, though it is
\* still inside run(): nobody can queue the task or hold a handle of it.
Spent(t) == \/ pc[t] = "publish"
            \/ pc[t] = "handoff" /\ ~Cancelling(t)
SpentInv ==
    /\ \A t \in Threads : Spent(t) =>
         /\ queued = 0
         /\ \A u \in Threads : ~Holds(u) /\ (Spent(u) => u = t)
    /\ \A t \in Threads : pc[t] = "publish" => ~Cancelling(t)

\* Between the swap in complete() and its return, no other handle appears.
LEMMA SpentInvariant == Spec => []SpentInv
<1>1. Init => SpentInv
  BY DEF Init, SpentInv, Spent
<1>2. TypeOK /\ HandleInv /\ JoinInv /\ SpentInv /\ [Next]_vars => SpentInv'
  <2> SUFFICES ASSUME TypeOK, HandleInv, JoinInv, SpentInv, [Next]_vars
               PROVE  SpentInv'
    OBVIOUS
  <2> USE DEF TypeOK, Goto, joinVars, threadVars, SpentInv, Spent, Holds,
              Cancelling, HandleInv, OneHandle
  <2>1. ASSUME NEW t \in Threads, MarkScheduled(t) PROVE SpentInv'
    BY <2>1 DEF MarkScheduled
  <2>2. ASSUME NEW t \in Threads, Pop(t) PROVE SpentInv'
    BY <2>2 DEF Pop
  <2>3. ASSUME NEW t \in Threads, Cancel(t) PROVE SpentInv'
    BY <2>3 DEF Cancel
  <2>4. ASSUME NEW t \in Threads, Claim(t) PROVE SpentInv'
    BY <2>4 DEF Claim
  <2>5. ASSUME NEW t \in Threads, Take(t) PROVE SpentInv'
    BY <2>5 DEF Take
  <2>6. ASSUME NEW t \in Threads, PollEnds(t) PROVE SpentInv'
    BY <2>6 DEF PollEnds
  <2>7. ASSUME NEW t \in Threads, PollPending(t) PROVE SpentInv'
    BY <2>7 DEF PollPending
  <2>8. ASSUME NEW t \in Threads, PutBack(t) PROVE SpentInv'
    BY <2>8 DEF PutBack
  <2>9. ASSUME NEW t \in Threads, Settle(t) PROVE SpentInv'
    BY <2>9 DEF Settle
  <2>10. ASSUME NEW t \in Threads, Discard(t) PROVE SpentInv'
    BY <2>10 DEF Discard
  <2>11. ASSUME NEW t \in Threads, Enqueue(t) PROVE SpentInv'
    BY <2>11 DEF Enqueue
  <2>12. ASSUME NEW t \in Threads, Complete(t) PROVE SpentInv'
    BY <2>12 DEF Complete, JoinInv
  <2>13. ASSUME NEW t \in Threads, Publish(t) PROVE SpentInv'
    BY <2>13 DEF Publish
  <2>14. ASSUME NEW t \in Threads, HandOff(t) PROVE SpentInv'
    BY <2>14 DEF HandOff
  <2>15. ASSUME NEW t \in Threads, DropFuture(t) PROVE SpentInv'
    BY <2>15 DEF DropFuture
  <2>16. ASSUME NEW t \in Threads, StoreCancelled(t) PROVE SpentInv'
    BY <2>16 DEF StoreCancelled, JoinInv
  <2>17. CASE JoinTake
    BY <2>17 DEF JoinTake
  <2>18. CASE JoinLoad
    BY <2>18 DEF JoinLoad
  <2>19. CASE JoinStore
    BY <2>19 DEF JoinStore
  <2>20. CASE JoinResume
    BY <2>20 DEF JoinResume
  <2>21. CASE JoinAgain
    BY <2>21 DEF JoinAgain
  <2>22. CASE UNCHANGED vars
    BY <2>22 DEF vars
  <2> QED
    BY <2>1, <2>2, <2>3, <2>4, <2>5, <2>6, <2>7, <2>8, <2>9, <2>10, <2>11,
       <2>12, <2>13, <2>14, <2>15, <2>16, <2>17, <2>18, <2>19, <2>20, <2>21,
       <2>22
    DEF Next, RunStep, JoinStep
<1> QED
  BY <1>1, <1>2, Typed, HandleInvariant, JoinAlso, PTL DEF Spec

\* Wakers and run() give the pool a handle only when it has none: every step
\* is one that TaskPool, and so Pool, allows.
THEOREM PoolDiscipline == Spec => UsesPool
<1> DEFINE Ran  == {t \in Threads : Running(t)}
           Step == [Uses!PoolNext]_<<queued, Ran>>
<1>1. TypeOK /\ HandleInv /\ JoinInv /\ SpentInv /\ [Next]_vars => Step
  <2> SUFFICES ASSUME TypeOK, HandleInv, JoinInv, SpentInv, [Next]_vars
               PROVE  Step
    OBVIOUS
  <2> DEFINE Busy == \E t \in Threads : Running(t)
  <2>a. ASSUME queued' = queued, Busy, ~Busy' PROVE Step
    BY <2>a DEF Uses!PoolNext, Uses!End
  <2>b. ASSUME queued = 1, queued' = 0, ~Busy, Busy' PROVE Step
    BY <2>b DEF Uses!PoolNext, Uses!Start
  <2>c. ASSUME queued = 0, queued' = 1, ~Busy, ~Busy' PROVE Step
    BY <2>c DEF Uses!PoolNext, Uses!Submit
  <2>d. ASSUME queued = 0, queued' = 1, Busy, ~Busy' PROVE Step
    BY <2>d DEF Uses!PoolNext, Uses!Again
  <2>e. ASSUME queued' = queued, \A t \in Threads : Running(t)' <=> Running(t)
        PROVE  Step
    <3>1. Ran' = Ran
      BY <2>e
    <3> QED
      BY <3>1, <2>e
  <2>f. \A t \in Threads : Running(t) =>
           \A u \in Threads : Running(u) => u = t
    BY DEF Running, HandleInv, OneHandle, SpentInv, Spent, Holds, Cancelling
  <2>g. ASSUME NEW t \in Threads, Running(t), ~Running(t)', queued' = queued,
               \A u \in Threads : u # t => (Running(u)' <=> Running(u))
        PROVE  Step
    BY <2>a, <2>f, <2>g
  <2> HIDE DEF Step, Ran
  <2> USE DEF TypeOK, Goto, joinVars, threadVars, Running, Cancelling
  <2>1. ASSUME NEW t \in Threads, MarkScheduled(t) PROVE Step
    <3>1. queued' = queued /\ \A u \in Threads : Running(u)' <=> Running(u)
      BY <2>1 DEF MarkScheduled
    <3> QED
      BY <3>1, <2>e
  <2>2. ASSUME NEW t \in Threads, Pop(t) PROVE Step
    <3>1. queued = 1 /\ queued' = 0 /\ ~Busy
      BY <2>2 DEF Pop, HandleInv, OneHandle, SpentInv, Spent, Holds
    <3>2. Running(t)'
      BY <2>2 DEF Pop
    <3> QED
      BY <3>1, <3>2, <2>b
  <2>3. ASSUME NEW t \in Threads, Cancel(t) PROVE Step
    <3>1. queued' = queued /\ \A u \in Threads : Running(u)' <=> Running(u)
      BY <2>3 DEF Cancel, JoinInv
    <3> QED
      BY <3>1, <2>e
  <2>4. ASSUME NEW t \in Threads, Claim(t) PROVE Step
    <3>1. queued' = queued
      BY <2>4 DEF Claim
    <3>2. \A u \in Threads : u # t => (Running(u)' <=> Running(u))
      BY <2>4 DEF Claim
    <3>3. CASE Running(t) /\ ~Running(t)'
      BY <3>1, <3>2, <3>3, <2>g
    <3>4. CASE Running(t)' <=> Running(t)
      BY <3>1, <3>2, <3>4, <2>e
    <3>5. Running(t)' => Running(t)
      BY <2>4 DEF Claim
    <3> QED
      BY <3>3, <3>4, <3>5
  <2>5. ASSUME NEW t \in Threads, Take(t) PROVE Step
    <3>1. queued' = queued
      BY <2>5 DEF Take
    <3>2. \A u \in Threads : u # t => (Running(u)' <=> Running(u))
      BY <2>5 DEF Take
    <3>3. CASE Running(t) /\ ~Running(t)'
      BY <3>1, <3>2, <3>3, <2>g
    <3>4. CASE Running(t)' <=> Running(t)
      BY <3>1, <3>2, <3>4, <2>e
    <3>5. Running(t)' => Running(t)
      BY <2>5 DEF Take
    <3> QED
      BY <3>3, <3>4, <3>5
  <2>6. ASSUME NEW t \in Threads, PollEnds(t) PROVE Step
    <3>1. queued' = queued /\ \A u \in Threads : Running(u)' <=> Running(u)
      BY <2>6 DEF PollEnds, JoinInv
    <3> QED
      BY <3>1, <2>e
  <2>7. ASSUME NEW t \in Threads, PollPending(t) PROVE Step
    <3>1. queued' = queued /\ \A u \in Threads : Running(u)' <=> Running(u)
      BY <2>7 DEF PollPending
    <3> QED
      BY <3>1, <2>e
  <2>8. ASSUME NEW t \in Threads, PutBack(t) PROVE Step
    <3>1. queued' = queued /\ \A u \in Threads : Running(u)' <=> Running(u)
      BY <2>8 DEF PutBack
    <3> QED
      BY <3>1, <2>e
  <2>9. ASSUME NEW t \in Threads, Settle(t) PROVE Step
    <3>1. queued' = queued
      BY <2>9 DEF Settle
    <3>2. \A u \in Threads : u # t => (Running(u)' <=> Running(u))
      BY <2>9 DEF Settle
    <3>3. CASE Running(t) /\ ~Running(t)'
      BY <3>1, <3>2, <3>3, <2>g
    <3>4. CASE Running(t)' <=> Running(t)
      BY <3>1, <3>2, <3>4, <2>e
    <3>5. Running(t)' => Running(t)
      BY <2>9 DEF Settle
    <3> QED
      BY <3>3, <3>4, <3>5
  <2>10. ASSUME NEW t \in Threads, Discard(t) PROVE Step
    <3>1. queued' = queued /\ Running(t) /\ ~Running(t)'
      BY <2>10 DEF Discard
    <3>2. \A u \in Threads : u # t => (Running(u)' <=> Running(u))
      BY <2>10 DEF Discard
    <3> QED
      BY <3>1, <3>2, <2>g
  <2>11. ASSUME NEW t \in Threads, Enqueue(t) PROVE Step
    <3>1. queued = 0 /\ queued' = 1
      BY <2>11 DEF Enqueue, HandleInv, OneHandle, Holds
    <3>2. ~Busy'
      BY <2>11 DEF Enqueue, HandleInv, OneHandle, SpentInv, Spent, Holds
    <3> QED
      BY <3>1, <3>2, <2>c, <2>d
  <2>12. ASSUME NEW t \in Threads, Complete(t) PROVE Step
    <3>1. queued' = queued
      BY <2>12 DEF Complete
    <3>2. \A u \in Threads : u # t => (Running(u)' <=> Running(u))
      BY <2>12 DEF Complete
    <3>3. CASE Running(t) /\ ~Running(t)'
      BY <3>1, <3>2, <3>3, <2>g
    <3>4. CASE Running(t)' <=> Running(t)
      BY <3>1, <3>2, <3>4, <2>e
    <3>5. Running(t)' => Running(t)
      BY <2>12 DEF Complete
    <3> QED
      BY <3>3, <3>4, <3>5
  <2>13. ASSUME NEW t \in Threads, Publish(t) PROVE Step
    <3>1. queued' = queued /\ \A u \in Threads : Running(u)' <=> Running(u)
      BY <2>13 DEF Publish, SpentInv
    <3> QED
      BY <3>1, <2>e
  <2>14. ASSUME NEW t \in Threads, HandOff(t) PROVE Step
    <3>1. queued' = queued
      BY <2>14 DEF HandOff
    <3>2. \A u \in Threads : u # t => (Running(u)' <=> Running(u))
      BY <2>14 DEF HandOff
    <3>3. CASE Running(t) /\ ~Running(t)'
      BY <3>1, <3>2, <3>3, <2>g
    <3>4. CASE Running(t)' <=> Running(t)
      BY <3>1, <3>2, <3>4, <2>e
    <3>5. Running(t)' => Running(t)
      BY <2>14 DEF HandOff
    <3> QED
      BY <3>3, <3>4, <3>5
  <2>15. ASSUME NEW t \in Threads, DropFuture(t) PROVE Step
    <3>1. queued' = queued /\ \A u \in Threads : Running(u)' <=> Running(u)
      BY <2>15 DEF DropFuture, JoinInv
    <3> QED
      BY <3>1, <2>e
  <2>16. ASSUME NEW t \in Threads, StoreCancelled(t) PROVE Step
    <3>1. queued' = queued /\ \A u \in Threads : Running(u)' <=> Running(u)
      BY <2>16 DEF StoreCancelled, JoinInv
    <3> QED
      BY <3>1, <2>e
  <2>17. CASE JoinTake
    <3>1. queued' = queued /\ \A u \in Threads : Running(u)' <=> Running(u)
      BY <2>17 DEF JoinTake
    <3> QED
      BY <3>1, <2>e
  <2>18. CASE JoinLoad
    <3>1. queued' = queued /\ \A u \in Threads : Running(u)' <=> Running(u)
      BY <2>18 DEF JoinLoad
    <3> QED
      BY <3>1, <2>e
  <2>19. CASE JoinStore
    <3>1. queued' = queued /\ \A u \in Threads : Running(u)' <=> Running(u)
      BY <2>19 DEF JoinStore
    <3> QED
      BY <3>1, <2>e
  <2>20. CASE JoinResume
    <3>1. queued' = queued /\ \A u \in Threads : Running(u)' <=> Running(u)
      BY <2>20 DEF JoinResume
    <3> QED
      BY <3>1, <2>e
  <2>21. CASE JoinAgain
    <3>1. queued' = queued /\ \A u \in Threads : Running(u)' <=> Running(u)
      BY <2>21 DEF JoinAgain
    <3> QED
      BY <3>1, <2>e
  <2>22. CASE UNCHANGED vars
    <3>1. queued' = queued /\ \A u \in Threads : Running(u)' <=> Running(u)
      BY <2>22 DEF vars
    <3> QED
      BY <3>1, <2>e
  <2> QED
    BY <2>1, <2>2, <2>3, <2>4, <2>5, <2>6, <2>7, <2>8, <2>9, <2>10, <2>11,
       <2>12, <2>13, <2>14, <2>15, <2>16, <2>17, <2>18, <2>19, <2>20, <2>21,
       <2>22
    DEF Next, RunStep, JoinStep
<1> QED
  BY <1>1, Typed, HandleInvariant, JoinAlso, SpentInvariant, PTL
  DEF Spec, UsesPool
=============================================================================
