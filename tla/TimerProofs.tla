----------------------------- MODULE TimerProofs -----------------------------
(***************************************************************************)
(* Theorems about Timer for any sets of sleeps and tasks, any durations    *)
(* and any bound on the clock: a pending sleep stays armed, and the driver *)
(* never waits past a deadline in its heap.  They are proved of Spec,      *)
(* where a sleep stays in the task that first polled it.                   *)
(***************************************************************************)
EXTENDS Timer, WellFoundedInduction, TLAPS

USE DEF Times

\* BinaryHeap::peek: a set of deadlines that is not empty has an earliest one.
LEMMA Earliest ==
  ASSUME NEW D \in SUBSET Nat, D # {}
  PROVE  \E d \in D : \A e \in D : d <= e
<1>1. PICK d \in D : \A e \in D : ~(<<e, d>> \in OpToRel(<, Nat))
  BY NatLessThanWellFounded, WFMin
<1>2. \A e \in D : ~(e < d)
  BY <1>1 DEF OpToRel
<1>3. \A e \in D : d <= e
  BY <1>2
<1> QED BY <1>3

\* Sleep::new precedes poll, so an entry in the driver's heap has a deadline.
Born ==
    /\ \A s \in Sleeps : spc[s] = "unborn" => s \notin heap /\ ~registered[s]
    /\ \A s \in Sleeps : spc[s] # "unborn" => deadline[s] \in Times

\* What Arm waits for is the earliest deadline in the heap.
LEMMA FirstDeadline ==
  ASSUME TypeOK, Born, heap # {},
         NEW w, w = CHOOSE d \in {deadline[s] : s \in heap} :
                      \A s \in heap : d <= deadline[s]
  PROVE  w \in Times /\ \A s \in heap : w <= deadline[s]
<1> DEFINE D == {deadline[s] : s \in heap}
<1>1. D \in SUBSET Nat /\ D \subseteq Times /\ D # {}
  BY TimerAssumption DEF TypeOK, Born
<1>2. PICK d \in D : \A e \in D : d <= e
  BY <1>1, Earliest
<1>3. \E e \in D : \A s \in heap : e <= deadline[s]
  BY <1>2
<1>4. w \in D /\ \A s \in heap : w <= deadline[s]
  BY <1>3
<1> QED BY <1>1, <1>4

\* Sleep::poll, Sleep::drop and the driver leave every variable in its type.
LEMMA Typed == Spec => [](TypeOK /\ Born)
<1>1. Init => TypeOK /\ Born
  <2> SUFFICES ASSUME Init PROVE TypeOK /\ Born
    OBVIOUS
  <2>1. shutdown \in BOOLEAN /\ registered \in [Sleeps -> BOOLEAN]
    BY Zenon DEF Init
  <2> QED
    BY <2>1, TimerAssumption, SMT DEF Init, TypeOK, Born
<1>2. TypeOK /\ Born /\ [Next]_vars => TypeOK' /\ Born'
  <2> SUFFICES ASSUME TypeOK, Born, [Next]_vars
               PROVE  (TypeOK /\ Born)'
    OBVIOUS
  <2> USE TimerAssumption DEF TypeOK, Born, sleepVars, driverVars, Gone, Notify,
          MustRegister, Due, Taken
  <2>1. CASE Tick
    BY <2>1 DEF Tick
  <2>2. ASSUME NEW s \in Sleeps, NEW t \in Tasks, NEW d \in Durations,
              Create(s, t, d)
       PROVE  (TypeOK /\ Born)'
    BY <2>2 DEF Create
  <2>3. ASSUME NEW s \in Sleeps, PollClock(s) PROVE (TypeOK /\ Born)'
    BY <2>3 DEF PollClock
  <2>4. ASSUME NEW s \in Sleeps, PollStore(s) PROVE (TypeOK /\ Born)'
    BY <2>4 DEF PollStore
  <2>5. ASSUME NEW s \in Sleeps, PollRegister(s) PROVE (TypeOK /\ Born)'
    BY <2>5 DEF PollRegister
  <2>6. ASSUME NEW s \in Sleeps, Repoll(s) PROVE (TypeOK /\ Born)'
    BY <2>6 DEF Repoll
  <2>7. ASSUME NEW s \in Sleeps, Spurious(s) PROVE (TypeOK /\ Born)'
    BY <2>7 DEF Spurious
  <2>8. ASSUME NEW s \in Sleeps, Drop(s) PROVE (TypeOK /\ Born)'
    BY <2>8 DEF Drop
  <2>9. CASE Scan
    BY <2>9 DEF Scan
  <2>10. CASE Wake
    BY <2>10 DEF Wake, WakeOne
  <2>11. CASE Arm
    <3>1. CASE wakeAt' = wakeAt
      BY <2>11, <3>1 DEF Arm
    <3>2. CASE heap = {}
      BY <2>11, <3>2 DEF Arm
    <3>3. CASE wakeAt' # wakeAt /\ heap # {}
      <4>1. wakeAt' \in Times
        BY <2>11, <3>3, FirstDeadline DEF Arm
      <4> QED BY <2>11, <4>1 DEF Arm
    <3> QED BY <3>1, <3>2, <3>3
  <2>12. CASE WaitTimeout
    BY <2>12 DEF WaitTimeout
  <2>13. CASE ShutdownTimer
    BY <2>13 DEF ShutdownTimer
  <2>14. CASE UNCHANGED vars
    BY <2>14 DEF vars
  <2> QED
    BY <2>1, <2>2, <2>3, <2>4, <2>5, <2>6, <2>7, <2>8, <2>9, <2>10, <2>11, <2>12, <2>13, <2>14
    DEF Next, PollStep, DriverStep
<1> QED
  BY <1>1, <1>2, PTL DEF Spec

\* Each sleep is awaited by a task of its own, and only a driver on its way to
\* wake holds wakers.
Owned ==
    /\ \A s \in Sleeps : spc[s] \in {"unborn", "gone"} <=> holder[s] = None
    /\ \A s, u \in Sleeps : holder[s] = holder[u] /\ s # u => holder[s] = None
    /\ driver # "wake" => expired = {}

\* A sleep that has registered keeps its entry until its deadline, and its
\* task's waker lies in its slot as long as the entry is there; once the entry
\* is gone the waker is with the driver or was called.  That must hold from
\* the reading of the clock on, where Armed looks at parked sleeps only.
Entry ==
    /\ \A s \in Sleeps : s \in heap => registered[s]
    /\ \A s \in Sleeps : registered[s] /\ s \notin heap => deadline[s] <= now
    /\ \A s \in Sleeps : spc[s] = "pending" => registered[s]
    /\ \A s \in Sleeps : spc[s] = "register" => slot[s] = holder[s] /\ ~registered[s]
    /\ \A s \in heap : spc[s] \in {"ready", "store", "pending"} => slot[s] = holder[s]
    /\ \A s \in Sleeps : spc[s] \in {"store", "pending"} /\ registered[s] /\ s \notin heap
                         => holder[s] \in expired \cup woken

LEMMA OwnedInvariant == Spec => []Owned
<1>1. Init => Owned
  BY DEF Init, Owned
<1>2. TypeOK /\ Born /\ Owned /\ [Next]_vars => Owned'
  <2> SUFFICES ASSUME TypeOK, Born, Owned, [Next]_vars
               PROVE  Owned'
    OBVIOUS
  <2> USE TimerAssumption DEF TypeOK, Owned, sleepVars, driverVars, Gone, Notify,
          MustRegister, Due, Taken
  <2>1. CASE Tick
    BY <2>1 DEF Tick
  <2>2. ASSUME NEW s \in Sleeps, NEW t \in Tasks, NEW d \in Durations,
              Create(s, t, d)
       PROVE  Owned'
    BY <2>2 DEF Create, Holders
  <2>3. ASSUME NEW s \in Sleeps, PollClock(s) PROVE Owned'
    BY <2>3 DEF PollClock
  <2>4. ASSUME NEW s \in Sleeps, PollStore(s) PROVE Owned'
    BY <2>4 DEF PollStore
  <2>5. ASSUME NEW s \in Sleeps, PollRegister(s) PROVE Owned'
    BY <2>5 DEF PollRegister
  <2>6. ASSUME NEW s \in Sleeps, Repoll(s) PROVE Owned'
    BY <2>6 DEF Repoll
  <2>7. ASSUME NEW s \in Sleeps, Spurious(s) PROVE Owned'
    BY <2>7 DEF Spurious
  <2>8. ASSUME NEW s \in Sleeps, Drop(s) PROVE Owned'
    BY <2>8 DEF Drop
  <2>9. CASE Scan
    BY <2>9 DEF Scan
  <2>10. CASE Wake
    BY <2>10 DEF Wake, WakeOne
  <2>11. CASE Arm
    BY <2>11 DEF Arm
  <2>12. CASE WaitTimeout
    BY <2>12 DEF WaitTimeout
  <2>13. CASE ShutdownTimer
    BY <2>13 DEF ShutdownTimer
  <2>14. CASE UNCHANGED vars
    BY <2>14 DEF vars
  <2> QED
    BY <2>1, <2>2, <2>3, <2>4, <2>5, <2>6, <2>7, <2>8, <2>9, <2>10, <2>11, <2>12, <2>13, <2>14
    DEF Next, PollStep, DriverStep
<1> QED
  BY <1>1, <1>2, Typed, PTL DEF Spec

LEMMA EntryInvariant == Spec => []Entry
<1>1. Init => Entry
  BY DEF Init, Entry
<1>2. TypeOK /\ Born /\ Owned /\ Entry /\ [Next]_vars => Entry'
  <2> SUFFICES ASSUME TypeOK, Born, Owned, Entry, [Next]_vars
               PROVE  Entry'
    OBVIOUS
  <2> USE TimerAssumption DEF TypeOK, Born, Owned, Entry, sleepVars, driverVars, Gone,
          Notify, MustRegister, Due, Taken
  <2>1. CASE Tick
    BY <2>1 DEF Tick
  <2>2. ASSUME NEW s \in Sleeps, NEW t \in Tasks, NEW d \in Durations,
              Create(s, t, d)
       PROVE  Entry'
    BY <2>2 DEF Create
  <2>3. ASSUME NEW s \in Sleeps, PollClock(s) PROVE Entry'
    BY <2>3 DEF PollClock
  <2>4. ASSUME NEW s \in Sleeps, PollStore(s) PROVE Entry'
    BY <2>4 DEF PollStore
  <2>5. ASSUME NEW s \in Sleeps, PollRegister(s) PROVE Entry'
    BY <2>5 DEF PollRegister
  <2>6. ASSUME NEW s \in Sleeps, Repoll(s) PROVE Entry'
    BY <2>6 DEF Repoll
  <2>7. ASSUME NEW s \in Sleeps, Spurious(s) PROVE Entry'
    BY <2>7 DEF Spurious
  <2>8. ASSUME NEW s \in Sleeps, Drop(s) PROVE Entry'
    BY <2>8 DEF Drop
  <2>9. CASE Scan
    BY <2>9 DEF Scan
  <2>10. CASE Wake
    BY <2>10 DEF Wake, WakeOne
  <2>11. CASE Arm
    BY <2>11 DEF Arm
  <2>12. CASE WaitTimeout
    BY <2>12 DEF WaitTimeout
  <2>13. CASE ShutdownTimer
    BY <2>13 DEF ShutdownTimer
  <2>14. CASE UNCHANGED vars
    BY <2>14 DEF vars
  <2> QED
    BY <2>1, <2>2, <2>3, <2>4, <2>5, <2>6, <2>7, <2>8, <2>9, <2>10, <2>11, <2>12, <2>13, <2>14
    DEF Next, PollStep, DriverStep
<1> QED
  BY <1>1, <1>2, Typed, OwnedInvariant, PTL DEF Spec

\* Sleep::poll stores the waker before it registers, and the driver takes it
\* with the entry: a pending sleep never waits without a way to be woken.
THEOREM SleepArmed == Spec => []Armed
<1>1. TypeOK /\ Entry => Armed
  BY DEF TypeOK, Entry, Armed
<1> QED
  BY <1>1, Typed, EntryInvariant, PTL

\* run_timer_loop computes its wait with the mutex held, and a registration
\* notifies it: no deadline in the heap lies before the end of the wait.
THEOREM DriverAwake == Spec => []NeverOversleeps
<1>1. Init => NeverOversleeps
  BY DEF Init, NeverOversleeps
<1>2. TypeOK /\ Born /\ NeverOversleeps /\ [Next]_vars => NeverOversleeps'
  <2> SUFFICES ASSUME TypeOK, Born, NeverOversleeps, [Next]_vars
               PROVE  NeverOversleeps'
    OBVIOUS
  <2> USE TimerAssumption DEF TypeOK, Born, NeverOversleeps, sleepVars, driverVars,
          Notify, Gone
  <2>1. CASE Tick
    BY <2>1 DEF Tick
  <2>2. ASSUME NEW s \in Sleeps, NEW t \in Tasks, NEW d \in Durations,
              Create(s, t, d)
       PROVE  NeverOversleeps'
    BY <2>2 DEF Create
  <2>3. ASSUME NEW s \in Sleeps, PollClock(s) PROVE NeverOversleeps'
    BY <2>3 DEF PollClock
  <2>4. ASSUME NEW s \in Sleeps, PollStore(s) PROVE NeverOversleeps'
    BY <2>4 DEF PollStore
  <2>5. ASSUME NEW s \in Sleeps, PollRegister(s) PROVE NeverOversleeps'
    BY <2>5 DEF PollRegister
  <2>6. ASSUME NEW s \in Sleeps, Repoll(s) PROVE NeverOversleeps'
    BY <2>6 DEF Repoll
  <2>7. ASSUME NEW s \in Sleeps, Spurious(s) PROVE NeverOversleeps'
    BY <2>7 DEF Spurious
  <2>8. ASSUME NEW s \in Sleeps, Drop(s) PROVE NeverOversleeps'
    BY <2>8 DEF Drop
  <2>9. CASE Scan
    BY <2>9 DEF Scan
  <2>10. CASE Wake
    BY <2>10 DEF Wake, WakeOne
  <2>11. CASE Arm
    <3>1. CASE driver' # "wait"
      BY <2>11, <3>1 DEF Arm
    <3>2. CASE driver' = "wait" /\ heap # {}
      <4>1. wakeAt' \in Times /\ \A s \in heap : wakeAt' <= deadline[s]
        BY <2>11, <3>2, FirstDeadline DEF Arm
      <4> QED BY <2>11, <4>1 DEF Arm
    <3>3. CASE heap = {}
      BY <2>11, <3>3 DEF Arm
    <3> QED BY <3>1, <3>2, <3>3
  <2>12. CASE WaitTimeout
    BY <2>12 DEF WaitTimeout
  <2>13. CASE ShutdownTimer
    BY <2>13 DEF ShutdownTimer
  <2>14. CASE UNCHANGED vars
    BY <2>14 DEF vars
  <2> QED
    BY <2>1, <2>2, <2>3, <2>4, <2>5, <2>6, <2>7, <2>8, <2>9, <2>10, <2>11, <2>12, <2>13, <2>14
    DEF Next, PollStep, DriverStep
<1> QED
  BY <1>1, <1>2, Typed, PTL DEF Spec
=============================================================================
