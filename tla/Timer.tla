-------------------------------- MODULE Timer --------------------------------
(***************************************************************************)
(* The timer thread and the Sleep future (src/hypertile-core/src/timer.rs).*)
(* Time is a counter.  A step is one critical section of the driver's      *)
(* mutex or of a sleep's waker slot, or one reading of the clock.  An      *)
(* operator marked as a mutation is a plausible mistake in the one that    *)
(* follows it; no action uses it.                                          *)
(***************************************************************************)
EXTENDS Naturals, FiniteSets

CONSTANTS Sleeps,     \* Sleep futures
          Tasks,      \* tasks that await them
          Durations,  \* arguments of sleep()
          Slack,      \* the 50 microseconds Sleep::poll forgives
          MaxTime,    \* bound: deadlines lie before it
          None

ASSUME TimerAssumption ==
    /\ Durations \subseteq Nat
    /\ Slack \in Nat /\ MaxTime \in Nat
    /\ None \notin Tasks \cup Nat

VARIABLES
    now,          \* the clock
    deadline,     \* Sleep::deadline, None before sleep() is called
    slot,         \* waker_slot
    registered,   \* Sleep::registered
    holder,       \* the task that polls the sleep
    spc,          \* where a sleep is
    heap,         \* the sleeps whose entry is in the driver's heap
    driver,       \* where the driver is
    expired,      \* wakers the driver is about to call
    wakeAt,       \* when the driver's wait times out, None for never
    shutdown,
    woken         \* tasks whose waker was called

sleepVars  == <<deadline, slot, registered, holder, spc>>
driverVars == <<heap, driver, expired, wakeAt, shutdown>>
vars == <<now, sleepVars, driverVars, woken>>

Times == 0..MaxTime

TypeOK ==
    /\ now \in Times
    /\ deadline \in [Sleeps -> Times \cup {None}]
    /\ slot \in [Sleeps -> Tasks \cup {None}]
    /\ registered \in [Sleeps -> BOOLEAN]
    /\ holder \in [Sleeps -> Tasks \cup {None}]
    /\ spc \in [Sleeps -> {"unborn", "ready", "store", "register", "pending",
                           "gone"}]
    /\ heap \subseteq Sleeps
    /\ driver \in {"off", "scan", "wake", "relock", "arm", "wait", "stopped"}
    /\ expired \subseteq Tasks
    /\ wakeAt \in Times \cup {None}
    /\ shutdown \in BOOLEAN
    /\ woken \subseteq Tasks

Init ==
    /\ now = 0
    /\ deadline = [s \in Sleeps |-> None]
    /\ slot = [s \in Sleeps |-> None]
    /\ registered = [s \in Sleeps |-> FALSE]
    /\ holder = [s \in Sleeps |-> None]
    /\ spc = [s \in Sleeps |-> "unborn"]
    /\ heap = {}
    /\ driver = "off"
    /\ expired = {}
    /\ wakeAt = None
    /\ shutdown = FALSE
    /\ woken = {}

Tick == /\ now < MaxTime
        /\ now' = now + 1
        /\ UNCHANGED <<sleepVars, driverVars, woken>>

Holders == {holder[s] : s \in Sleeps}

-----------------------------------------------------------------------------
(* Sleep                                                                   *)

\* Sleep::new, in a task that then polls it.
Create(s, t, d) ==
    /\ spc[s] = "unborn"
    /\ t \notin Holders
    /\ now + d <= MaxTime
    /\ deadline' = [deadline EXCEPT ![s] = now + d]
    /\ holder' = [holder EXCEPT ![s] = t]
    /\ spc' = [spc EXCEPT ![s] = "ready"]
    /\ UNCHANGED <<now, slot, registered, driverVars, woken>>

\* Sleep::drop; an entry stays in the heap until its deadline.
Gone(s) == /\ slot' = [slot EXCEPT ![s] = None]
           /\ holder' = [holder EXCEPT ![s] = None]
           /\ spc' = [spc EXCEPT ![s] = "gone"]

\* poll() reads the clock: over, and the task drops the finished sleep, or
\* the waker is to be stored.
PollClock(s) ==
    /\ spc[s] = "ready"
    /\ IF deadline[s] <= now + Slack
         THEN Gone(s)
         ELSE spc' = [spc EXCEPT ![s] = "store"] /\ UNCHANGED <<slot, holder>>
    /\ UNCHANGED <<now, deadline, registered, driverVars, woken>>

RegisterNever(s) == FALSE           \* mutation: no entry at all

MustRegister(s) == ~registered[s]

PollStore(s) ==
    /\ spc[s] = "store"
    /\ slot' = [slot EXCEPT ![s] = holder[s]]
    /\ spc' = [spc EXCEPT ![s] = IF MustRegister(s) THEN "register"
                                                   ELSE "pending"]
    /\ UNCHANGED <<now, deadline, registered, holder, driverVars, woken>>

\* mutation: the driver is not notified of an earlier deadline
NotifyNobody == UNCHANGED <<driver, wakeAt>>

\* condvar.notify_one(), to which only the driver listens
Notify == IF driver = "wait" THEN driver' = "scan" /\ wakeAt' = None
                             ELSE UNCHANGED <<driver, wakeAt>>

\* get_timer_driver(), which starts the thread, and TimerDriver::register
PollRegister(s) ==
    /\ spc[s] = "register"
    /\ driver # "arm"
    /\ heap' = heap \cup {s}
    /\ IF driver = "off" THEN driver' = "scan" /\ UNCHANGED wakeAt ELSE Notify
    /\ registered' = [registered EXCEPT ![s] = TRUE]
    /\ spc' = [spc EXCEPT ![s] = "pending"]
    /\ UNCHANGED <<now, deadline, slot, holder, expired, shutdown, woken>>

\* The executor polls a task again once its waker was called.
Repoll(s) ==
    /\ spc[s] = "pending"
    /\ holder[s] \in woken
    /\ woken' = woken \ {holder[s]}
    /\ spc' = [spc EXCEPT ![s] = "ready"]
    /\ UNCHANGED <<now, deadline, slot, registered, holder, driverVars>>

\* Something else makes the task poll the sleep, as in a select.
Spurious(s) ==
    /\ spc[s] = "pending"
    /\ spc' = [spc EXCEPT ![s] = "ready"]
    /\ UNCHANGED <<now, deadline, slot, registered, holder, driverVars, woken>>

Drop(s) == /\ spc[s] \in {"ready", "pending"}
           /\ Gone(s)
           /\ UNCHANGED <<now, deadline, registered, driverVars, woken>>

-----------------------------------------------------------------------------
(* TimerDriver::run_timer_loop                                             *)

Due == {s \in heap : deadline[s] <= now}

\* The wakers found in the slots; that of a dropped sleep is empty.
Taken == {slot[s] : s \in Due} \ {None}

\* Pop what is due and take its wakers; the mutex is given up only to wake.
Scan ==
    /\ driver = "scan"
    /\ IF shutdown
         THEN driver' = "stopped" /\ UNCHANGED <<heap, slot, expired>>
         ELSE /\ heap' = heap \ Due
              /\ slot' = [s \in Sleeps |-> IF s \in Due THEN None ELSE slot[s]]
              /\ expired' = Taken
              /\ driver' = IF Taken = {} THEN "arm" ELSE "wake"
    /\ UNCHANGED <<now, deadline, registered, holder, spc, wakeAt, shutdown,
                   woken>>

WakeLast(t) == expired' = {}        \* mutation: only one waker is called
WakeOne(t)  == expired' = expired \ {t}

Wake ==
    /\ driver = "wake"
    /\ \E t \in expired : woken' = woken \cup {t} /\ WakeOne(t)
    /\ driver' = IF expired' = {} THEN "relock" ELSE "wake"
    /\ UNCHANGED <<now, sleepVars, heap, wakeAt, shutdown>>

\* With the mutex held, since Scan or again: stop, look for what is due by now,
\* or wait for the first deadline.
Arm ==
    /\ driver \in {"arm", "relock"}
    /\ IF shutdown
         THEN driver' = "stopped" /\ UNCHANGED wakeAt
         ELSE IF Due # {}
         THEN driver' = "scan" /\ UNCHANGED wakeAt
         ELSE /\ driver' = "wait"
              /\ wakeAt' = IF heap = {} THEN None
                           ELSE CHOOSE d \in {deadline[s] : s \in heap} :
                                  \A s \in heap : d <= deadline[s]
    /\ UNCHANGED <<now, sleepVars, heap, expired, shutdown, woken>>

\* wait_for returns because its time is over.
WaitTimeout ==
    /\ driver = "wait"
    /\ wakeAt # None /\ wakeAt <= now
    /\ driver' = "scan"
    /\ wakeAt' = None
    /\ UNCHANGED <<now, sleepVars, heap, expired, shutdown, woken>>

\* shutdown_timer(): nothing happens when the driver was never started.
ShutdownTimer ==
    /\ driver \notin {"off", "arm"}
    /\ ~shutdown
    /\ shutdown' = TRUE
    /\ Notify
    /\ UNCHANGED <<now, sleepVars, heap, expired, woken>>

-----------------------------------------------------------------------------
PollStep(s) == PollClock(s) \/ PollStore(s) \/ PollRegister(s) \/ Repoll(s)
DriverStep  == Scan \/ Wake \/ Arm \/ WaitTimeout

Next == \/ Tick
        \/ \E s \in Sleeps : \/ \E t \in Tasks, d \in Durations : Create(s, t, d)
                             \/ PollStep(s) \/ Spurious(s) \/ Drop(s)
        \/ DriverStep
        \/ ShutdownTimer

Spec == Init /\ [][Next]_vars

\* Time passes, the driver thread runs, tasks that must be polled are.
Fairness == /\ WF_vars(Tick)
            /\ WF_vars(DriverStep)
            /\ \A s \in Sleeps : WF_vars(PollStep(s))
FairSpec == Spec /\ Fairness

\* A pending Sleep is moved into another task, which polls it.
MoveSleep(s, t) ==
    /\ spc[s] = "pending"
    /\ t \notin Holders
    /\ holder' = [holder EXCEPT ![s] = t]
    /\ spc' = [spc EXCEPT ![s] = "ready"]
    /\ UNCHANGED <<now, deadline, slot, registered, driverVars, woken>>

MoveSpec ==
    Init /\ [][Next \/ \E s \in Sleeps, t \in Tasks : MoveSleep(s, t)]_vars

-----------------------------------------------------------------------------
(* Properties                                                              *)

\* A pending sleep will wake the task that awaits it: its waker is where the
\* driver will find it, or the driver already has it, or has called it.
Armed ==
    \A s \in Sleeps : spc[s] = "pending" /\ ~shutdown =>
        \/ s \in heap /\ slot[s] = holder[s]
        \/ holder[s] \in expired \cup woken

\* The driver never sleeps past a deadline: a registration that comes while it
\* waits, wakes or computes its timeout is taken into account.
NeverOversleeps ==
    driver = "wait" => \A s \in heap : wakeAt # None /\ wakeAt <= deadline[s]

\* Every sleep ends, unless it is dropped or the timer is shut down.
SleepEnds ==
    \A s \in Sleeps : spc[s] = "pending" ~> spc[s] = "gone" \/ shutdown

\* shutdown_timer stops the driver thread whatever it is doing.
DriverStops == shutdown ~> driver = "stopped"

\* The driver thread neither forgets a sleep nor outlives its shutdown.
DriverServes == SleepEnds /\ DriverStops
=============================================================================
