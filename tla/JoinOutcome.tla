----------------------------- MODULE JoinOutcome -----------------------------
(***************************************************************************)
(* What a spawned task promises to the holder of its JoinHandle: the task  *)
(* is decided once, by completion, panic or cancellation, and the handle   *)
(* yields that decision, once.  TaskCell implements this specification.    *)
(***************************************************************************)
CONSTANT Outcomes,    \* what a task can end with
         None         \* no outcome yet
VARIABLES outcome,    \* how the task ended
          delivered   \* what JoinHandle::poll returned

JoinInit == outcome = None /\ delivered = None

Decide == /\ outcome = None
          /\ outcome' \in Outcomes
          /\ UNCHANGED delivered

Deliver == /\ outcome # None
           /\ delivered = None
           /\ delivered' = outcome
           /\ UNCHANGED outcome

JoinNext == Decide \/ Deliver

JoinSpec == JoinInit /\ [][JoinNext]_<<outcome, delivered>>
=============================================================================
