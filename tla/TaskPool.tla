------------------------------ MODULE TaskPool ------------------------------
(***************************************************************************)
(* What the executor promises about a handle given to it: the handle is    *)
(* queued until exactly one worker takes it, and it is not forgotten.      *)
(* Pool implements this specification.                                     *)
(***************************************************************************)
CONSTANT Tasks
VARIABLES queued,   \* handles waiting in the pool
          active    \* handles some thread is running

PoolInit == queued = {} /\ active = {}

Submit(t) == /\ t \notin queued \cup active
             /\ queued' = queued \cup {t}
             /\ UNCHANGED active

Start(t) == /\ t \in queued
            /\ queued' = queued \ {t}
            /\ active' = active \cup {t}

End(t) == /\ t \in active
          /\ active' = active \ {t}
          /\ UNCHANGED queued

\* A task woken while it ran is queued again.
Again(t) == /\ t \in active
            /\ active' = active \ {t}
            /\ queued' = queued \cup {t}

\* A worker that finishes a handle may have the next one in the same step.
EndAndStart(t, u) == /\ t \in active
                     /\ u \in queued
                     /\ queued' = queued \ {u}
                     /\ active' = (active \ {t}) \cup {u}

PoolNext == \/ \E t \in Tasks : Submit(t) \/ Start(t) \/ End(t) \/ Again(t)
            \/ \E t, u \in Tasks : EndAndStart(t, u)

PoolSpec == PoolInit /\ [][PoolNext]_<<queued, active>>
=============================================================================
