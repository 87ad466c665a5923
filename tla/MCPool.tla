------------------------------- MODULE MCPool -------------------------------
(* Small instances of Pool for TLC: a started worker, threads that register *)
(* and deregister, one more task than a worker drains before it looks at    *)
(* the injector again.                                                      *)
EXTENDS Pool, TLC
=============================================================================
