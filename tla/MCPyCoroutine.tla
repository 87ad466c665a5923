---------------------------- MODULE MCPyCoroutine ----------------------------
(* A small instance of PyCoroutine for TLC: two workers, so that one can be  *)
(* handed the task while the other still holds the mutex.                    *)
EXTENDS PyCoroutine, TLC
=============================================================================
