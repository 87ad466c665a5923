-------------------------- MODULE MCAsyncioExecutor --------------------------
(* A small instance of AsyncioExecutor for TLC.                            *)
EXTENDS AsyncioExecutor
=============================================================================
