--------------------------- MODULE MCGlobalRuntime ---------------------------
(* Small instances of GlobalRuntime for TLC: pools of one worker on request *)
(* and of two by HYPERTILE_WORKERS.                                         *)
EXTENDS GlobalRuntime, TLC

MCRequested == {1}
=============================================================================
