----------------------------- MODULE MCTaskCell -----------------------------
(* Small instances of TaskCell for TLC.  Three threads let one poll while  *)
(* another wakes and a third cancels; two joiners let the handle move.     *)
EXTENDS TaskCell, TLC
=============================================================================
