------------------------------- MODULE MCTimer -------------------------------
(* Small instances of Timer for TLC: two sleeps, so that a registration can *)
(* come while the driver waits for, or wakes, the other one.                *)
EXTENDS Timer, TLC

MCDurations == {1, 2, 3}
=============================================================================
