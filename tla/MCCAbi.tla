-------------------------------- MODULE MCCAbi --------------------------------
(* Small instances of CAbi for TLC: two waiting threads, a pool of two, and  *)
(* batches of one item and, for active_count() 0 and 1, of five items in     *)
(* chunks of two, two and one.                                               *)
EXTENDS CAbi, TLC

MCCounts    == {1, 5}
MCPoolSizes == {0, 1}
=============================================================================
