----------------------------- MODULE MCAwaitable -----------------------------
(* Small instances of Awaitable for TLC: a single task, a batch in equal    *)
(* chunks and, with one worker, five items in chunks of two, two and one.   *)
EXTENDS Awaitable, TLC

MCTotals    == {0, 1, 2, 5}
MCPoolSizes == {0, 1}
=============================================================================
