----------------------------- MODULE MCScheduler -----------------------------
(* UsageLimitScheduler with the code's exponential backoff.                *)
EXTENDS UsageLimitScheduler

Doubling == [k \in 0 .. 30 |-> 2 ^ k]
=============================================================================
