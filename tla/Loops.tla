-------------------------------- MODULE Loops --------------------------------
(***************************************************************************)
(* What loops come to: the running total of one that adds a number per     *)
(* round, and the outcome of one that stops at its first error.  The total *)
(* is a recursive function rather than a fold over a set, so that it can   *)
(* be reasoned about (LoopProofs).  This module has no state.              *)
(***************************************************************************)
EXTENDS Integers, FiniteSetsExt

\* g[1] + ... + g[n].
Total(g, n) ==
  LET upto[k \in 0..n] == IF k = 0 THEN 0 ELSE upto[k - 1] + g[k] IN upto[n]

\* The first of error[1], ..., error[n] that is one.
FirstError(error, n) ==
  LET bad == {k \in 1..n : error[k] # "none"}
  IN  IF bad = {} THEN "none" ELSE error[Min(bad)]
=============================================================================
