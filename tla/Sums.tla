-------------------------------- MODULE Sums --------------------------------
(***************************************************************************)
(* The sum of a function's values over a finite set: what the invariants   *)
(* of the ledgers are written with.  f is a function, not an operator, so  *)
(* that what MarketProofs says of sums applies to every f.                 *)
(***************************************************************************)
EXTENDS Integers, FiniteSetsExt

SumOf(f, S) == MapThenSumSet(LAMBDA x : f[x], S)
=============================================================================
