-------------------------------- MODULE Sums --------------------------------
(* The sum of a function's values over a finite set, the SUM of a query.   *)
EXTENDS FiniteSetsExt

Sum(f, S) == MapThenSumSet(LAMBDA x : f[x], S)
=============================================================================
