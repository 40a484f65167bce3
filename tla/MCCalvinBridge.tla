--------------------------- MODULE MCCalvinBridge ---------------------------
(***************************************************************************)
(* CalvinBridge for TLC: threads, methods and callbacks are model values.  *)
(***************************************************************************)
EXTENDS CalvinBridge, TLC

CONSTANTS t1, t2, t3, m1, m2, m3, c1, c2

\* Safety only: threads and callbacks are interchangeable.
Symmetry == Permutations({t1, t2, t3}) \cup Permutations({c1, c2})
=============================================================================
