----------------------------- MODULE MCSessions ------------------------------
(* Sessions on a small instance; browsers and threads are interchangeable.   *)
EXTENDS Sessions, TLC

MCSymmetry == Permutations(Browsers) \cup Permutations(Requests)
=============================================================================
