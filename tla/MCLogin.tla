------------------------------- MODULE MCLogin -------------------------------
(* Login, and the inductive invariant of its proofs, on a small instance;  *)
(* threads and passwords are interchangeable.                              *)
EXTENDS LoginProofs, TLC

MCSymmetry == Permutations(Logins) \cup Permutations(Passwords)
=============================================================================
