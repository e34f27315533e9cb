----------------------------- MODULE MCAccounts -----------------------------
(* Accounts, and the inductive invariant of its proofs, on a small         *)
(* instance; names and threads are interchangeable.                        *)
EXTENDS AccountsProofs, TLC

MCSymmetry == Permutations(Names) \cup Permutations(Workers)
=============================================================================
