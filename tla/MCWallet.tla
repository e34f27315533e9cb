------------------------------ MODULE MCWallet ------------------------------
(* Wallet, and the inductive invariant of its proofs, on a small instance. *)
EXTENDS WalletProofs

\* One withdrawal, as large as the bonus: refused after a transfer out, lost
\* money when it overwrites a transfer in.
MCDeltas == {-2}
=============================================================================
