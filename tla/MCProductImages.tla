--------------------------- MODULE MCProductImages ---------------------------
(* ProductImages on a small instance; products, files and threads are      *)
(* interchangeable.                                                        *)
EXTENDS ProductImagesProofs, TLC

MCSymmetry == Permutations(Products) \cup Permutations(Files) \cup Permutations(Threads)
=============================================================================
