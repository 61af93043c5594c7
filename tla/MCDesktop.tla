------------------------------ MODULE MCDesktop ------------------------------
(* TLC instances of Desktop. *)
EXTENDS Desktop, TLC

CONSTANTS t1, t2, t3

TwoThreads == {t1, t2}
ThreeThreads == {t1, t2, t3}

Symmetry == Permutations(Threads)
=============================================================================
