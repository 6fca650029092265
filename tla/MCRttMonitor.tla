---------------------------- MODULE MCRttMonitor ----------------------------
EXTENDS RttMonitor

(* The threads run the same code and the conditions are only names.          *)
Symmetry == Permutations(Thread) \cup Permutations(Cond)
=============================================================================
