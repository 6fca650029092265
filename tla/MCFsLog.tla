------------------------------ MODULE MCFsLog ------------------------------
(* FsLog for TLC: processes, blocks and contents are interchangeable.        *)
EXTENDS FsLog, TLC

Symmetry ==
    Permutations(Proc) \cup Permutations(Block) \cup Permutations(Data)
=============================================================================
