---------------------------- MODULE MCInodeCache ----------------------------
(***************************************************************************)
(* InodeCache for TLC: threads are interchangeable, and so are the inodes  *)
(* that are only looked up.                                                *)
(***************************************************************************)
EXTENDS InodeCache, TLC

Symmetry == Permutations(Threads) \cup Permutations(Inodes \ Growing)
=============================================================================
