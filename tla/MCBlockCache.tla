---------------------------- MODULE MCBlockCache ----------------------------
(***************************************************************************)
(* Instances of BlockCache for TLC.                                        *)
(***************************************************************************)
EXTENDS BlockCache, TLC

\* Cells and threads are interchangeable; blocks are not (Refused), and the
\* values are few.
Symmetry == Permutations(Threads) \cup Permutations(Objs)
=============================================================================
