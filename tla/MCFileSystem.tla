---------------------------- MODULE MCFileSystem ----------------------------
(***************************************************************************)
(* FileSystem for TLC: threads, names and data values are interchangeable. *)
(***************************************************************************)
EXTENDS FileSystem, TLC

\* One unit stands for what an older file system left behind: neither zero nor
\* anything that is written.
MCOldUnits == {Datum(v, 0) : v \in Values}

Symmetry == Permutations(Threads) \cup Permutations(Names) \cup Permutations(Values)
=============================================================================
