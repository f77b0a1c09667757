--------------------------- MODULE MCSlabAllocator ---------------------------
(***************************************************************************)
(* Instances of SlabAllocator for TLC: the cache of 4096-byte objects, one *)
(* of which fits into a slab, and one whose slabs hold two objects.        *)
(***************************************************************************)
EXTENDS SlabAllocator, TLC

CONSTANTS page, small

MCCaches == {page, small}
MCSlots == [c \in MCCaches |-> IF c = page THEN 1 ELSE 2]
\* The properties of the passing run speak of behaviours in which only heads
\* have been emptied; TLC need not follow the others.
OnlyHeads == ~emptied

Symmetry == Permutations(Clients)
=============================================================================
