--------------------------- MODULE FrameAllocator ---------------------------
(***************************************************************************)
(* What the FrameAllocator trait promises (kernel/src/mem/allocator/       *)
(* mod.rs): alloc_pages hands out a range of page frames of which nobody   *)
(* holds any, and free_pages takes it back.  A refused request changes     *)
(* nothing.                                                                *)
(***************************************************************************)
EXTENDS Integers

CONSTANTS Pages,     \* number of page frames managed
          Requests   \* numbers of pages callers ask for

VARIABLE held        \* the ranges [addr, pages] the callers hold

Frames(h) == h.addr..(h.addr + h.pages - 1)

FramesInit == held = {}

TakeFrames(n) ==
  \E a \in 0..(Pages - n) :
    /\ \A h \in held : Frames(h) \cap (a..(a + n - 1)) = {}
    /\ held' = held \cup {[addr |-> a, pages |-> n]}

GiveFrames(h) == held' = held \ {h}

FramesNext ==
  \/ \E n \in Requests \ {0} : TakeFrames(n)
  \/ \E h \in held : GiveFrames(h)

FramesSpec == FramesInit /\ [][FramesNext]_held
=============================================================================
