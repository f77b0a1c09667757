---------------------------- MODULE SlabAllocator ----------------------------
(***************************************************************************)
(* The kernel heap (kernel/src/mem/allocator/mod.rs and slab_allocator.rs):*)
(* GlobalAllocator sends small sizes to the slab cache of their order and  *)
(* large ones to the frame allocator, from which slabs come too.           *)
(*                                                                         *)
(* All lists run through the memory they manage.  The model keeps those    *)
(* links: the first word of a frame is SlabHeader::free_list while the     *)
(* frame is a slab, and FreeBlock::next while it is free.  The frame       *)
(* allocator is its list of free blocks of SLAB_PAGES pages, without       *)
(* splitting and merging (BuddyAllocator models those).  Every operation   *)
(* holds the lock of its cache and takes the frame lock inside it, and     *)
(* touches nothing else, so an operation is one step.                      *)
(***************************************************************************)
EXTENDS Integers, Sequences, FiniteSets

CONSTANTS Caches,    \* the MemCaches in use
          Slots,     \* for each cache, how many objects fit into a slab
          NFrames,   \* number of blocks of SLAB_PAGES pages
          Clients,   \* owners of at most one allocation each
          None

Frames == 1..NFrames
MaxSlots == CHOOSE n \in {Slots[c] : c \in Caches} : \A c \in Caches : Slots[c] <= n
Start(f) == <<f, 0>>                       \* address of a frame and of its header
Objects(f, c) == {f} \X (1..Slots[c])      \* objects of a slab of cache c
Addrs == Frames \X (0..MaxSlots)

ASSUME SlabAssumption ==
  /\ Slots \in [Caches -> Nat \ {0}]
  /\ NFrames \in Nat

VARIABLES word,         \* the first word at each address: a link
          next,         \* SlabHeader::next
          active,       \* SlabHeader::active_objects
          kind,         \* the cache whose object_start and object_end a header has
          slabs,        \* MemCache::slabs, head of the cache's slab list
          free_frames,  \* head of the frame allocator's list
          live,         \* the allocation each client holds
          emptied       \* history: a slab behind the head of its list was emptied

vars == <<word, next, active, kind, slabs, free_frames, live, emptied>>

-----------------------------------------------------------------------------
\* The slabs of cache c in list order, as far as they differ: a walk that
\* meets a slab again never ends.
Walk(c) ==
  LET at[n \in 1..(NFrames + 1)] ==
        IF n = 1 THEN slabs[c]
        ELSE IF at[n - 1] = None THEN None ELSE next[at[n - 1]]
  IN  at

\* The first slab of the walk that satisfies P.
First(c, P(_)) ==
  {s \in Frames : \E n \in 1..NFrames :
     /\ Walk(c)[n] = s /\ P(s)
     /\ \A m \in 1..(n - 1) : ~P(Walk(c)[m])}

HasFree(s) == word[Start(s)] # None

\* (Mutant) the free list is not advanced.
PopSame(k, c, s, w, act) ==
  /\ word' = w
  /\ active' = [act EXCEPT ![s] = @ + 1]
  /\ live' = [live EXCEPT ![k] = [cache |-> c, addr |-> w[Start(s)]]]

\* SlabHeader::alloc in the memory w.
Pop(k, c, s, w, act) ==
  /\ word' = [w EXCEPT ![Start(s)] = w[w[Start(s)]]]
  /\ active' = [act EXCEPT ![s] = @ + 1]
  /\ live' = [live EXCEPT ![k] = [cache |-> c, addr |-> w[Start(s)]]]

\* MemCache::alloc finds a slab with a free object.
Alloc(k, c) ==
  /\ live[k] = None
  /\ \E s \in First(c, HasFree) : Pop(k, c, s, word, active)
  /\ UNCHANGED <<next, kind, slabs, free_frames, emptied>>

\* SlabHeader::init links the objects of the slab, the last one first.
Linked(f, c) ==
  [a \in Addrs |->
     IF a = Start(f) THEN <<f, Slots[c]>>
     ELSE IF a \in Objects(f, c) THEN (IF a[2] = 1 THEN None ELSE <<f, a[2] - 1>>)
     ELSE word[a]]

\* (Mutant) The new slab replaces the list instead of being put in front.
Chained(f, c) == [next EXCEPT ![f] = None]

NextOfNew(f, c) == [next EXCEPT ![f] = slabs[c]]

\* MemCache::alloc with no free object in any slab: alloc_slab, then the new
\* slab serves the request.
AllocSlab(k, c) ==
  /\ live[k] = None
  /\ First(c, HasFree) = {}
  /\ Walk(c)[NFrames + 1] = None
  /\ free_frames # None
  /\ LET f == free_frames[1]
     IN  /\ free_frames' = word[Start(f)]
         /\ kind' = [kind EXCEPT ![f] = c]
         /\ next' = NextOfNew(f, c)
         /\ slabs' = [slabs EXCEPT ![c] = f]
         /\ Pop(k, c, f, Linked(f, c), [active EXCEPT ![f] = 0])
  /\ UNCHANGED emptied

\* (Mutant) An emptied slab keeps its place although its pages are freed.
HeadAfter(c, s) == slabs[c]

\* free_slab unlinks the head.  Its loop for the other slabs compares a slab's
\* next with the slab itself and so unlinks nothing.
SlabsAfter(c, s) == IF slabs[c] = s THEN next[s] ELSE slabs[c]

\* MemCache::free: slab.free, then free_slab if that was the last object.
Free(k) ==
  /\ live[k] # None
  /\ live[k].cache # None
  /\ LET c == live[k].cache
         obj == live[k].addr
         ContainsObj(s) == kind[s] # None /\ obj \in Objects(s, kind[s])
     IN  IF First(c, ContainsObj) # {}
         THEN \E s \in First(c, ContainsObj) :
                LET freed == [word EXCEPT ![obj] = word[Start(s)], ![Start(s)] = obj]
                IN  /\ active' = [active EXCEPT ![s] = @ - 1]
                    /\ \/ /\ active[s] # 1
                          /\ word' = freed
                          /\ UNCHANGED <<slabs, free_frames, emptied>>
                       \/ /\ active[s] = 1
                          /\ word' = [freed EXCEPT ![Start(s)] = free_frames]
                          /\ free_frames' = Start(s)
                          /\ slabs' = [slabs EXCEPT ![c] = SlabsAfter(c, s)]
                          /\ emptied' = (emptied \/ slabs[c] # s)
         ELSE /\ Walk(c)[NFrames + 1] = None
              /\ UNCHANGED <<word, active, slabs, free_frames, emptied>>
  /\ live' = [live EXCEPT ![k] = None]
  /\ UNCHANGED <<next, kind>>

\* GlobalAlloc::alloc and dealloc of a size above MAX_SLAB_ORDER.
AllocPages(k) ==
  /\ live[k] = None
  /\ free_frames # None
  /\ free_frames' = word[free_frames]
  /\ live' = [live EXCEPT ![k] = [cache |-> None, addr |-> free_frames]]
  /\ UNCHANGED <<word, next, active, kind, slabs, emptied>>

FreePages(k) ==
  /\ live[k] # None
  /\ live[k].cache = None
  /\ word' = [word EXCEPT ![live[k].addr] = free_frames]
  /\ free_frames' = live[k].addr
  /\ live' = [live EXCEPT ![k] = None]
  /\ UNCHANGED <<next, active, kind, slabs, emptied>>

-----------------------------------------------------------------------------
Init ==
  /\ word = [a \in Addrs |-> IF a[2] = 0 /\ a[1] < NFrames THEN Start(a[1] + 1) ELSE None]
  /\ next = [f \in Frames |-> None]
  /\ active = [f \in Frames |-> 0]
  /\ kind = [f \in Frames |-> None]
  /\ slabs = [c \in Caches |-> None]
  /\ free_frames = IF NFrames > 0 THEN Start(1) ELSE None
  /\ live = [k \in Clients |-> None]
  /\ emptied = FALSE

Next ==
  \E k \in Clients :
    \/ \E c \in Caches : Alloc(k, c) \/ AllocSlab(k, c)
    \/ Free(k)
    \/ AllocPages(k)
    \/ FreePages(k)

Spec == Init /\ [][Next]_vars

-----------------------------------------------------------------------------
(* Properties.                                                             *)

Holders == {k \in Clients : live[k] # None}

\* The frames on the frame allocator's list.
FreeFrames ==
  LET at[n \in 1..(NFrames + 1)] ==
        IF n = 1 THEN free_frames ELSE IF at[n - 1] = None THEN None ELSE word[at[n - 1]]
  IN  {at[n][1] : n \in {m \in 1..NFrames : at[m] # None}}

SlabsOf(c) == {Walk(c)[n] : n \in {m \in 1..NFrames : Walk(c)[m] # None}}
LiveIn(c, f) == {k \in Holders : live[k].cache = c /\ live[k].addr[1] = f}

\* The objects on the free list of slab f.
FreeObjects(f) ==
  LET at[n \in 0..(MaxSlots + 1)] ==
        IF n = 0 THEN Start(f) ELSE IF at[n - 1] = None THEN None ELSE word[at[n - 1]]
  IN  {at[n] : n \in {m \in 1..(MaxSlots + 1) : at[m] # None}}

\* What one owner writes into its memory stays there: no two allocations share
\* memory, and none lies in a frame that is free.
OwnMemory ==
  /\ \A j, k \in Holders : j # k /\ live[j].addr[1] = live[k].addr[1] =>
       live[j].cache = live[k].cache /\ live[j].addr # live[k].addr
  /\ \A k \in Holders : live[k].addr[1] \notin FreeFrames

\* OwnMemory holds as long as slabs are emptied only at the head of their list.
OwnMemoryUntilEmptied == ~emptied => OwnMemory

\* Until then, every frame is in one place (the free list, one slab list or
\* the hands of a caller), and the lists lose no frame.
FramesConserved ==
  ~emptied =>
    \A f \in Frames :
      Cardinality({"free" : x \in FreeFrames \cap {f}}
                  \cup {c \in Caches : f \in SlabsOf(c)}
                  \cup {k \in Holders : live[k] = [cache |-> None, addr |-> Start(f)]}) = 1

\* Until then, a slab in a list has a live object (an empty one goes back), its
\* counter counts them, and its free list holds exactly the other objects.
SlabsExact ==
  ~emptied =>
    \A c \in Caches : \A f \in SlabsOf(c) :
      /\ active[f] = Cardinality(LiveIn(c, f)) /\ active[f] > 0
      /\ FreeObjects(f) = Objects(f, c) \ {live[k].addr : k \in LiveIn(c, f)}
=============================================================================
