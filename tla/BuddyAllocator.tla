--------------------------- MODULE BuddyAllocator ---------------------------
(***************************************************************************)
(* The page frame allocator (kernel/src/mem/allocator/buddy_allocator.rs). *)
(* Addresses are counted in pages from start_addr.  Every operation runs   *)
(* under the FRAME_ALLOCATOR mutex; alloc_pages is one step, free_pages is *)
(* one step for each turn of its merging loop.                             *)
(***************************************************************************)
EXTENDS Integers, Sequences, SequencesExt

CONSTANTS MaxOrder,   \* MAX_ORDER
          Pages,      \* (end_addr - start_addr) / PAGE_SIZE
          Requests,   \* numbers of pages callers ask for
          None

Orders == 0..(MaxOrder - 1)
MaxPages == 2^(MaxOrder - 1)

ASSUME BuddyAssumption ==
  /\ MaxOrder \in Nat \ {0}
  /\ Pages \in Nat \ {0}
  /\ Requests \subseteq Nat

VARIABLES free_lists,  \* for each order the addresses of its free blocks, head first
          held,        \* the ranges [addr, pages] the callers hold
          freeing,     \* the block free_pages is merging, or None
          rounded      \* history: "yes" once a range was freed whose size is not
                       \* a power of two

vars == <<free_lists, held, freeing, rounded>>

-----------------------------------------------------------------------------
\* order(): the exponent of pages.next_power_of_two().
Order(n) == CHOOSE o \in 0..n : 2^o >= n /\ \A c \in 0..(o - 1) : 2^c < n

\* usize ^ usize on numbers below 2^(MaxOrder + 1) or Pages.
Bits(x) == {i \in 0..(MaxOrder + Order(Pages)) : (x \div 2^i) % 2 = 1}
Xor(x, y) ==
  LET differ == (Bits(x) \ Bits(y)) \cup (Bits(y) \ Bits(x))
  IN  MapThenSumSet(LAMBDA i : 2^i, differ)

\* BuddyAllocator::init: from the start, the largest block that still fits.
Largest(a) == CHOOSE o \in Orders :
  /\ a + 2^o <= Pages
  /\ \A c \in Orders : c > o => a + 2^c > Pages

\* The addresses at which init cuts the memory, those below a given one.
CutsUpTo[k \in 0..Pages] ==
  IF k = 0 THEN {0}
  ELSE LET before == CutsUpTo[k - 1]
           last == CHOOSE a \in before : \A b \in before : b <= a
       IN  IF last < Pages THEN before \cup {last + 2^Largest(last)} ELSE before

Cuts == CutsUpTo[Pages] \ {Pages}

\* split_block: the first block of order from leaves its list, and the upper
\* half of what remains goes to each lower list down to the target order.
Split(block, from, to) ==
  [c \in Orders |->
     IF c = from THEN Tail(free_lists[c])
     ELSE IF to <= c /\ c < from THEN <<block + 2^c>> \o free_lists[c]
     ELSE free_lists[c]]

AllocPages(n) ==
  /\ freeing = None
  /\ n > 0 /\ n <= MaxPages
  /\ \E o \in Order(n)..(MaxOrder - 1) :
       /\ free_lists[o] # <<>>
       /\ \A c \in Order(n)..(o - 1) : free_lists[c] = <<>>
       /\ free_lists' = Split(Head(free_lists[o]), o, Order(n))
       /\ held' = held \cup {[addr |-> Head(free_lists[o]), pages |-> n]}
  /\ UNCHANGED <<freeing, rounded>>

\* free_pages of a range a caller holds, up to the loop.  The early returns
\* are for ranges alloc_pages never hands out.
FreePages(h) ==
  /\ freeing = None
  /\ h.pages > 0 /\ h.pages <= MaxPages
  /\ h.addr >= 0 /\ h.addr < Pages
  /\ freeing' = [addr |-> h.addr, pages |-> h.pages, order |-> Order(h.pages)]
  /\ held' = held \ {h}
  /\ rounded' = IF h.pages = 2^Order(h.pages) THEN rounded ELSE "yes"
  /\ UNCHANGED free_lists

\* The loop computes the buddy from the pages of the request, not rounded up.
BuddyAddr == Xor(freeing.addr, freeing.pages)

\* (Mutant) The loop stops one order early.
BuddyIsFreeBelowTop ==
  /\ freeing.order < MaxOrder - 2
  /\ Contains(free_lists[freeing.order], BuddyAddr)

BuddyIsFree ==
  /\ freeing.order < MaxOrder - 1
  /\ Contains(free_lists[freeing.order], BuddyAddr)

\* (Mutant) The merged block starts at the block being freed.
MergeUp ==
  /\ freeing # None
  /\ BuddyIsFree
  /\ free_lists' = [free_lists EXCEPT ![freeing.order] = RemoveFirst(@, BuddyAddr)]
  /\ freeing' = [freeing EXCEPT !.pages = @ * 2, !.order = @ + 1]
  /\ UNCHANGED <<held, rounded>>

Merge ==
  /\ freeing # None
  /\ BuddyIsFree
  /\ free_lists' = [free_lists EXCEPT ![freeing.order] = RemoveFirst(@, BuddyAddr)]
  /\ freeing' = [addr  |-> IF BuddyAddr < freeing.addr THEN BuddyAddr ELSE freeing.addr,
                 pages |-> freeing.pages * 2,
                 order |-> freeing.order + 1]
  /\ UNCHANGED <<held, rounded>>

Push ==
  /\ freeing # None
  /\ ~BuddyIsFree
  /\ free_lists' = [free_lists EXCEPT ![freeing.order] = <<freeing.addr>> \o @]
  /\ freeing' = None
  /\ UNCHANGED <<held, rounded>>

-----------------------------------------------------------------------------
Init ==
  /\ free_lists = [o \in Orders |-> SetToSortSeq({a \in Cuts : Largest(a) = o}, >)]
  /\ held = {}
  /\ freeing = None
  /\ rounded = "no"

Next ==
  \/ \E n \in Requests : AllocPages(n)
  \/ \E h \in held : FreePages(h)
  \/ Merge
  \/ Push

Spec == Init /\ [][Next]_vars

-----------------------------------------------------------------------------
(* Properties.                                                             *)

\* A block of 2^order pages at addr.
Block(a, o) == a..(a + 2^o - 1)

\* The blocks that contain page p, each named by where it is recorded.
Owners(p) ==
  {<<o, i>> \in Orders \X (1..Pages) :
     i \in DOMAIN free_lists[o] /\ p \in Block(free_lists[o][i], o)}
  \cup {h \in held : p \in Block(h.addr, Order(h.pages))}
  \cup (IF freeing # None /\ p \in Block(freeing.addr, freeing.order) THEN {freeing} ELSE {})

\* Splitting, merging and rounding neither lose a page nor give it to two
\* owners: every page of the memory is in exactly one free, held or merging
\* block, and no block reaches past end_addr.
Partition ==
  /\ \A p \in 0..(Pages - 1) : \E x \in Owners(p) : Owners(p) = {x}
  /\ \A p \in Pages..(Pages + MaxPages) : Owners(p) = {}

FreeBlocks == {<<a, o>> \in (0..(Pages - 1)) \X Orders : Contains(free_lists[o], a)}

\* "Try to merge the buddy blocks" (comment of free_pages): when no free is in
\* progress, two free blocks below the largest order are never buddies.
BuddiesMerged ==
  freeing = None =>
    \A <<a, o>> \in FreeBlocks :
      a % 2^(o + 1) = 0 /\ o < MaxOrder - 1 => <<a + 2^o, o>> \notin FreeBlocks

\* alloc_pages refuses a request only when it has to: if all pages of some
\* aligned block of the right size are free, the request is served, as long as
\* only powers of two were freed.
NoFalseExhaustion ==
  freeing = None /\ rounded = "no" =>
    \A n \in Requests \ {0} : n <= MaxPages =>
      \A a \in {x \in 0..(Pages - 1) : x % 2^Order(n) = 0} :
        (\A p \in Block(a, Order(n)) :
           p < Pages /\ \E <<f, o>> \in FreeBlocks : p \in Block(f, o))
        => ENABLED AllocPages(n)

\* "Maximum order supported by the allocator.  16 means 65536 pages": with
\* all memory free, 2^MAX_ORDER pages can be had.
MaxOrderServed ==
  held = {} /\ freeing = None =>
    \A n \in Requests \ {0} :
      n <= 2^MaxOrder /\ 2^Order(n) <= Pages => ENABLED AllocPages(n)

Trait == INSTANCE FrameAllocator

\* What callers see is the promise of the FrameAllocator trait: a range handed
\* out shares no page with a range somebody holds.
ImplementsFrames == Trait!FramesSpec
=============================================================================
