--------------------------- MODULE AddressSpaces ---------------------------
(***************************************************************************)
(* The page tables the kernel makes: its own, by kvm_make                  *)
(* (kernel/src/mem/mod.rs), and that of the first task, by                 *)
(* init_user_page_table (kernel/src/proc/task.rs) and user_vm_init.  Each  *)
(* is a list of calls of `map`; for comparison, "any" is a table on which  *)
(* `map` is called at will.                                                *)
(***************************************************************************)
EXTENDS PageTable

CONSTANTS KernelBase, MemEnd, MmioBase, MmioLen, PlicBase, PlicLen,
          Etexts,      \* the linker's etext, which linker.ld aligns to a page
          TrampolinePa,  \* the linker's trampoline, a page of the text
          TrapFrames,  \* where the trap frame of a task may lie: anywhere in memory
          InitPage     \* the page that user_vm_init allocates and fills

ASSUME SpacesAssumption ==
  /\ {KernelBase, MemEnd, MmioBase, MmioLen, PlicBase, PlicLen, TrampolinePa, InitPage}
       \subseteq Nat
  /\ Etexts \subseteq Nat /\ TrapFrames \subseteq Nat
  /\ TrampolinePa % PageSize = 0 /\ InitPage % PageSize = 0
  /\ KernelBase <= TrampolinePa
  /\ \A a \in Etexts : a % PageSize = 0 /\ TrampolinePa < a /\ a <= MemEnd
  /\ None \notin {"RX", "RW", "RXG", "RWG", "RWXU"}

VARIABLES space,         \* "kernel", "user" or "any"
          etext, frame,  \* the places the linker and the allocator chose
          todo           \* the calls of `map` still to be made

spaceVars == <<space, etext, frame>>

TRAMPOLINE == MaxVa - PageSize
TRAPFRAME == TRAMPOLINE - PageSize

MapCall(va, pa, size, perm) == [va |-> va, pa |-> pa, size |-> size, perm |-> perm]

\* (Mutant) the data is mapped from the start of the kernel.
KernelMapsOverlap(text) ==
  <<MapCall(KernelBase, KernelBase, text - KernelBase, "RX"),
    MapCall(KernelBase, KernelBase, MemEnd - KernelBase, "RW"),
    MapCall(TRAMPOLINE, TrampolinePa, PageSize, "RXG"),
    MapCall(MmioBase, MmioBase, MmioLen, "RW"),
    MapCall(PlicBase, PlicBase, PlicLen, "RWG")>>

\* kvm_make
KernelMaps(text) ==
  <<MapCall(KernelBase, KernelBase, text - KernelBase, "RX"),
    MapCall(text, text, MemEnd - text, "RW"),
    MapCall(TRAMPOLINE, TrampolinePa, PageSize, "RXG"),
    MapCall(MmioBase, MmioBase, MmioLen, "RW"),
    MapCall(PlicBase, PlicBase, PlicLen, "RWG")>>

InitUserPageTable(trap_frame) ==
  <<MapCall(TRAMPOLINE, TrampolinePa, PageSize, "RX"),
    MapCall(TRAPFRAME, trap_frame, PageSize, "RW")>>

UserVmInit == <<MapCall(0, InitPage, PageSize, "RWXU")>>

SpacesInit ==
  /\ Init
  /\ \/ /\ space = "kernel" /\ etext \in Etexts /\ frame = None
        /\ todo = KernelMaps(etext)
     \/ /\ space = "user" /\ etext = None /\ frame \in TrapFrames
        /\ todo = InitUserPageTable(frame) \o UserVmInit
     \/ space = "any" /\ etext = None /\ frame = None /\ todo = <<>>

CallMap ==
  /\ todo # <<>>
  /\ Map(Head(todo).va, Head(todo).pa, Head(todo).size, Head(todo).perm)
  /\ todo' = Tail(todo)
  /\ UNCHANGED spaceVars

CallAnyMap ==
  /\ space = "any"
  /\ \E va \in Vas, pa \in Pas, size \in Sizes, perm \in Perms : Map(va, pa, size, perm)
  /\ UNCHANGED <<spaceVars, todo>>

SpacesNext ==
  \/ CallMap
  \/ CallAnyMap
  \/ MapPage /\ UNCHANGED <<spaceVars, todo>>
  \/ MapReturns /\ UNCHANGED <<spaceVars, todo>>

SpacesSpec == SpacesInit /\ [][SpacesNext]_<<vars, spaceVars, todo>>

-----------------------------------------------------------------------------
Entry(pa, perm) == [pa |-> pa, perm |-> perm]

\* What an address means in the kernel, and to the first task.
KernelView(a) ==
  CASE a >= TRAMPOLINE -> Entry(TrampolinePa + (a - TRAMPOLINE), "RXG")
    [] a >= KernelBase /\ a < etext -> Entry(a, "RX")
    [] a >= etext /\ a < MemEnd -> Entry(a, "RW")
    [] a >= MmioBase /\ a < MmioBase + MmioLen -> Entry(a, "RW")
    [] a >= PlicBase /\ a < PlicBase + PlicLen -> Entry(a, "RWG")
    [] OTHER -> None
UserView(a) ==
  CASE a >= TRAMPOLINE -> Entry(TrampolinePa + (a - TRAMPOLINE), "RX")
    [] a >= TRAPFRAME /\ a < TRAMPOLINE -> Entry(frame + (a - TRAPFRAME), "RW")
    [] a < PageSize -> Entry(InitPage + a, "RWXU")
    [] OTHER -> None

\* The kernel and the first task get their address spaces without a panic, the ranges
\* that are mapped do not collide, every address of the memory and the devices means
\* itself to the kernel, the text alone is executable and not writable, the trampoline
\* is the same page at the same address in both, the trap frame is at TRAPFRAME if it
\* lies at the start of a page (see TrapFrameMapped for the other frames), a task can
\* reach nothing but its own page, and nothing else is mapped.
SpacesExact ==
  space # "any" =>
    /\ kernel = "running"
    /\ (todo = <<>> /\ call = None) =>
         \A a \in 0 .. MaxVa - 1 :
           \/ space = "kernel" /\ Translate(a) = KernelView(a)
           \/ space = "user" /\ Translate(a) = UserView(a)
           \/ space = "user" /\ RoundDown(a) = TRAPFRAME /\ frame % PageSize # 0
=============================================================================
