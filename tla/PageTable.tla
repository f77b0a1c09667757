----------------------------- MODULE PageTable -----------------------------
(***************************************************************************)
(* One Sv39 page table (kernel/src/mem/page/page_table.rs): `map` goes     *)
(* from page to page, `walk` descends three levels and creates the tables  *)
(* that are missing.  Each turn of the loop of `map` is a step.            *)
(*                                                                         *)
(* A table has Fanout entries (512 in the code), a page PageSize units.    *)
(* Tables are numbered in the order they are allocated, the root is 0.     *)
(***************************************************************************)
EXTENDS Integers, Sequences

CONSTANTS Fanout, PageSize, None,
          MaxTables,  \* memory for page tables
          Vas, Pas,   \* the virtual and physical addresses `map` is called with
          Sizes,      \* and the sizes
          Perms       \* and the permissions

ASSUME PageTableAssumption ==
  /\ {Fanout, PageSize, MaxTables} \subseteq Nat \ {0} /\ Fanout >= 2
  /\ Vas \subseteq Nat /\ Pas \subseteq Nat /\ Sizes \subseteq Nat
  /\ None \notin Perms

\* MAX_VA: one bit less than three indices and the offset have.
MaxVa == (Fanout * Fanout * Fanout * PageSize) \div 2

VARIABLES tables,  \* the entries of each table that was allocated
          call,    \* the call of `map` that is running, or None
          done,    \* history: the calls that returned
          kernel   \* "running" or "panicked"

vars == <<tables, call, done, kernel>>

EmptyPte == [valid |-> FALSE, pa |-> 0, perm |-> None]
EmptyTable == [i \in 0 .. Fanout - 1 |-> EmptyPte]

Init ==
  /\ tables = <<EmptyTable>>
  /\ call = None
  /\ done = {}
  /\ kernel = "running"

-----------------------------------------------------------------------------
\* px(level, va): a page table index of a virtual address.
Px(level, va) ==
  CASE level = 0 -> (va \div PageSize) % Fanout
    [] level = 1 -> (va \div (PageSize * Fanout)) % Fanout
    [] level = 2 -> (va \div (PageSize * Fanout * Fanout)) % Fanout

RoundDown(a) == a - (a % PageSize)

RoundUp(a) == RoundDown(a + PageSize - 1)

\* (Mutant) a new table is freed when `walk` returns: the next one takes its place.
ChildFreed(ts, n, level, va) ==
  LET pte == ts[n + 1][Px(level, va)] IN
  IF pte.valid THEN [ts |-> ts, n |-> pte.pa]
  ELSE [ts |-> [ts EXCEPT ![n + 1][Px(level, va)] =
                  [valid |-> TRUE, pa |-> level, perm |-> None]]
               \o (IF Len(ts) = 1 THEN <<EmptyTable, EmptyTable>> ELSE <<>>),
        n |-> level]

\* One level of `walk`: the tables, and the number of the table below ts[n].
\* Tables are kept in a sequence, so number n is ts[n + 1].
Child(ts, n, level, va) ==
  LET pte == ts[n + 1][Px(level, va)] IN
  IF pte.valid THEN [ts |-> ts, n |-> pte.pa]
  ELSE [ts |-> Append([ts EXCEPT ![n + 1][Px(level, va)] =
                         [valid |-> TRUE, pa |-> Len(ts), perm |-> None]],
                      EmptyTable),
        n |-> Len(ts)]

\* walk(va, true): the tables afterwards and the table with the level-0 entry.
Walk(ts, va) ==
  LET one == Child(ts, 0, 2, va) IN Child(one.ts, one.n, 1, va)

Map(va, pa, size, perm) ==
  /\ kernel = "running" /\ call = None
  /\ IF size = 0
     THEN kernel' = "panicked" /\ UNCHANGED call
     ELSE /\ call' = [va |-> RoundDown(va), pa |-> RoundDown(pa),
                      end |-> RoundUp(RoundDown(va) + size), perm |-> perm,
                      args |-> [va |-> va, pa |-> pa, size |-> size]]
          /\ UNCHANGED kernel
  /\ UNCHANGED <<tables, done>>

\* (Mutant) a page that is mapped already is mapped again.
RemapsNever(pte) == FALSE

\* A valid entry at level 0 is never replaced.
Remaps(pte) == pte.valid

\* The loop of `map` goes round.  It panics beyond MAX_VA, when there is no memory
\* for a table (nothing looks at the tables afterwards) and on a second mapping.
MapPage ==
  /\ kernel = "running" /\ call # None /\ call.va # call.end
  /\ LET w == Walk(tables, call.va)
         i == Px(0, call.va)
     IN  IF call.va >= MaxVa \/ Len(w.ts) > MaxTables \/ Remaps(w.ts[w.n + 1][i])
         THEN kernel' = "panicked" /\ UNCHANGED <<tables, call>>
         ELSE /\ tables' = [w.ts EXCEPT ![w.n + 1][i] =
                              [valid |-> TRUE, pa |-> call.pa, perm |-> call.perm]]
              /\ call' = [call EXCEPT !.va = @ + PageSize, !.pa = @ + PageSize]
              /\ UNCHANGED kernel
  /\ UNCHANGED done

MapReturns ==
  /\ kernel = "running" /\ call # None /\ call.va = call.end
  /\ done' = done \cup {[args |-> call.args, perm |-> call.perm]}
  /\ call' = None
  /\ UNCHANGED <<tables, kernel>>

Next ==
  \/ \E va \in Vas, pa \in Pas, size \in Sizes, perm \in Perms : Map(va, pa, size, perm)
  \/ MapPage
  \/ MapReturns

Spec == Init /\ [][Next]_vars

-----------------------------------------------------------------------------
\* What the hart translates an address to: the Sv39 walk, written with the page
\* number in base Fanout.
Translate(va) ==
  LET page == va \div PageSize
      two == tables[1][page \div (Fanout * Fanout)]
      one == tables[two.pa + 1][(page \div Fanout) % Fanout]
      zero == tables[one.pa + 1][page % Fanout]
  IN  IF two.valid /\ one.valid /\ zero.valid
      THEN [pa |-> zero.pa + (va % PageSize), perm |-> zero.perm]
      ELSE None

\* No two entries lead to the same table, and none leads back to the root: a new
\* mapping can change no other translation.
UpperEntries == {p \in (1 .. Len(tables)) \X (0 .. Fanout - 1) :
                   tables[p[1]][p[2]].valid /\ tables[p[1]][p[2]].perm = None}
TablesFormTree ==
  \A p, q \in UpperEntries :
    /\ tables[p[1]][p[2]].pa \in 1 .. Len(tables) - 1
    /\ tables[p[1]][p[2]].pa = tables[q[1]][q[2]].pa => p = q

\* Every address of every range that was mapped with a page-aligned virtual and
\* physical address is translated to its place in the physical range with the
\* permission asked for, also after all later calls of `map`.
Maps(d) ==
  \A k \in 0 .. d.args.size - 1 :
    Translate(d.args.va + k) = [pa |-> d.args.pa + k, perm |-> d.perm]

MapsAligned ==
  \A d \in done :
    (d.args.va % PageSize = 0 /\ d.args.pa % PageSize = 0) => Maps(d)

\* Task::init_user_page_table maps the trap frame, at the address where it lies in
\* its Task, at the page TRAPFRAME for trampoline.S, which finds it there.
TrapFrameMapped == \A d \in done : d.args.va % PageSize = 0 => Maps(d)
=============================================================================
