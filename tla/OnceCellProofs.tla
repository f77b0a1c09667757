--------------------------- MODULE OnceCellProofs ---------------------------
(***************************************************************************)
(* Proofs about OnceCell, for any number of threads and values.            *)
(***************************************************************************)
EXTENDS OnceCell, TLAPS

Invariant == TypeOK /\ SetUnderLock

LEMMA InitInvariant == Init => Invariant
<1>. SUFFICES ASSUME Init PROVE Invariant
  OBVIOUS
<1>1. \A t \in Threads : calls[t].pc = "idle"
  BY DEF Init, Idle
<1>2. ~initialized /\ owner = None /\ oks = {} /\ gots = {}
  BY Zenon DEF Init
<1>3. SetUnderLock
  BY <1>1, <1>2, OnceCellAssumption DEF SetUnderLock, At
<1>4. initialized \in BOOLEAN
  BY Zenon DEF Init
<1>5. TypeOK
  BY <1>4 DEF Init, TypeOK, Idle
<1>. QED
  BY <1>3, <1>5 DEF Invariant

\* The calls change nothing but the step of the thread that makes them.
LEMMA CallsKeepInvariant ==
  ASSUME Invariant, NEW t \in Threads,
         Get(t) \/ \E v \in Values : Set(t, v) \/ GetOrInit(t, v)
  PROVE  Invariant'
  BY DEF Invariant, TypeOK, SetUnderLock, Get, Set, GetOrInit, At

LEMMA SetKeepsInvariant ==
  ASSUME Invariant, NEW t \in Threads, SetLock(t) \/ SetWrites(t) \/ SetDone(t)
  PROVE  Invariant'
<1>. USE OnceCellAssumption DEF Invariant, TypeOK, SetUnderLock, At, Goto, Return, Idle
<1>1. CASE SetLock(t)
  BY <1>1 DEF SetLock, AlreadySet, AfterSet
<1>2. CASE SetWrites(t)
  BY <1>2 DEF SetWrites
<1>3. CASE SetDone(t)
  <2>1. owner = t /\ ~initialized
    BY <1>3 DEF SetDone
  <2>2. TypeOK'
    BY <1>3 DEF SetDone, AfterSet
  <2>3. SetUnderLock'
    BY <1>3, <2>1 DEF SetDone, AfterSet
  <2>. QED
    BY <2>2, <2>3
<1>. QED
  BY <1>1, <1>2, <1>3

LEMMA GetKeepsInvariant ==
  ASSUME Invariant, NEW t \in Threads, GetFlag(t) \/ GetInner(t)
  PROVE  Invariant'
<1>. USE OnceCellAssumption DEF Invariant, TypeOK, SetUnderLock, At, Goto, Return, Idle
<1>1. CASE GetFlag(t)
  BY <1>1 DEF GetFlag
<1>2. CASE GetInner(t)
  BY <1>2 DEF GetInner
<1>. QED
  BY <1>1, <1>2

\* The mutex, the flag and the value stay in step, whatever the threads do.
THEOREM OnceCellInvariant == Spec => []Invariant
<1>1. Invariant /\ [Next]_vars => Invariant'
  <2>. SUFFICES ASSUME Invariant, [Next]_vars PROVE Invariant'
    OBVIOUS
  <2>1. CASE Next
    BY <2>1, CallsKeepInvariant, SetKeepsInvariant, GetKeepsInvariant DEF Next, Step
  <2>2. CASE UNCHANGED vars
    BY <2>2 DEF vars, Invariant, TypeOK, SetUnderLock, At
  <2>. QED
    BY <2>1, <2>2
<1>. QED
  BY InitInvariant, <1>1, PTL DEF Spec

\* get and get_or_init give out the one value that a set has returned Ok for.
THEOREM GivesOneValue == Spec => []OneValue
<1>1. Invariant => OneValue
  BY DEF Invariant, SetUnderLock, OneValue
<1>. QED
  BY <1>1, OnceCellInvariant, PTL

\* No set writes the value once `initialized` is true.
THEOREM IsWrittenOnce == Spec => WrittenOnce
<1>1. Invariant /\ [Next]_vars => [initialized => inner' = inner]_vars
  BY OnceCellAssumption
  DEF Invariant, TypeOK, SetUnderLock, Next, Step, Get, Set, GetOrInit, GetFlag, GetInner, SetLock,
      SetWrites, SetDone, At, vars
<1>. QED
  BY <1>1, OnceCellInvariant, PTL DEF Spec, WrittenOnce
=============================================================================
