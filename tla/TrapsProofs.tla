---------------------------- MODULE TrapsProofs ----------------------------
(***************************************************************************)
(* Proofs about Traps, for any MAX_PROC and any depth of nested            *)
(* interrupts.                                                             *)
(***************************************************************************)
EXTENDS Traps, SequenceTheorems, TLAPS

\* The steps of init() after which interrupts may be enabled.
Late == {"timer", "running"}

Pcs == {"lock", "handle", "enable", "unlock", "sret"}
Mains == {"mem", "fs", "proc", "userinit", "intr"} \cup Late
Activations == [pc : Pcs, from : Nat \X (Mains \cup Pcs)]

Types ==
  /\ traps \in Seq(Activations)
  /\ main \in Mains

\* Before user_init the task list is as it was linked into the kernel, and afterwards it
\* holds the task 0; interrupts are only enabled after that.
StartInvariant ==
  /\ main \in {"mem", "fs", "proc", "userinit"} => tasks = {} /\ nextId = 0
  /\ main \in {"intr"} \cup Late => HasCurrent
  /\ (sie \/ traps # <<>>) => main \in Late

\* While the newest activation is before the end of handle, interrupts are disabled.
MaskInvariant ==
  traps # <<>> /\ traps[Len(traps)].pc \in {"lock", "handle", "enable"} => ~sie

Invariant == Types /\ StartInvariant /\ MaskInvariant /\ NestsOnlyAtEnd

-----------------------------------------------------------------------------
\* The newest activation, when there is one.
LEMMA Newest ==
  ASSUME Types, traps # <<>>
  PROVE  /\ Len(traps) \in Nat \ {0} /\ Len(traps) \in 1 .. Len(traps)
         /\ traps[Len(traps)] \in Activations
<1>. DEFINE S == Activations
<1>1. traps \in Seq(S)
  BY DEF Types
<1>. HIDE DEF S
<1>2. Len(traps) \in Nat \ {0} /\ Len(traps) \in 1 .. Len(traps)
  BY <1>1
<1>3. traps[Len(traps)] \in S
  BY <1>1, <1>2, ElementOfSeq
<1>. QED
  BY <1>2, <1>3 DEF S

LEMMA InitInvariant == Init => Invariant
<1>. SUFFICES ASSUME Init PROVE Invariant
  OBVIOUS
<1>1. ~sie
  BY Zenon DEF Init
<1>2. traps = <<>> /\ main = "mem" /\ tasks = {} /\ nextId = 0
  BY DEF Init, TaskListInit
<1>. QED
  BY <1>1, <1>2
  DEF Invariant, Types, Mains, Late, StartInvariant, MaskInvariant, NestsOnlyAtEnd

\* The steps of init() and of the timer.
LEMMA StartKeepsInvariant ==
  ASSUME Invariant, Start \/ TimerFires
  PROVE  Invariant'
<1>. USE DEF Invariant, Types, Mains, Late, StartInvariant, MaskInvariant, NestsOnlyAtEnd, HasCurrent,
             taskVars, hartVars, InMain
<1>1. CASE MemInit
  BY <1>1 DEF MemInit, After
<1>2. CASE InitFs
  BY <1>2 DEF InitFs, After
<1>3. CASE ProcLock
  BY <1>3 DEF ProcLock
<1>4. CASE UserInit
  <2>1. nextId = 0 /\ tasks = {} /\ 0 \in tasks'
    BY <1>4, MaxProcAssumption DEF UserInit, NewTask
  <2>. QED
    BY <1>4, <2>1 DEF UserInit, After
<1>5. CASE IntrInit
  BY <1>5 DEF IntrInit, After
<1>6. CASE SetFirstTimer
  BY <1>6 DEF SetFirstTimer, After
<1>7. CASE Shutdown \/ TimerFires
  BY <1>7 DEF Shutdown, TimerFires
<1>. QED
  BY <1>1, <1>2, <1>3, <1>4, <1>5, <1>6, <1>7 DEF Start

LEMMA InterruptKeepsInvariant ==
  ASSUME Invariant, Interrupt
  PROVE  Invariant'
<1>1. /\ sie /\ traps' = Append(traps, [pc |-> "lock", from |-> Here])
      /\ UNCHANGED <<tasks, nextId, main>>
  BY DEF Interrupt, taskVars
<1>2. ~sie'
  BY Zenon DEF Interrupt
<1>3. Here \in Nat \X (Mains \cup Pcs)
  <2>1. CASE traps = <<>>
    BY <2>1 DEF Here, Invariant, Types
  <2>2. CASE traps # <<>>
    <3>1. Len(traps) \in Nat /\ traps[Len(traps)].pc \in Pcs
      BY <2>2, Newest DEF Invariant, Activations
    <3>. QED
      BY <2>2, <3>1 DEF Here, Last
  <2>. QED
    BY <2>1, <2>2
<1>4. Types'
  BY <1>1, <1>3 DEF Invariant, Types, Activations, Pcs
<1>5. StartInvariant'
  BY <1>1, <1>2 DEF Invariant, StartInvariant, HasCurrent
<1>6. traps # <<>> => traps[Len(traps)].pc \in {"unlock", "sret"}
  BY <1>1, Newest DEF Invariant, Activations, Pcs, MaskInvariant
<1>7. NestsOnlyAtEnd'
  <2>1. Len(traps') = Len(traps) + 1 /\ \A n \in 1 .. Len(traps) : traps'[n] = traps[n]
    BY <1>1 DEF Invariant, Types
  <2>2. \A n \in 1 .. Len(traps) : traps[n].pc \in {"unlock", "sret"}
    BY <1>6 DEF Invariant, Types, NestsOnlyAtEnd
  <2>. QED
    BY <2>1, <2>2 DEF NestsOnlyAtEnd, Invariant, Types
<1>. QED
  BY <1>2, <1>4, <1>5, <1>7 DEF Invariant, MaskInvariant

\* kernelvec moves on, from its lock to its sret.
LEMMA MoveKeepsInvariant ==
  ASSUME Invariant, TakeTasks \/ Tick \/ Enable \/ Unlock
  PROVE  Invariant'
<1>1. traps # <<>> /\ Len(traps) \in Nat \ {0} /\ UNCHANGED <<tasks, nextId, main>>
  BY DEF TakeTasks, Tick, Enable, Unlock, InTrap, taskVars, Invariant, Types
<1>2. PICK p \in {"handle", "enable", "unlock", "sret"} :
        TrapAt(p) /\ (Enable \/ Unlock => p \in {"unlock", "sret"})
  <2>1. CASE Enable
    BY <2>1 DEF Enable
  <2>2. CASE Unlock
    BY <2>2 DEF Unlock
  <2>3. CASE ~(Enable \/ Unlock)
    BY <2>3 DEF TakeTasks, Tick
  <2>. QED
    BY <2>1, <2>2, <2>3
<1>3. /\ traps' \in Seq(Activations) /\ Len(traps') = Len(traps)
      /\ traps'[Len(traps)].pc = p
      /\ \A n \in 1 .. Len(traps) - 1 : traps'[n] = traps[n]
  <2>. DEFINE S == Activations
              e == [traps[Len(traps)] EXCEPT !.pc = p]
  <2>1. e \in S /\ e.pc = p /\ Len(traps) \in 1 .. Len(traps)
    BY <1>1, Newest DEF Invariant, Activations, Pcs
  <2>2. traps \in Seq(S)
    BY DEF Invariant, Types
  <2>3. traps' = [traps EXCEPT ![Len(traps)] = e]
    BY <1>2 DEF TrapAt
  <2>. HIDE DEF S, e
  <2>4. /\ traps' \in Seq(S) /\ Len(traps') = Len(traps)
        /\ \A n \in 1 .. Len(traps) : traps'[n] = IF n = Len(traps) THEN e ELSE traps[n]
    BY <2>1, <2>2, <2>3, ExceptSeq
  <2>. QED
    BY <1>1, <2>1, <2>4 DEF S
<1>4. Types' /\ NestsOnlyAtEnd'
  BY <1>1, <1>3 DEF Invariant, Types, NestsOnlyAtEnd
<1>5. StartInvariant'
  BY <1>1 DEF Invariant, StartInvariant, HasCurrent
<1>6. MaskInvariant'
  <2>1. CASE TakeTasks
    <3>1. ~sie
      BY <2>1 DEF TakeTasks, InTrap, Last, Invariant, MaskInvariant
    <3>. QED
      BY <2>1, <3>1 DEF TakeTasks, hartVars, MaskInvariant
  <2>2. CASE Tick
    BY <2>2, Zenon DEF Tick, Masked, MaskInvariant
  <2>3. CASE Enable \/ Unlock
    BY <1>2, <1>3, <2>3 DEF MaskInvariant
  <2>. QED
    BY <2>1, <2>2, <2>3
<1>. QED
  BY <1>4, <1>5, <1>6 DEF Invariant

LEMMA SretKeepsInvariant ==
  ASSUME Invariant, Sret
  PROVE  Invariant'
<1>1. traps # <<>> /\ Len(traps) \in Nat \ {0} /\ UNCHANGED <<tasks, nextId, main>>
  BY DEF Sret, InTrap, Invariant, Types
<1>2. StartInvariant'
  BY <1>1 DEF Invariant, StartInvariant, HasCurrent
<1>3. CASE UNCHANGED traps
  BY <1>1, <1>2, <1>3 DEF Sret, InTrap, Last, Invariant, Types, MaskInvariant, NestsOnlyAtEnd
<1>4. CASE traps' = Front(traps)
  <2>1. /\ traps' \in Seq(Activations) /\ Len(traps') = Len(traps) - 1
        /\ \A n \in 1 .. Len(traps) - 1 : traps'[n] = traps[n]
    <3>. DEFINE S == Activations
    <3>1. traps \in Seq(S)
      BY DEF Invariant, Types
    <3>. HIDE DEF S
    <3>2. \A n \in 1 .. Len(traps) - 1 : traps[n] \in S
      BY <1>1, <3>1, ElementOfSeq
    <3>3. /\ traps' \in Seq(S)
          /\ Len(traps') = IF 1 <= Len(traps) - 1 THEN Len(traps) - 1 - 1 + 1 ELSE 0
          /\ \A n \in 1 .. Len(traps) - 1 - 1 + 1 : traps'[n] = traps[1 + n - 1]
      BY <1>1, <1>4, <3>2, SubSeqProperties DEF Front
    <3>4. Len(traps') = Len(traps) - 1
      <4>. DEFINE n == Len(traps)
                  m == Len(traps')
      <4>1. n \in Nat \ {0} /\ m = IF 1 <= n - 1 THEN n - 1 - 1 + 1 ELSE 0
        BY <1>1, <3>3, Zenon
      <4>. HIDE DEF n, m
      <4>2. m = n - 1
        BY <4>1
      <4>. QED
        BY <4>2 DEF n, m
    <3>5. \A n \in 1 .. Len(traps) - 1 : traps'[n] = traps[n]
      <4>1. \A n \in 1 .. Len(traps) - 1 : n \in 1 .. Len(traps) - 1 - 1 + 1 /\ 1 + n - 1 = n
        BY <1>1
      <4>. QED
        BY <3>3, <4>1, Zenon
    <3>. QED
      BY <3>3, <3>4, <3>5 DEF S
  <2>2. Types' /\ NestsOnlyAtEnd'
    BY <1>1, <2>1 DEF Invariant, Types, NestsOnlyAtEnd
  <2>3. MaskInvariant'
    BY <1>1, <2>1 DEF Invariant, Types, NestsOnlyAtEnd, MaskInvariant
  <2>. QED
    BY <1>2, <2>2, <2>3 DEF Invariant
<1>. QED
  BY <1>3, <1>4 DEF Sret

LEMMA TrapsInvariant == Init /\ [][Next]_vars => []Invariant
<1>1. Invariant /\ UNCHANGED vars => Invariant'
  BY DEF vars, Invariant, Types, StartInvariant, MaskInvariant, NestsOnlyAtEnd, HasCurrent
<1>2. Invariant /\ [Next]_vars => Invariant'
  BY <1>1, StartKeepsInvariant, InterruptKeepsInvariant, MoveKeepsInvariant, SretKeepsInvariant
  DEF Next, KernelVec
<1>. QED
  BY <1>2, InitInvariant, PTL

\* kerneltrap never unwraps a missing task: the order of the calls in init() is enough.
THEOREM CurrentTaskAlwaysExists == Spec => []CurrentTaskExists
<1>1. Invariant => CurrentTaskExists
  BY DEF Invariant, StartInvariant, CurrentTaskExists
<1>. QED
  BY <1>1, TrapsInvariant, PTL DEF Spec

\* However deep interrupts nest, each comes on top of one that is past the end of handle.
THEOREM AlwaysNestsAtEnd == Spec => []NestsOnlyAtEnd
<1>1. Invariant => NestsOnlyAtEnd
  BY DEF Invariant
<1>. QED
  BY <1>1, TrapsInvariant, PTL DEF Spec
=============================================================================
