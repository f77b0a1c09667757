------------------------------- MODULE Traps -------------------------------
(***************************************************************************)
(* The kernel's start (kernel/src/lib.rs) and the timer interrupts that    *)
(* follow it (kernel/src/intr): one hart, on which an interrupt, when it   *)
(* is enabled, stops what runs and starts kernelvec on top of it.          *)
(*                                                                         *)
(* The code of the start is the bottom of a stack of activations of        *)
(* kernelvec.  A place in the code is <<n, pc>>: activation n, or the      *)
(* start for n = 0, is at pc.  Only the newest activation runs.            *)
(*                                                                         *)
(* External interrupts do not come: plic_init leaves the priority of the   *)
(* device's source at zero.  An exception in the kernel ends in a panic.   *)
(***************************************************************************)
EXTENDS TaskList, Sequences, SequencesExt

CONSTANTS Free,      \* nobody holds TASKS
          MaxTicks,  \* bound: the timer stops after so many ticks
          MaxDepth   \* bound on nested interrupts

ASSUME TrapsAssumption ==
  MaxTicks \in Nat \ {0} /\ MaxDepth \in Nat \ {0}

VARIABLES main,    \* where the start is
          traps,   \* the activations of kernelvec: pc, and the place it interrupted
          sie, spie,  \* sstatus: interrupts enabled, and before the trap
          sepc,    \* where sret goes to
          lock,    \* who holds TASKS: an activation, 0 for the start, or Free
          timer,   \* "off", "armed" or "pending"
          ticks,   \* TICKS
          nested   \* history: did an interrupt come on top of another?

hartVars == <<sie, spie, sepc>>
vars == <<tasks, nextId, kernel, main, traps, sie, spie, sepc, lock, timer, ticks, nested>>

Init ==
  /\ TaskListInit
  /\ main = "mem" /\ traps = <<>>
  /\ sie = FALSE /\ spie = FALSE /\ sepc = <<0, "mem">>
  /\ lock = Free /\ timer = "off" /\ ticks = 0 /\ nested = FALSE

-----------------------------------------------------------------------------
(* init(): mem, file system, processes, interrupts *)

\* (Mutant) interrupts are set up before the processes.
AfterSwapped(pc) ==
  CASE pc = "mem" -> "fs"      [] pc = "fs" -> "intr"  [] pc = "proc" -> "running"
    [] pc = "intr" -> "timer"  [] pc = "timer" -> "proc"

\* The order of the calls in init(); intr::init is two steps.
After(pc) ==
  CASE pc = "mem" -> "fs"      [] pc = "fs" -> "proc"  [] pc = "proc" -> "intr"
    [] pc = "intr" -> "timer"  [] pc = "timer" -> "running"

InMain(pc) == kernel = "running" /\ traps = <<>> /\ main = pc

MemInit ==
  /\ InMain("mem")
  /\ main' = After("mem")
  /\ UNCHANGED <<taskVars, traps, hartVars, lock, timer, ticks, nested>>

\* Without a disk, or without a file system on it, the start panics.
InitFs ==
  /\ InMain("fs")
  /\ \/ main' = After("fs") /\ UNCHANGED kernel
     \/ kernel' = "panicked" /\ UNCHANGED main
  /\ UNCHANGED <<tasks, nextId, traps, hartVars, lock, timer, ticks, nested>>

\* proc::init: TASKS is taken, the first task made, and TASKS released.
ProcLock ==
  /\ InMain("proc") /\ lock = Free
  /\ lock' = 0 /\ main' = "userinit"
  /\ UNCHANGED <<taskVars, traps, hartVars, timer, ticks, nested>>

UserInit ==
  /\ InMain("userinit")
  /\ NewTask
  /\ lock' = Free /\ main' = After("proc")
  /\ UNCHANGED <<traps, hartVars, timer, ticks, nested>>

IntrInit ==
  /\ InMain("intr")
  /\ sie' = TRUE /\ main' = After("intr")
  /\ UNCHANGED <<taskVars, traps, spie, sepc, lock, timer, ticks, nested>>

SetFirstTimer ==
  /\ InMain("timer")
  /\ timer' = "armed" /\ main' = After("timer")
  /\ UNCHANGED <<taskVars, traps, hartVars, lock, ticks, nested>>

\* _start prints its greeting and shuts down.
Shutdown ==
  /\ InMain("running")
  /\ kernel' = "off"
  /\ UNCHANGED <<tasks, nextId, main, traps, hartVars, lock, timer, ticks, nested>>

-----------------------------------------------------------------------------
(* Interrupts *)

\* External: the interval is over.  Nothing ensures that the last interrupt has returned
\* by then.
TimerFires ==
  /\ kernel = "running" /\ timer = "armed" /\ ticks < MaxTicks
  /\ timer' = "pending"
  /\ UNCHANGED <<taskVars, main, traps, hartVars, lock, ticks, nested>>

Here == IF traps = <<>> THEN <<0, main>> ELSE <<Len(traps), Last(traps).pc>>

\* External: the hart takes the interrupt; kernelvec saves the registers, and
\* neither sepc nor sstatus.
Interrupt ==
  /\ kernel = "running" /\ timer = "pending" /\ sie /\ Len(traps) < MaxDepth
  /\ traps' = Append(traps, [pc |-> "lock", from |-> Here])
  /\ spie' = sie /\ sie' = FALSE /\ sepc' = Here
  /\ nested' = (nested \/ traps # <<>>)
  /\ UNCHANGED <<taskVars, main, lock, timer, ticks>>

InTrap(pc) == kernel = "running" /\ traps # <<>> /\ Last(traps).pc = pc
TrapAt(pc) == traps' = [traps EXCEPT ![Len(traps)].pc = pc]

\* kerneltrap takes TASKS, for which it spins, and the current task.
TakeTasks ==
  /\ InTrap("lock") /\ lock = Free
  /\ lock' = Len(traps)
  /\ TrapAt("handle")
  /\ kernel' = IF HasCurrent THEN kernel ELSE "panicked"
  /\ UNCHANGED <<tasks, nextId, main, hartVars, timer, ticks, nested>>

\* set_next_timer takes back the interrupt that is pending.
Rearmed == "armed"

\* (Mutant) handle leaves interrupts enabled.
MaskedNot == TRUE

\* disable_supervisor_interrupt
Masked == FALSE

\* handle: interrupts are disabled, and tick() counts.
Tick ==
  /\ InTrap("handle")
  /\ sie' = Masked /\ timer' = Rearmed /\ ticks' = ticks + 1
  /\ TrapAt("enable")
  /\ UNCHANGED <<taskVars, main, spie, sepc, lock, nested>>

\* The end of handle: interrupts are enabled, TASKS is still held.
Enable ==
  /\ InTrap("enable")
  /\ sie' = TRUE
  /\ TrapAt("unlock")
  /\ UNCHANGED <<taskVars, main, spie, sepc, lock, timer, ticks, nested>>

\* (Mutant) the guard is never dropped.
UnlockedNot == lock

\* kerneltrap's guards are dropped when it returns.
Unlocked == Free

Unlock ==
  /\ InTrap("unlock")
  /\ lock' = Unlocked
  /\ TrapAt("sret")
  /\ UNCHANGED <<taskVars, main, hartVars, timer, ticks, nested>>

\* kernelvec restores the registers and goes where sepc says.
Sret ==
  /\ InTrap("sret")
  /\ IF sepc = Last(traps).from
     THEN traps' = Front(traps) /\ UNCHANGED kernel
     ELSE kernel' = "lost" /\ UNCHANGED traps
  /\ sie' = spie /\ spie' = TRUE
  /\ UNCHANGED <<tasks, nextId, main, sepc, lock, timer, ticks, nested>>

-----------------------------------------------------------------------------
Start == MemInit \/ InitFs \/ ProcLock \/ UserInit \/ IntrInit \/ SetFirstTimer \/ Shutdown
KernelVec == TakeTasks \/ Tick \/ Enable \/ Unlock \/ Sret
Next == Start \/ TimerFires \/ Interrupt \/ KernelVec

\* The hart goes on with the code it is in.
Fairness == WF_vars(Start) /\ WF_vars(KernelVec)
Spec == Init /\ [][Next]_vars /\ Fairness

-----------------------------------------------------------------------------
\* kerneltrap unwraps the current task: it is there whenever an interrupt comes, for
\* interrupts are enabled only after proc::init.
CurrentTaskExists == traps # <<>> => HasCurrent

\* An interrupt comes on top of another only when that one has counted its tick and
\* set the timer again: in the window from the end of handle to sret.
NestsOnlyAtEnd ==
  \A n \in 1 .. Len(traps) - 1 : traps[n].pc \in {"unlock", "sret"}

\* Every interrupt is handled to its end and the kernel goes on with what it did, as
\* long as none comes on top of another.
TrapsReturn == traps # <<>> ~> (traps = <<>> \/ nested \/ kernel # "running")

\* The sret of kernelvec goes back to the code that was interrupted.  It does not when
\* another interrupt came before it, for kernelvec does not save sepc.
ReturnsToInterrupted == kernel # "lost"

\* Every interrupt is handled to its end.  It is not when another one comes while it
\* holds TASKS, for which the other then spins.
TrapsAlwaysReturn == traps # <<>> ~> (traps = <<>> \/ kernel # "running")
=============================================================================
