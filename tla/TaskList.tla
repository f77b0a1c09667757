------------------------------ MODULE TaskList ------------------------------
(***************************************************************************)
(* The list of tasks (kernel/src/proc/task_list.rs): `new_task` and what   *)
(* `current` finds.  A task is its pid; the list is behind the lock TASKS  *)
(* (module Traps).                                                         *)
(***************************************************************************)
EXTENDS Integers, FiniteSets

CONSTANT MaxProc  \* MAX_PROC, 64 in the code

ASSUME MaxProcAssumption == MaxProc \in Nat

VARIABLES tasks,   \* the pids in the list
          nextId,
          kernel   \* "running", or why it stopped

taskVars == <<tasks, nextId, kernel>>

TaskListInit == tasks = {} /\ nextId = 0 /\ kernel = "running"

\* alloc_pid counts also when new_task then gives up.
NewTask ==
  /\ kernel = "running"
  /\ nextId' = nextId + 1
  /\ IF nextId > MaxProc \/ nextId \in tasks
     THEN kernel' = "panicked" /\ UNCHANGED tasks
     ELSE tasks' = tasks \cup {nextId} /\ UNCHANGED kernel

\* current() is the task 0, if there is one.
HasCurrent == 0 \in tasks

TaskListSpec == TaskListInit /\ [][NewTask]_taskVars

\* There are never more than MAX_PROC tasks.
AtMostMaxProc == Cardinality(tasks) <= MaxProc
=============================================================================
