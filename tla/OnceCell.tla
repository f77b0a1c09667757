------------------------------ MODULE OnceCell ------------------------------
(***************************************************************************)
(* The cell that is written once (kernel/src/sync/once_cell.rs): `set`,    *)
(* `get` and `get_or_init`, called by several threads.  The flag is behind *)
(* a mutex; `get` reads the value after it has released the mutex.         *)
(*                                                                         *)
(* The value is not written at once: a reader in the middle of the write   *)
(* sees Torn.                                                              *)
(***************************************************************************)

CONSTANTS Threads, Values, None, Torn

ASSUME OnceCellAssumption == None \notin Threads

VARIABLES inner,        \* the value, None or Torn
          initialized,
          owner,        \* who holds the mutex of `initialized`
          calls,        \* per thread: the method it runs, its step and argument
          oks, gots     \* history: the values set returned Ok for and get gave out

vars == <<inner, initialized, owner, calls, oks, gots>>

Idle == [op |-> "none", pc |-> "idle", arg |-> None]

Init ==
  /\ inner = None /\ initialized = FALSE /\ owner = None
  /\ calls = [t \in Threads |-> Idle]
  /\ oks = {} /\ gots = {}

At(t, pc) == calls[t].pc = pc
Goto(t, pc) == calls' = [calls EXCEPT ![t].pc = pc]
Return(t) == calls' = [calls EXCEPT ![t] = Idle]

-----------------------------------------------------------------------------
Set(t, v) ==
  /\ At(t, "idle")
  /\ calls' = [calls EXCEPT ![t] = [op |-> "set", pc |-> "set", arg |-> v]]
  /\ UNCHANGED <<inner, initialized, owner, oks, gots>>

Get(t) ==
  /\ At(t, "idle")
  /\ calls' = [calls EXCEPT ![t] = [op |-> "get", pc |-> "get", arg |-> None]]
  /\ UNCHANGED <<inner, initialized, owner, oks, gots>>

\* get_or_init(f), where f() is v.
GetOrInit(t, v) ==
  /\ At(t, "idle")
  /\ calls' = [calls EXCEPT ![t] = [op |-> "get_or_init", pc |-> "get", arg |-> v]]
  /\ UNCHANGED <<inner, initialized, owner, oks, gots>>

-----------------------------------------------------------------------------
\* (Mutant) the flag is tested by nobody.
AlreadySetNever == FALSE

AlreadySet == initialized

\* (Mutant) get_or_init tries again until its own set succeeds.
AfterSetRetries(t) == IF calls[t].op = "set" THEN Return(t) ELSE Goto(t, "set")

\* get_or_init ignores the error of set and goes on to its second get.
AfterSet(t) == IF calls[t].op = "set" THEN Return(t) ELSE Goto(t, "get_again")

\* (Mutant) the flag is set, and the mutex released, before the value is written.
SetLockEarly(t) ==
  /\ At(t, "set") /\ owner = None
  /\ IF AlreadySet THEN AfterSet(t) /\ UNCHANGED initialized
                   ELSE Goto(t, "write") /\ initialized' = TRUE
  /\ UNCHANGED <<inner, owner, oks, gots>>

SetLock(t) ==
  /\ At(t, "set") /\ owner = None
  /\ IF AlreadySet THEN AfterSet(t) /\ UNCHANGED owner
                   ELSE Goto(t, "write") /\ owner' = t
  /\ UNCHANGED <<inner, initialized, oks, gots>>

SetWrites(t) ==
  /\ At(t, "write")
  /\ inner' = Torn
  /\ Goto(t, "written")
  /\ UNCHANGED <<initialized, owner, oks, gots>>

SetDone(t) ==
  /\ At(t, "written")
  /\ inner' = calls[t].arg /\ initialized' = TRUE
  /\ owner' = None
  /\ oks' = oks \cup {<<t, calls[t].arg>>}
  /\ AfterSet(t)
  /\ UNCHANGED gots

\* get tests the flag under the mutex.  Of its first get get_or_init uses only whether
\* there is a value.
GetFlag(t) ==
  /\ At(t, "get") \/ At(t, "get_again")
  /\ owner = None
  /\ IF initialized
     THEN Goto(t, IF At(t, "get") /\ calls[t].op = "get_or_init" THEN "get_again" ELSE "read")
     ELSE IF calls[t].op = "get" THEN Return(t)
     ELSE IF At(t, "get") THEN Goto(t, "set")
     ELSE Goto(t, "panicked")
  /\ UNCHANGED <<inner, initialized, owner, oks, gots>>

\* The caller follows the reference it was given, without the mutex.
GetInner(t) ==
  /\ At(t, "read")
  /\ gots' = gots \cup {inner}
  /\ Return(t)
  /\ UNCHANGED <<inner, initialized, owner, oks>>

Step(t) == GetFlag(t) \/ GetInner(t) \/ SetLock(t) \/ SetWrites(t) \/ SetDone(t)

Next ==
  \E t \in Threads :
    \/ Get(t)
    \/ \E v \in Values : Set(t, v) \/ GetOrInit(t, v)
    \/ Step(t)

\* A thread goes on with the method it is in.  Weak fairness is enough: the mutex is
\* held over several steps only by the one set that succeeds.
Fairness == \A t \in Threads : WF_vars(Step(t))

Spec == Init /\ [][Next]_vars /\ Fairness

-----------------------------------------------------------------------------
\* Type invariant.
TypeOK ==
  /\ inner \in Values \cup {None, Torn} /\ initialized \in BOOLEAN
  /\ owner \in Threads \cup {None}
  /\ calls \in [Threads -> [op : {"none", "set", "get", "get_or_init"},
                            pc : {"idle", "set", "get", "get_again", "write", "written",
                                  "read", "panicked"},
                            arg : Values \cup {None}]]

\* Whoever gets a value, at whatever time, gets the one value that was set: never a
\* part of it, never another thread's.
OneValue == gots \subseteq {o[2] : o \in oks} /\ \A o, p \in oks : o = p

\* A value that is set is never written again, so the references given out stay good.
WrittenOnce == [][initialized => inner' = inner]_vars

\* The inductive invariant: only the thread in the middle of a set holds the mutex,
\* nobody is there once the flag is set, and until then nobody has got anything.
SetUnderLock ==
  /\ \A t \in Threads : owner = t <=> (At(t, "write") \/ At(t, "written"))
  /\ initialized => owner = None
  /\ \A t \in Threads : (At(t, "read") \/ At(t, "get_again")) => initialized
  /\ \A t \in Threads : ~At(t, "panicked")
  /\ IF initialized THEN \E t \in Threads : oks = {<<t, inner>>} /\ gots \subseteq {inner}
     ELSE oks = {} /\ gots = {}

\* get_or_init returns, whoever else initializes the cell: its unwrap finds a value,
\* also when another thread's set has made its own set fail.
GetOrInitReturns == \A t \in Threads : calls[t].op = "get_or_init" ~> At(t, "idle")
=============================================================================
