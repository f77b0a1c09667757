---------------------------- MODULE BlockDevice ----------------------------
(***************************************************************************)
(* What the BlockDevice trait promises (fs/src/block_dev.rs): a read fills *)
(* the caller's buffer with the block, a write stores the buffer, each at  *)
(* one moment between the call and its return; a call may be refused, and  *)
(* then has no effect.                                                     *)
(***************************************************************************)
CONSTANTS Threads, Blocks, Values, None

VARIABLES disk,    \* the content of each block
          call,    \* the operation each thread has called, or None
          phase,   \* "idle", "asked" or "served" for each thread
          buf,     \* the caller's buffer
          outcome  \* the result of each thread's last call, None until it returns

deviceVars == <<disk, call, phase, buf, outcome>>

DeviceInit ==
  /\ disk \in [Blocks -> Values]
  /\ call = [t \in Threads |-> None]
  /\ phase = [t \in Threads |-> "idle"]
  /\ buf \in [Threads -> Values]
  /\ outcome = [t \in Threads |-> None]

Ask(t, op, b, v) ==
  /\ phase[t] = "idle"
  /\ phase' = [phase EXCEPT ![t] = "asked"]
  /\ call' = [call EXCEPT ![t] = [op |-> op, block |-> b]]
  /\ buf' = [buf EXCEPT ![t] = v]
  /\ outcome' = [outcome EXCEPT ![t] = None]
  /\ UNCHANGED disk

Serve(t) ==
  /\ phase[t] = "asked"
  /\ phase' = [phase EXCEPT ![t] = "served"]
  /\ \/ /\ call[t].op = "Read"
        /\ buf' = [buf EXCEPT ![t] = disk[call[t].block]]
        /\ UNCHANGED disk
     \/ /\ call[t].op = "Write"
        /\ disk' = [disk EXCEPT ![call[t].block] = buf[t]]
        /\ UNCHANGED buf
  /\ UNCHANGED <<call, outcome>>

\* A call that was served returns Ok, one that was not returns an error.
Answer(t) ==
  /\ phase[t] \in {"asked", "served"}
  /\ phase' = [phase EXCEPT ![t] = "idle"]
  /\ call' = [call EXCEPT ![t] = None]
  /\ outcome' = [outcome EXCEPT ![t] = IF phase[t] = "served" THEN "Ok" ELSE "Err"]
  /\ UNCHANGED <<disk, buf>>

DeviceNext ==
  \E t \in Threads :
    \/ \E op \in {"Read", "Write"}, b \in Blocks, v \in Values : Ask(t, op, b, v)
    \/ Serve(t)
    \/ Answer(t)

DeviceSpec == DeviceInit /\ [][DeviceNext]_deviceVars
=============================================================================
