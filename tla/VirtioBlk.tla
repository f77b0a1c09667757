------------------------------ MODULE VirtioBlk ------------------------------
(***************************************************************************)
(* The virtio block driver (kernel/src/drivers/virtio/virtio_blk/mod.rs):  *)
(* `init` sets the device up, threads call read_block and write_block,     *)
(* `send` posts one descriptor chain and polls the used ring holding the   *)
(* `inner` lock, the device takes the chain and completes it when it       *)
(* likes, and the interrupt handler drains the used ring under that lock.  *)
(*                                                                         *)
(* The three descriptors of a request always are desc[0..2], so the chain  *)
(* is one record.  Ring indices are u16 in the code and count modulo       *)
(* IdxMod here; QueueSize divides IdxMod as 16 divides 2^16.  The device   *)
(* may look at the rings from the moment the index is written, with or     *)
(* without the notification that follows.  An interrupt runs on the only   *)
(* hart, on top of the thread it interrupts.  `init` may find a device as  *)
(* it is after power on, or one that the firmware has used before.         *)
(***************************************************************************)
EXTENDS Naturals

CONSTANTS Threads, Blocks, Values, None,
          SectorsPerBlock,  \* BLOCK_SIZE / 512
          SectorsNum,       \* the capacity the device announces, in sectors
          QueueSize,        \* QUEUE_SIZE
          IdxMod,           \* 2^16
          Builds,           \* the builds considered, "debug" and "release"
          Interrupts,       \* whether the PLIC delivers the device's interrupt
          Faulty            \* the blocks on which the device may report an error

ASSUME VirtioAssumption ==
  /\ SectorsPerBlock \in Nat \ {0} /\ SectorsNum \in Nat
  /\ QueueSize \in Nat \ {0} /\ IdxMod \in Nat /\ IdxMod > QueueSize
  /\ IdxMod % QueueSize = 0
  /\ Builds \subseteq {"debug", "release"} /\ Interrupts \in BOOLEAN
  /\ Blocks \subseteq Nat /\ Faulty \subseteq Blocks /\ None \notin Threads

\* None is no call and no result.
ASSUME NoneAssumption ==
  /\ None \notin [op : {"Read", "Write"}, block : Blocks, whole : BOOLEAN]
  /\ None \notin {"Ok", "InvalidBufferSize", "OutOfCapacity"}

VARIABLES build,    \* debug builds check arithmetic for overflow
          kernel,   \* "running" or "panicked"
          boot,     \* the step of `init` that is next, "up" after the last
          regs,     \* the device's registers: its status, queue_ready and whose rings
                    \* the queue addresses point to
          pc,       \* where each thread is: "idle", "called", "built", "waiting"
          call,     \* the arguments of each thread's call, or None
          buf,      \* each caller's buffer
          outcome,  \* the result of each thread's last call, None until it returns
          inner,    \* the thread that holds the lock `inner`, or None
          chain,    \* desc[0..2]: header, buffer (its owner) and status byte
          avail,    \* the available ring and its index
          used,     \* the used ring and its index
          used_idx, \* inner.used_idx
          done,     \* inner.status, the ids the interrupt handler marked Done
          seen,     \* device: the available index it has handled
          devpc,    \* device: "idle", or "served" before it reports
          disk,     \* device: the content of the medium
          irq       \* "low", "pending", "spinning" (the handler waits for
                    \* `inner`) or "claimed" (handled, and never completed)

driver == <<pc, call, buf, outcome, inner, used_idx, done>>
device == <<boot, regs>>
vars == <<build, kernel, device, driver, chain, avail, used, seen, devpc, disk, irq>>

Ring == 0 .. QueueSize - 1
Idx == 0 .. IdxMod - 1
Calls == [op : {"Read", "Write"}, block : Blocks, whole : BOOLEAN]
NoRequest == [op |-> None, block |-> None, owner |-> None, status |-> None]

\* The registers of a virtio block device after a reset.
PowerOn == [virtio |-> TRUE, status |-> "reset", ready |-> FALSE, rings |-> None]

Init ==
  /\ build \in Builds
  /\ kernel = "running"
  /\ pc = [t \in Threads |-> "idle"]
  /\ call = [t \in Threads |-> None]
  /\ buf \in [Threads -> Values]
  /\ outcome = [t \in Threads |-> None]
  /\ inner = None
  /\ chain = NoRequest
  /\ avail = [idx |-> 0, ring |-> [i \in Ring |-> 0]]
  /\ used = [idx |-> 0, ring |-> [i \in Ring |-> 0]]
  /\ used_idx = 0
  /\ done = {}
  /\ boot = "probe"
  /\ \/ regs = [virtio |-> FALSE] /\ seen = 0
     \/ regs = PowerOn /\ seen = 0
     \/ regs = [PowerOn EXCEPT !.status = "DRIVER_OK", !.ready = TRUE, !.rings = "firmware"]
        /\ seen \in Idx
  /\ devpc = "idle"
  /\ disk \in [Blocks -> Values]
  /\ irq = "low"

\* The hart runs the threads unless a handler spins on top of them.
HartRuns == kernel = "running" /\ boot = "up" /\ irq # "spinning"

(***************************************************************************)
(* VirtIOBlock::init, at boot and before any interrupt is enabled.         *)
(***************************************************************************)
BootStep(step, next) ==
  /\ kernel = "running" /\ boot = step
  /\ boot' = next
  /\ UNCHANGED <<build, driver, chain, avail, used, devpc, disk, irq>>

\* The magic number and the version; init_fs panics on an Err.
Probe ==
  /\ BootStep("probe", "reset")
  /\ kernel' = IF regs.virtio THEN "running" ELSE "panicked"
  /\ UNCHANGED <<regs, seen>>

\* A status of 0 resets the device; ACKNOWLEDGE, DRIVER and, after the features were
\* written back, FEATURES_OK replace one another.
Reset ==
  /\ BootStep("reset", "queue")
  /\ regs' = [PowerOn EXCEPT !.status = "FEATURES_OK"] /\ seen' = 0
  /\ UNCHANGED kernel

\* (Mutant) the addresses are not written.
ProgrammedNot(r) == r

\* The six queue_*_low and queue_*_high registers.
Programmed(r) == [r EXCEPT !.rings = "driver"]

\* A new VirtQueue, and its addresses; "virtio disk should not be ready".
SetQueue ==
  /\ BootStep("queue", "ready")
  /\ kernel' = IF regs.ready THEN "panicked" ELSE "running"
  /\ regs' = Programmed(regs)
  /\ UNCHANGED seen

SetReady ==
  /\ BootStep("ready", "driver_ok")
  /\ regs' = [regs EXCEPT !.ready = TRUE]
  /\ UNCHANGED <<kernel, seen>>

\* DRIVER_OK, and the device is registered for the interrupt handler.
SetDriverOk ==
  /\ BootStep("driver_ok", "up")
  /\ regs' = [regs EXCEPT !.status = "DRIVER_OK"]
  /\ UNCHANGED <<kernel, seen>>

InitDevice == Probe \/ Reset \/ SetQueue \/ SetReady \/ SetDriverOk

(***************************************************************************)
(* A caller.                                                               *)
(***************************************************************************)
Call(t, op, b, v, whole) ==
  /\ HartRuns /\ pc[t] = "idle"
  /\ op = "Read" => v = buf[t]
  /\ pc' = [pc EXCEPT ![t] = "called"]
  /\ call' = [call EXCEPT ![t] = [op |-> op, block |-> b, whole |-> whole]]
  /\ buf' = [buf EXCEPT ![t] = v]
  /\ outcome' = [outcome EXCEPT ![t] = None]
  /\ UNCHANGED <<build, kernel, device, inner, chain, avail, used, used_idx,
                 done, seen, devpc, disk, irq>>

Return(t, result) ==
  /\ pc' = [pc EXCEPT ![t] = "idle"]
  /\ call' = [call EXCEPT ![t] = None]
  /\ outcome' = [outcome EXCEPT ![t] = result]

\* read_block and write_block check the length of the buffer.
RefuseLength(t) ==
  /\ HartRuns /\ pc[t] = "called" /\ ~call[t].whole
  /\ Return(t, "InvalidBufferSize")
  /\ UNCHANGED <<build, kernel, device, buf, inner, chain, avail, used, used_idx, done,
                 seen, devpc, disk, irq>>

SectorEnd(b) == b * SectorsPerBlock + SectorsPerBlock

OutOfCapacity(b) == SectorEnd(b) >= SectorsNum

RefuseCapacity(t) ==
  /\ HartRuns /\ pc[t] = "called" /\ call[t].whole /\ inner = None
  /\ OutOfCapacity(call[t].block)
  /\ Return(t, "OutOfCapacity")
  /\ UNCHANGED <<build, kernel, device, buf, inner, chain, avail, used, used_idx, done,
                 seen, devpc, disk, irq>>

\* (Mutant) the request built before the lock is taken.
BuildUnlocked(t) ==
  /\ HartRuns /\ pc[t] = "called" /\ call[t].whole
  /\ ~OutOfCapacity(call[t].block)
  /\ inner' = t
  /\ pc' = [pc EXCEPT ![t] = "built"]
  /\ chain' = [op |-> call[t].op, block |-> call[t].block, owner |-> t, status |-> 255]
  /\ UNCHANGED <<build, kernel, device, call, buf, outcome, avail, used, used_idx, done,
                 seen, devpc, disk, irq>>

\* Take `inner`, check the range, box the header and the status byte 0xff and
\* point the three descriptors at them and at the caller's buffer.
Build(t) ==
  /\ HartRuns /\ pc[t] = "called" /\ call[t].whole /\ inner = None
  /\ ~OutOfCapacity(call[t].block)
  /\ inner' = t
  /\ pc' = [pc EXCEPT ![t] = "built"]
  /\ chain' = [op |-> call[t].op, block |-> call[t].block, owner |-> t, status |-> 255]
  /\ UNCHANGED <<build, kernel, device, call, buf, outcome, avail, used, used_idx, done,
                 seen, devpc, disk, irq>>

\* (Mutant) the index is not advanced.
PostedNothing(a) == [a EXCEPT !.ring[a.idx % QueueSize] = 0]

\* The available ring after `avail.ring[idx % QUEUE_SIZE] = 0; idx + 1`.
Posted(a) ==
  [idx |-> (a.idx + 1) % IdxMod, ring |-> [a.ring EXCEPT ![a.idx % QueueSize] = 0]]

\* `avail_idx + 1` is not a wrapping addition: a debug build panics at the top.
Publish(t) ==
  /\ HartRuns /\ pc[t] = "built"
  /\ IF build = "debug" /\ avail.idx + 1 = IdxMod
     THEN kernel' = "panicked" /\ UNCHANGED <<pc, avail>>
     ELSE /\ avail' = Posted(avail)
          /\ pc' = [pc EXCEPT ![t] = "waiting"]
          /\ UNCHANGED kernel
  /\ UNCHANGED <<build, device, call, buf, outcome, inner, chain, used, used_idx, done,
                 seen, devpc, disk, irq>>

\* (Mutant) the completed entry is not counted.
CountedNot(i) == i

\* inner.used_idx.wrapping_add(1)
Counted(i) == (i + 1) % IdxMod

\* (Mutant) the loop gives up before the device has answered.
PolledOnce == TRUE

\* The condition that ends the polling loop.
Polled == used.idx # used_idx

\* The polling loop ends; the status byte is asserted to be 0; `header` and
\* `status` are dropped and `inner` is unlocked.
Complete(t) ==
  /\ HartRuns /\ pc[t] = "waiting" /\ Polled
  /\ used_idx' = Counted(used_idx)
  /\ IF chain.status = 0
     THEN /\ Return(t, "Ok")
          /\ inner' = None
          /\ chain' = NoRequest
          /\ UNCHANGED kernel
     ELSE kernel' = "panicked" /\ UNCHANGED <<pc, call, outcome, inner, chain>>
  /\ UNCHANGED <<build, device, buf, avail, used, done, seen, devpc, disk, irq>>

\* The polling loop goes round: the used index has not moved.
Poll(t) ==
  /\ HartRuns /\ pc[t] = "waiting" /\ ~Polled
  /\ UNCHANGED vars

(***************************************************************************)
(* The device: external, it serves a posted chain, then reports it.  It    *)
(* looks at its rings once the queue is ready and the driver too.          *)
(***************************************************************************)
Live == regs.virtio /\ regs.ready /\ regs.status = "DRIVER_OK"

DeviceServe ==
  /\ Live /\ regs.rings = "driver"
  /\ seen # avail.idx /\ devpc = "idle"
  /\ devpc' = "served"
  /\ \/ /\ chain.block \in Faulty
        /\ chain' = [chain EXCEPT !.status = 1]
        /\ UNCHANGED <<buf, disk>>
     \/ /\ chain.op = "Read"
        /\ chain' = [chain EXCEPT !.status = 0]
        /\ buf' = [buf EXCEPT ![chain.owner] = disk[chain.block]]
        /\ UNCHANGED disk
     \/ /\ chain.op = "Write"
        /\ chain' = [chain EXCEPT !.status = 0]
        /\ disk' = [disk EXCEPT ![chain.block] = buf[chain.owner]]
        /\ UNCHANGED buf
  /\ UNCHANGED <<build, kernel, device, pc, call, outcome, inner, avail, used, used_idx,
                 done, seen, irq>>

DeviceReport ==
  /\ devpc = "served"
  /\ devpc' = "idle"
  /\ seen' = (seen + 1) % IdxMod
  /\ used' = [idx |-> (used.idx + 1) % IdxMod,
              ring |-> [used.ring EXCEPT ![used.idx % QueueSize]
                          = avail.ring[seen % QueueSize]]]
  /\ irq' = IF Interrupts /\ irq = "low" THEN "pending" ELSE irq
  /\ UNCHANGED <<build, kernel, device, driver, chain, avail, disk>>

(***************************************************************************)
(* The interrupt: handle_plic claims it and handle_interrupt takes `inner` *)
(* and drains the used ring.  When a thread holds `inner` the handler      *)
(* spins for ever, since the thread it interrupted cannot go on.  The      *)
(* claim is never completed, so the PLIC delivers no second interrupt.     *)
(***************************************************************************)
Unhandled ==
  {used.ring[(used_idx + k) % QueueSize] :
     k \in {n \in Ring : n < (used.idx + IdxMod - used_idx) % IdxMod}}

TakeInterrupt ==
  /\ kernel = "running" /\ irq = "pending"
  /\ IF inner # None
     THEN irq' = "spinning" /\ UNCHANGED <<used_idx, done>>
     ELSE /\ irq' = "claimed"
          /\ used_idx' = used.idx
          /\ done' = done \cup Unhandled
  /\ UNCHANGED <<build, kernel, device, pc, call, buf, outcome, inner, chain, avail,
                 used, seen, devpc, disk>>

Thread(t) ==
  \/ RefuseLength(t) \/ RefuseCapacity(t) \/ Build(t) \/ Publish(t)
  \/ Complete(t) \/ Poll(t)

Next ==
  \/ InitDevice
  \/ \E t \in Threads :
       \/ \E op \in {"Read", "Write"}, b \in Blocks, v \in Values, whole \in BOOLEAN :
            Call(t, op, b, v, whole)
       \/ Thread(t)
  \/ DeviceServe
  \/ DeviceReport
  \/ TakeInterrupt

Spec == Init /\ [][Next]_vars

\* A thread that can run is scheduled, and the device answers every request.
FairSpec ==
  /\ Spec
  /\ WF_vars(InitDevice)
  /\ \A t \in Threads : WF_vars(Thread(t))
  /\ WF_vars(DeviceServe) /\ WF_vars(DeviceReport)

-----------------------------------------------------------------------------
\* Whenever the device has a chain it has not reported, the thread that owns the
\* request still is in `send` with `inner` held: the boxed header and status
\* byte and the caller's buffer, which the descriptors point to, are alive.
RequestAlive ==
  (boot = "up" /\ (seen # avail.idx \/ devpc = "served")) =>
    /\ chain # NoRequest /\ inner = chain.owner
    /\ pc[chain.owner] = "waiting"

\* From the reset on, a device that may look at its rings looks at the driver's, from
\* their first entry: what the firmware left in it is gone before it goes live.
LiveOnDriverRings ==
  (boot \notin {"probe", "reset"} /\ Live) =>
    /\ regs.rings = "driver"
    /\ chain = NoRequest => seen = avail.idx

\* The indices of the two rings never drift apart by more than the one request that is
\* under way: `send` consumes the completion it waits for before it unlocks `inner`, so
\* the interrupt handler, which needs `inner`, never finds one and marks no request
\* Done.  A sleeping `send` that waits for Done would need the polling removed.
AllHandled ==
  /\ devpc = "idle" /\ used_idx = avail.idx /\ used.idx = avail.idx
  /\ boot \notin {"probe", "reset"} => seen = avail.idx
OneUnderWay ==
  /\ avail.idx = (used_idx + 1) % IdxMod
  /\ \/ seen = used_idx /\ used.idx = used_idx
     \/ seen = avail.idx /\ used.idx = avail.idx /\ devpc = "idle"
RingsInStep ==
  /\ done = {}
  /\ inner = None => AllHandled
  /\ \A t \in Threads :
       inner = t => \/ pc[t] = "built" /\ AllHandled
                    \/ pc[t] = "waiting" /\ OneUnderWay
                    \/ pc[t] = "waiting" /\ AllHandled /\ kernel = "panicked"

\* The driver and the device together implement the BlockDevice trait: the data
\* moves when the device serves the chain, and Ok is returned only after that.
Phase(t) ==
  CASE pc[t] = "idle" -> "idle"
    [] pc[t] = "waiting" /\ chain.owner = t /\ chain.status = 0 -> "served"
    [] OTHER -> "asked"

AbstractCall(t) ==
  IF call[t] = None THEN None ELSE [op |-> call[t].op, block |-> call[t].block]

AbstractOutcome(t) ==
  CASE outcome[t] = None -> None
    [] outcome[t] = "Ok" -> "Ok"
    [] OTHER -> "Err"

Device == INSTANCE BlockDevice WITH
  call <- [t \in Threads |-> AbstractCall(t)],
  phase <- [t \in Threads |-> Phase(t)],
  outcome <- [t \in Threads |-> AbstractOutcome(t)]

ImplementsDevice == Device!DeviceSpec

\* `init` ends, and a thread that holds `inner` gives it up: unless the kernel panics (a device
\* error, an index that overflows in a debug build) or the interrupt handler spins
\* on top of it, no request waits for ever, also across the wrap-around of the
\* ring indices.
SendReturns ==
  /\ <>(boot = "up" \/ kernel = "panicked")
  /\ \A t \in Threads :
       inner = t ~> (inner # t \/ kernel = "panicked" \/ irq = "spinning")

\* OutOfCapacity is only returned for a request beyond the capacity the device
\* announces, as the comment on the error says.
RefusedBeyondCapacity ==
  [][\A t \in Threads : RefuseCapacity(t) => SectorEnd(call[t].block) > SectorsNum]_vars
=============================================================================
