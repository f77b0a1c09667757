-------------------------- MODULE VirtioBlkProofs --------------------------
(***************************************************************************)
(* Proofs about VirtioBlk, for any number of threads and blocks, any       *)
(* capacity and any size of the rings.                                     *)
(***************************************************************************)
EXTENDS VirtioBlk, TLAPS

\* The lock `inner`, the request and the steps of the threads belong together; nothing
\* was posted before `init` is over.
LockInvariant ==
  /\ \A t \in Threads : inner = t <=> pc[t] \in {"built", "waiting"}
  /\ inner = None => chain = NoRequest
  /\ \A t \in Threads : inner = t => chain.owner = t
  /\ boot # "up" => inner = None /\ avail.idx = 0

\* What each step of `init` finds in the registers.
BootInvariant ==
  /\ boot \in {"probe", "reset"} => ~(Live /\ regs.rings = "driver")
  /\ boot = "queue" => regs.status = "FEATURES_OK"
  /\ boot \in {"ready", "driver_ok"} => regs.status = "FEATURES_OK" /\ regs.rings = "driver"
  /\ boot = "up" => regs.rings = "driver"

\* The part of the type invariant the others rest on.
Types ==
  /\ pc \in [Threads -> {"idle", "called", "built", "waiting"}]
  /\ inner \in Threads \cup {None}
  /\ avail.idx \in Idx /\ used.idx \in Idx /\ used_idx \in Idx /\ seen \in Idx
  /\ chain = [op |-> chain.op, block |-> chain.block, owner |-> chain.owner,
              status |-> chain.status]
  /\ devpc \in {"idle", "served"}
  /\ boot \in {"probe", "reset", "queue", "ready", "driver_ok", "up"}

Invariant == Types /\ LockInvariant /\ BootInvariant /\ RingsInStep

-----------------------------------------------------------------------------
\* A ring index moves on, and not to itself.
LEMMA NextIndex ==
  ASSUME NEW x \in Idx
  PROVE  (x + 1) % IdxMod \in Idx /\ (x + 1) % IdxMod # x
<1>. IdxMod \in Nat /\ IdxMod > 1
  BY VirtioAssumption
<1>1. CASE x + 1 = IdxMod
  BY <1>1 DEF Idx
<1>2. CASE x + 1 < IdxMod
  BY <1>2 DEF Idx
<1>. QED
  BY <1>1, <1>2 DEF Idx

LEMMA InitInvariant == Init => Invariant
<1>. SUFFICES ASSUME Init PROVE Invariant
  OBVIOUS
<1>1. 0 \in Idx
  BY VirtioAssumption DEF Idx
<1>2. Types
  BY <1>1 DEF Init, Types, NoRequest
<1>3. LockInvariant
  BY VirtioAssumption DEF Init, LockInvariant
<1>4. BootInvariant
  <2>1. boot = "probe"
    BY DEF Init
  <2>2. ~(Live /\ regs.rings = "driver")
    <3>1. CASE regs = [virtio |-> FALSE]
      BY <3>1, Zenon DEF Live
    <3>2. CASE regs = PowerOn
      BY <3>2 DEF Live, PowerOn
    <3>3. CASE regs = [PowerOn EXCEPT !.status = "DRIVER_OK", !.ready = TRUE, !.rings = "firmware"]
      BY <3>3 DEF PowerOn
    <3>. QED
      BY <3>1, <3>2, <3>3 DEF Init
  <2>. QED
    BY <2>1, <2>2 DEF BootInvariant
<1>5. RingsInStep
  BY VirtioAssumption DEF Init, RingsInStep, AllHandled
<1>. QED
  BY <1>2, <1>3, <1>4, <1>5 DEF Invariant

LEMMA BootKeepsInvariant ==
  ASSUME Invariant, InitDevice
  PROVE  Invariant'
<1>. USE VirtioAssumption
     DEF Invariant, Types, LockInvariant, BootInvariant, RingsInStep, AllHandled, OneUnderWay,
         BootStep, driver, PowerOn, Live
<1>1. CASE Probe
  BY <1>1 DEF Probe
<1>2. CASE Reset
  BY <1>2 DEF Reset, Idx
<1>3. CASE SetQueue
  BY <1>3 DEF SetQueue, Programmed
<1>4. CASE SetReady
  BY <1>4 DEF SetReady
<1>5. CASE SetDriverOk
  BY <1>5 DEF SetDriverOk
<1>. QED
  BY <1>1, <1>2, <1>3, <1>4, <1>5 DEF InitDevice

\* Everything a caller does but for the polling.
LEMMA CallerKeepsInvariant ==
  ASSUME Invariant, NEW t \in Threads,
         \/ \E op \in {"Read", "Write"}, b \in Blocks, v \in Values, whole \in BOOLEAN :
              Call(t, op, b, v, whole)
         \/ RefuseLength(t) \/ RefuseCapacity(t) \/ Build(t) \/ Publish(t)
  PROVE  Invariant'
<1>. USE VirtioAssumption
     DEF Invariant, Types, LockInvariant, BootInvariant, RingsInStep, AllHandled, OneUnderWay,
         device, HartRuns, Return, NoRequest, Live
<1>1. CASE \E op \in {"Read", "Write"}, b \in Blocks, v \in Values, whole \in BOOLEAN :
             Call(t, op, b, v, whole)
  BY <1>1 DEF Call
<1>2. CASE RefuseLength(t)
  BY <1>2 DEF RefuseLength
<1>3. CASE RefuseCapacity(t)
  BY <1>3 DEF RefuseCapacity
<1>4. CASE Build(t)
  BY <1>4 DEF Build
<1>5. CASE Publish(t)
  BY <1>5, NextIndex DEF Publish, Posted
<1>. QED
  BY <1>1, <1>2, <1>3, <1>4, <1>5

LEMMA CompleteKeepsInvariant ==
  ASSUME Invariant, NEW t \in Threads, Complete(t)
  PROVE  Invariant'
<1>1. inner = t /\ OneUnderWay /\ kernel = "running" /\ boot = "up"
  BY VirtioAssumption
  DEF Invariant, LockInvariant, RingsInStep, Complete, HartRuns, Polled, AllHandled
<1>2. used.idx = avail.idx /\ seen = avail.idx /\ devpc = "idle" /\ used_idx' = avail.idx
  BY <1>1 DEF OneUnderWay, Complete, Polled, Counted
<1>3. AllHandled'
  BY <1>1, <1>2 DEF AllHandled, Complete, device
<1>. QED
  BY <1>1, <1>2, <1>3, VirtioAssumption
  DEF Invariant, Types, LockInvariant, BootInvariant, RingsInStep, Complete, Return, device,
      NoRequest, Live

LEMMA DeviceKeepsInvariant ==
  ASSUME Invariant, DeviceServe \/ DeviceReport
  PROVE  Invariant'
<1>. USE VirtioAssumption
     DEF Invariant, Types, LockInvariant, BootInvariant, RingsInStep, AllHandled, OneUnderWay,
         device, driver, Live
<1>1. CASE DeviceServe
  <2>1. boot = "up" /\ inner # None
    BY <1>1 DEF DeviceServe
  <2>2. PICK s \in {0, 1} : chain' = [chain EXCEPT !.status = s]
    BY <1>1 DEF DeviceServe
  <2>3. /\ chain'.owner = chain.owner
        /\ chain' = [op |-> chain'.op, block |-> chain'.block, owner |-> chain'.owner,
                     status |-> chain'.status]
    BY <2>2
  <2>. QED
    BY <1>1, <2>1, <2>3 DEF DeviceServe
<1>2. CASE DeviceReport
  <2>1. used'.idx = (used.idx + 1) % IdxMod /\ seen' = (seen + 1) % IdxMod
    BY <1>2 DEF DeviceReport
  <2>2. used.idx = used_idx /\ seen = used_idx
    BY <1>2 DEF DeviceReport
  <2>. QED
    BY <1>2, <2>1, <2>2, NextIndex DEF DeviceReport
<1>. QED
  BY <1>1, <1>2

LEMMA InterruptKeepsInvariant ==
  ASSUME Invariant, TakeInterrupt
  PROVE  Invariant'
<1>1. CASE inner # None
  BY <1>1, VirtioAssumption
  DEF Invariant, Types, LockInvariant, BootInvariant, RingsInStep, AllHandled, OneUnderWay, device,
      TakeInterrupt, Live
<1>2. CASE inner = None
  <2>1. used.idx = used_idx
    BY <1>2 DEF Invariant, RingsInStep, AllHandled
  <2>2. (used.idx + IdxMod - used_idx) % IdxMod = 0
    <3>1. used_idx \in Nat /\ IdxMod \in Nat /\ IdxMod > 0
      BY VirtioAssumption DEF Invariant, Types, Idx
    <3>2. used.idx + IdxMod - used_idx = IdxMod
      BY <2>1, <3>1
    <3>. QED
      BY <3>1, <3>2
  <2>3. Unhandled = {}
    BY <2>2 DEF Unhandled, Ring
  <2>4. used_idx' = used_idx /\ done' = done
    BY <1>2, <2>1, <2>3 DEF TakeInterrupt
  <2>. QED
    BY <1>2, <2>4, VirtioAssumption
    DEF Invariant, Types, LockInvariant, BootInvariant, RingsInStep, AllHandled, OneUnderWay, device,
        TakeInterrupt, Live
<1>. QED
  BY <1>1, <1>2

\* The rings, the lock and the registers stay in step, whatever the threads, the device
\* and the interrupts do.
THEOREM DriverInvariant == Spec => []Invariant
<1>1. Invariant /\ [Next]_vars => Invariant'
  <2>. SUFFICES ASSUME Invariant, [Next]_vars PROVE Invariant'
    OBVIOUS
  <2>1. CASE UNCHANGED vars
    BY <2>1
    DEF vars, device, driver, Invariant, Types, LockInvariant, BootInvariant, RingsInStep, AllHandled,
        OneUnderWay, Live
  <2>2. CASE Next
    BY <2>1, <2>2, BootKeepsInvariant, CallerKeepsInvariant, CompleteKeepsInvariant,
       DeviceKeepsInvariant, InterruptKeepsInvariant
    DEF Next, Thread, Poll
  <2>. QED
    BY <2>1, <2>2
<1>. QED
  BY InitInvariant, <1>1, PTL DEF Spec

\* The interrupt handler never finds a completion that `send` has not consumed.
THEOREM RingsStayInStep == Spec => []RingsInStep
<1>1. Invariant => RingsInStep
  BY DEF Invariant
<1>. QED
  BY <1>1, DriverInvariant, PTL

\* The memory the descriptors point to is alive for as long as the device may use it.
THEOREM RequestStaysAlive == Spec => []RequestAlive
<1>1. Invariant => RequestAlive
  BY VirtioAssumption
  DEF Invariant, Types, LockInvariant, RingsInStep, AllHandled, OneUnderWay, RequestAlive, NoRequest
<1>. QED
  BY <1>1, DriverInvariant, PTL

\* A device that looks at its rings after the reset looks at the driver's.
THEOREM DeviceUsesDriverRings == Spec => []LiveOnDriverRings
<1>1. Invariant => LiveOnDriverRings
  BY VirtioAssumption
  DEF Invariant, Types, LockInvariant, BootInvariant, RingsInStep, AllHandled, LiveOnDriverRings, Live,
      NoRequest
<1>. QED
  BY <1>1, DriverInvariant, PTL

-----------------------------------------------------------------------------
(* The driver and the device implement BlockDevice.                        *)

\* The chain says what its owner has called for, and its status byte is 0 only from the
\* moment the device has served it.
CallInvariant ==
  /\ call \in [Threads -> Calls \cup {None}]
  /\ outcome \in [Threads -> {None, "Ok", "InvalidBufferSize", "OutOfCapacity"}]
  /\ \A t \in Threads : pc[t] # "idle" => call[t] \in Calls
  /\ \A t \in Threads :
       inner = t => /\ chain.op = call[t].op /\ chain.block = call[t].block
                    /\ pc[t] = "built" => chain.status # 0
                    /\ (seen # avail.idx /\ devpc = "idle") => chain.status # 0

LEMMA InitCallInvariant == Init => CallInvariant
  BY VirtioAssumption DEF Init, CallInvariant

LEMMA CallInvariantStep ==
  ASSUME Invariant, CallInvariant, [Next]_vars
  PROVE  CallInvariant'
<1>. USE VirtioAssumption
     DEF CallInvariant, Invariant, Types, LockInvariant, RingsInStep, AllHandled, OneUnderWay
<1>1. CASE UNCHANGED vars
  BY <1>1 DEF vars, driver, device
<1>2. CASE InitDevice
  BY <1>2 DEF InitDevice, Probe, Reset, SetQueue, SetReady, SetDriverOk, BootStep, driver
<1>3. ASSUME NEW t \in Threads, NEW op \in {"Read", "Write"}, NEW b \in Blocks, NEW v \in Values,
             NEW whole \in BOOLEAN, Call(t, op, b, v, whole)
      PROVE  CallInvariant'
  <2>1. [op |-> op, block |-> b, whole |-> whole] \in Calls
    BY DEF Calls
  <2>. QED
    BY <1>3, <2>1 DEF Call, device, HartRuns
<1>4. ASSUME NEW t \in Threads, RefuseLength(t) \/ RefuseCapacity(t)
      PROVE  CallInvariant'
  BY <1>4 DEF RefuseLength, RefuseCapacity, Return, device, HartRuns
<1>5. ASSUME NEW t \in Threads, Build(t)
      PROVE  CallInvariant'
  BY <1>5 DEF Build, device, HartRuns
<1>6. ASSUME NEW t \in Threads, Publish(t)
      PROVE  CallInvariant'
  BY <1>6, NextIndex DEF Publish, Posted, device, HartRuns
<1>7. ASSUME NEW t \in Threads, Complete(t)
      PROVE  CallInvariant'
  BY <1>7 DEF Complete, Polled, Return, device, HartRuns
<1>8. CASE DeviceServe
  <2>1. PICK s \in {0, 1} : chain' = [chain EXCEPT !.status = s]
    BY <1>8 DEF DeviceServe
  <2>2. chain'.op = chain.op /\ chain'.block = chain.block
    BY <2>1
  <2>. QED
    BY <1>8, <2>2, DeviceKeepsInvariant DEF DeviceServe, device
<1>9. CASE DeviceReport
  <2>1. used'.idx = (used.idx + 1) % IdxMod /\ seen' = (seen + 1) % IdxMod
    BY <1>9 DEF DeviceReport
  <2>2. seen' = avail.idx
    BY <1>9, <2>1 DEF DeviceReport
  <2>. QED
    BY <1>9, <2>2 DEF DeviceReport, driver, device
<1>10. CASE TakeInterrupt
  BY <1>10 DEF TakeInterrupt, device
<1>. HIDE DEF CallInvariant, Invariant, Types, LockInvariant, RingsInStep, AllHandled, OneUnderWay
<1>. QED
  BY <1>1, <1>2, <1>3, <1>4, <1>5, <1>6, <1>7, <1>8, <1>9, <1>10 DEF Next, Thread, Poll

\* Every step is a step of BlockDevice or leaves its variables alone: a call is an Ask, a
\* chain that is served without an error a Serve, a return an Answer.
LEMMA StepRefines ==
  ASSUME Invariant, CallInvariant, [Next]_vars
  PROVE  [Device!DeviceNext]_(Device!deviceVars)
<1>. DEFINE Same(t) == /\ Phase(t)' = Phase(t) /\ AbstractCall(t)' = AbstractCall(t)
                       /\ AbstractOutcome(t)' = AbstractOutcome(t)
<1>1. ASSUME \A t \in Threads : Same(t), UNCHANGED <<disk, buf>>
      PROVE  UNCHANGED Device!deviceVars
  BY <1>1 DEF Device!deviceVars
<1>. HIDE DEF Same
<1>2. ASSUME UNCHANGED <<pc, call, outcome, chain>>
      PROVE  \A t \in Threads : Same(t)
  BY <1>2 DEF Same, Phase, AbstractCall, AbstractOutcome
<1>3. CASE UNCHANGED vars \/ InitDevice \/ DeviceReport \/ TakeInterrupt \/ \E t \in Threads : Poll(t)
  <2>1. UNCHANGED <<pc, call, outcome, chain, disk, buf>>
    BY <1>3 DEF vars, driver, device, InitDevice, Probe, Reset, SetQueue, SetReady, SetDriverOk,
                BootStep, DeviceReport, TakeInterrupt, Poll
  <2>. QED
    BY <1>1, <1>2, <2>1
<1>4. ASSUME NEW t \in Threads, NEW op \in {"Read", "Write"}, NEW b \in Blocks, NEW v \in Values,
             NEW whole \in BOOLEAN, Call(t, op, b, v, whole)
      PROVE  Device!Ask(t, op, b, v)
  <2>1. /\ pc[t] = "idle" /\ pc' = [pc EXCEPT ![t] = "called"]
        /\ call' = [call EXCEPT ![t] = [op |-> op, block |-> b, whole |-> whole]]
        /\ buf' = [buf EXCEPT ![t] = v] /\ outcome' = [outcome EXCEPT ![t] = None]
        /\ UNCHANGED <<chain, disk>>
    BY <1>4 DEF Call
  <2>2. [op |-> op, block |-> b, whole |-> whole] # None
    BY NoneAssumption
  <2>3. Phase(t) = "idle" /\ Phase(t)' = "asked"
    BY <2>1 DEF Phase, Invariant, Types
  <2>4. AbstractCall(t)' = [op |-> op, block |-> b]
    BY <2>1, <2>2 DEF AbstractCall, CallInvariant
  <2>5. AbstractOutcome(t)' = None
    BY <2>1, NoneAssumption DEF AbstractOutcome, CallInvariant
  <2>6. \A u \in Threads \ {t} : /\ Phase(u)' = Phase(u) /\ AbstractCall(u)' = AbstractCall(u)
                                /\ AbstractOutcome(u)' = AbstractOutcome(u)
    BY <2>1 DEF Phase, AbstractCall, AbstractOutcome, Invariant, Types, CallInvariant
  <2>. QED
    BY <2>1, <2>3, <2>4, <2>5, <2>6 DEF Device!Ask
<1>5. ASSUME NEW t \in Threads, NEW result \in {"Ok", "InvalidBufferSize", "OutOfCapacity"},
             Return(t, result), pc[t] # "idle", Phase(t) = "served" <=> result = "Ok",
             UNCHANGED <<disk, buf>>,
             \A u \in Threads \ {t} : Phase(u)' = Phase(u)
      PROVE  Device!Answer(t)
  <2>1. Phase(t) \in {"asked", "served"} /\ Phase(t)' = "idle"
    BY <1>5 DEF Phase, Return, Invariant, Types
  <2>2. AbstractCall(t)' = None
    BY <1>5 DEF AbstractCall, Return, CallInvariant
  <2>3. AbstractOutcome(t)' = IF Phase(t) = "served" THEN "Ok" ELSE "Err"
    BY <1>5, NoneAssumption DEF AbstractOutcome, Return, CallInvariant
  <2>4. \A u \in Threads \ {t} : /\ AbstractCall(u)' = AbstractCall(u)
                                /\ AbstractOutcome(u)' = AbstractOutcome(u)
    BY <1>5 DEF AbstractCall, AbstractOutcome, Return, CallInvariant
  <2>. QED
    BY <1>5, <2>1, <2>2, <2>3, <2>4 DEF Device!Answer
<1>6. ASSUME NEW t \in Threads, RefuseLength(t) \/ RefuseCapacity(t)
      PROVE  Device!Answer(t)
  <2>1. /\ pc[t] = "called" /\ UNCHANGED <<disk, buf, chain>>
        /\ Return(t, "InvalidBufferSize") \/ Return(t, "OutOfCapacity")
    BY <1>6 DEF RefuseLength, RefuseCapacity
  <2>2. Phase(t) = "asked"
    BY <2>1 DEF Phase
  <2>3. \A u \in Threads \ {t} : Phase(u)' = Phase(u)
    BY <2>1 DEF Phase, Return, Invariant, Types
  <2>. QED
    BY <1>5, <2>1, <2>2, <2>3
<1>7. ASSUME NEW t \in Threads, Build(t) \/ Publish(t)
      PROVE  UNCHANGED Device!deviceVars
  <2>1. /\ pc[t] \in {"called", "built"} /\ UNCHANGED <<disk, buf, call, outcome>>
        /\ pc' = [pc EXCEPT ![t] = pc'[t]] /\ pc'[t] \in {"built", "waiting"}
    BY <1>7 DEF Build, Publish, Invariant, Types
  <2>2. Phase(t) = "asked" /\ Phase(t)' = "asked"
    BY <1>7, VirtioAssumption
    DEF Phase, Build, Publish, Invariant, Types, LockInvariant, CallInvariant
  <2>3. \A u \in Threads \ {t} : pc[u] # "waiting" /\ pc'[u] = pc[u]
    BY <1>7, <2>1, VirtioAssumption DEF Build, Publish, Invariant, Types, LockInvariant
  <2>4. \A u \in Threads \ {t} : Phase(u)' = Phase(u)
    BY <2>3 DEF Phase
  <2>5. \A u \in Threads : Same(u)
    BY <2>1, <2>2, <2>4 DEF Same, AbstractCall, AbstractOutcome
  <2>. QED
    BY <1>1, <2>1, <2>5
<1>8. ASSUME NEW t \in Threads, Complete(t)
      PROVE  Device!Answer(t) \/ UNCHANGED Device!deviceVars
  <2>1. CASE chain.status = 0
    <3>1. Return(t, "Ok") /\ pc[t] = "waiting" /\ UNCHANGED <<disk, buf>>
      BY <1>8, <2>1 DEF Complete
    <3>2. inner = t /\ chain.owner = t
      BY <3>1, VirtioAssumption DEF Invariant, LockInvariant
    <3>3. Phase(t) = "served"
      BY <2>1, <3>1, <3>2 DEF Phase
    <3>4. \A u \in Threads \ {t} : pc[u] # "waiting" /\ pc'[u] = pc[u]
      BY <3>1, <3>2, VirtioAssumption DEF Return, Invariant, Types, LockInvariant
    <3>5. \A u \in Threads \ {t} : Phase(u)' = Phase(u)
      BY <3>4 DEF Phase
    <3>. QED
      BY <1>5, <3>1, <3>3, <3>5
  <2>2. CASE chain.status # 0
    BY <1>1, <1>2, <1>8, <2>2 DEF Complete
  <2>. QED
    BY <2>1, <2>2
<1>9. CASE DeviceServe
  <2>1. PICK t \in Threads : inner = t
    BY <1>9 DEF DeviceServe, Invariant, Types, LockInvariant, BootInvariant, RingsInStep, AllHandled
  <2>2. pc[t] = "waiting" /\ chain.owner = t /\ chain.status # 0
    BY <1>9, <2>1, VirtioAssumption
    DEF DeviceServe, Invariant, Types, LockInvariant, RingsInStep, AllHandled, BootInvariant, CallInvariant
  <2>3. /\ UNCHANGED <<pc, call, outcome>> /\ call[t] \in Calls /\ call[t] # None
        /\ chain.op = call[t].op /\ chain.block = call[t].block
    BY <1>9, <2>1, <2>2, NoneAssumption DEF DeviceServe, CallInvariant, Calls
  <2>4. Phase(t) = "asked"
    BY <2>2 DEF Phase
  <2>5. AbstractCall(t).op = chain.op /\ AbstractCall(t).block = chain.block
    BY <2>3 DEF AbstractCall
  <2>6. \A u \in Threads : AbstractCall(u)' = AbstractCall(u) /\ AbstractOutcome(u)' = AbstractOutcome(u)
    BY <2>3 DEF AbstractCall, AbstractOutcome
  <2>7. \A u \in Threads \ {t} : pc[u] # "waiting"
    BY <2>1, VirtioAssumption DEF Invariant, LockInvariant
  <2>8. \A u \in Threads \ {t} : Phase(u)' = Phase(u)
    BY <2>3, <2>7 DEF Phase
  <2>9. CASE chain' = [chain EXCEPT !.status = 1] /\ UNCHANGED <<buf, disk>>
    <3>1. chain'.status = 1
      BY <2>9 DEF Invariant, Types
    <3>2. Phase(t)' = "asked"
      BY <2>2, <2>3, <3>1 DEF Phase
    <3>3. \A u \in Threads : Same(u)
      BY <2>4, <2>6, <2>8, <3>2 DEF Same
    <3>. QED
      BY <1>1, <2>9, <3>3
  <2>10. CASE /\ chain' = [chain EXCEPT !.status = 0]
              /\ \/ /\ chain.op = "Read" /\ buf' = [buf EXCEPT ![chain.owner] = disk[chain.block]]
                    /\ UNCHANGED disk
                 \/ /\ chain.op = "Write" /\ disk' = [disk EXCEPT ![chain.block] = buf[chain.owner]]
                    /\ UNCHANGED buf
    <3>1. chain'.status = 0 /\ chain'.owner = t
      BY <2>2, <2>10 DEF Invariant, Types
    <3>2. Phase(t)' = "served"
      BY <2>2, <2>3, <3>1 DEF Phase
    <3>3. Device!Serve(t)
      BY <2>2, <2>4, <2>5, <2>6, <2>8, <2>10, <3>2 DEF Device!Serve
    <3>. QED
      BY <3>3 DEF Device!DeviceNext
  <2>. QED
    BY <1>9, <2>9, <2>10 DEF DeviceServe
<1>. QED
  BY <1>3, <1>4, <1>6, <1>7, <1>8, <1>9 DEF Next, Thread, Device!DeviceNext

\* The driver and the device implement the BlockDevice trait: data moves at one moment
\* between the call and its return, and Ok is returned only after it has moved.
THEOREM DriverImplementsDevice == Spec => ImplementsDevice
<1>1. Init => Device!DeviceInit
  BY NoneAssumption DEF Init, Device!DeviceInit, Phase, AbstractCall, AbstractOutcome
<1>2. CallInvariant /\ Invariant /\ [Next]_vars => CallInvariant'
  BY CallInvariantStep
<1>3. Invariant /\ CallInvariant /\ [Next]_vars => [Device!DeviceNext]_(Device!deviceVars)
  BY StepRefines
<1>. QED
  BY <1>1, <1>2, <1>3, InitCallInvariant, DriverInvariant, PTL
  DEF Spec, ImplementsDevice, Device!DeviceSpec
=============================================================================
