-------------------------- MODULE BlockCacheProofs --------------------------
(***************************************************************************)
(* Proofs about BlockCache, for any number of threads, blocks and buffers. *)
(***************************************************************************)
EXTENDS BlockCache, FiniteSetTheorems, TLAPS

-----------------------------------------------------------------------------
(* Removing an entry of the buffer.                                        *)

\* A sequence without its i-th element.
LEMMA CutProperties ==
  ASSUME NEW S, NEW s \in Seq(S), NEW i \in 1..Len(s)
  PROVE  /\ (SubSeq(s, 1, i - 1) \o SubSeq(s, i + 1, Len(s))) \in Seq(S)
         /\ Len((SubSeq(s, 1, i - 1) \o SubSeq(s, i + 1, Len(s)))) = Len(s) - 1
         /\ \A j \in 1..(Len(s) - 1) :
              (SubSeq(s, 1, i - 1) \o SubSeq(s, i + 1, Len(s)))[j] = IF j < i THEN s[j] ELSE s[j + 1]
<1>. DEFINE front == SubSeq(s, 1, i - 1)
            back  == SubSeq(s, i + 1, Len(s))
<1>1. /\ front \in Seq(S)
      /\ Len(front) = i - 1
      /\ \A j \in 1..(i - 1) : front[j] = s[j]
  OBVIOUS
<1>2. /\ back \in Seq(S)
      /\ Len(back) = Len(s) - i
      /\ \A j \in 1..(Len(s) - i) : back[j] = s[i + j]
  OBVIOUS
<1>3. SubSeq(s, 1, i - 1) \o SubSeq(s, i + 1, Len(s)) = front \o back
  OBVIOUS
<1>. HIDE DEF front, back
<1>4. front \o back \in Seq(S) /\ Len(front \o back) = Len(s) - 1
  BY <1>1, <1>2
<1>5. ASSUME NEW j \in 1..(Len(s) - 1)
      PROVE  (front \o back)[j] = IF j < i THEN s[j] ELSE s[j + 1]
  <2>1. CASE j < i
    BY <1>1, <1>2, <2>1
  <2>2. CASE ~(j < i)
    <3>1. (front \o back)[j] = back[j - (i - 1)]
      BY <1>1, <1>2, <2>2
    <3>2. j - (i - 1) \in 1..(Len(s) - i) /\ i + (j - (i - 1)) = j + 1
      BY <2>2
    <3>. QED
      BY <1>2, <2>2, <3>1, <3>2
  <2>. QED
    BY <2>1, <2>2
<1>. QED
  BY <1>3, <1>4, <1>5

\* What VecDeque::remove leaves: every other entry, in the same order.
LEMMA WithoutProperties ==
  ASSUME buffer \in Seq(Objs), NEW i \in 1..Len(buffer)
  PROVE  /\ Without(i) \in Seq(Objs)
         /\ Len(Without(i)) = Len(buffer) - 1
         /\ \A j \in 1..(Len(buffer) - 1) :
              Without(i)[j] = IF j < i THEN buffer[j] ELSE buffer[j + 1]
  BY CutProperties DEF Without

-----------------------------------------------------------------------------
(* The inductive invariant.  OneCopyPerBlock is not inductive by itself:   *)
(* it rests on the strong count (an object a thread holds is still in the  *)
(* buffer), and a load may rely on the search made before the recycling    *)
(* only because the cache lock is held in between.                         *)

Holding(f) == pc[f] \in {"got", "locked", "index", "sync", "done", "drop"}
Using(f)   == pc[f] \in {"locked", "index", "sync", "done"}
InCache(f) == \/ pc[f] \in {"get", "load", "flush"}
              \/ Holding(f) /\ arg[f].mode = "stmt"

\* The buffer owns exactly the live objects, each of them once.
BufferInv ==
  /\ \A i \in DOMAIN buffer : heap[buffer[i]] # None
  /\ \A o \in Objs : heap[o] # None => \E i \in DOMAIN buffer : buffer[i] = o
  /\ \A i, j \in DOMAIN buffer : buffer[i] = buffer[j] => i = j

\* Where a frame is determines what it holds; set_bid makes "stmt" accesses only.
ThreadOK(f) ==
  /\ handle[f] # None <=> Holding(f)
  /\ Holding(f) => /\ arg[f] \in Access
                   /\ handle[f] \in Objs
                   /\ heap[handle[f]] # None
                   /\ heap[handle[f]].block_id = arg[f].block
  /\ pc[f] \in {"get", "load"} => arg[f] \in Access
  /\ pc[f] \in {"idle", "enter", "flush"} => arg[f] = None
  /\ f \notin Operations /\ arg[f] \in Access => arg[f].mode = "stmt"
  /\ pc[f] = "load" => /\ Len(buffer) < Capacity
                       /\ \A o \in Objs : heap[o] # None =>
                            heap[o].block_id # arg[f].block
  /\ InCache(f) => cache_lock = f
  /\ Using(f) => block_lock[handle[f]] = f

ThreadInv == \A f \in Frames : ThreadOK(f)

IInv == TypeOK /\ BufferInv /\ ThreadInv /\ OneCopyPerBlock /\ CleanIsOnDisk

\* Initially nothing is cached and no thread holds anything.
LEMMA InitIInv == Init => IInv
<1>. SUFFICES ASSUME Init PROVE IInv
  OBVIOUS
<1>1. TypeOK
  BY CacheAssumption DEF Init, TypeOK, PCs
<1>2. BufferInv
  BY DEF Init, BufferInv
<1>3. ThreadInv
  BY CacheAssumption DEF Init, ThreadInv, ThreadOK, Holding, Using, InCache
<1>4. OneCopyPerBlock /\ CleanIsOnDisk
  BY DEF Init, OneCopyPerBlock, CleanIsOnDisk
<1>. QED
  BY <1>1, <1>2, <1>3, <1>4 DEF IInv

\* The search of get covers every live object: the buffer owns them all.
LEMMA MissMeansNotCached ==
  ASSUME IInv, NEW b \in Blocks, Found(b) = {}
  PROVE  \A o \in Objs : heap[o] # None => heap[o].block_id # b
  BY DEF IInv, BufferInv, Found

\* A frame that a step leaves where it is, with what it holds and the locks it
\* relies on, stays in order.
LEMMA ThreadKept ==
  ASSUME NEW u \in Frames, ThreadOK(u),
         pc'[u] = pc[u] /\ arg'[u] = arg[u] /\ handle'[u] = handle[u],
         Holding(u) => /\ heap'[handle[u]] # None
                       /\ heap'[handle[u]].block_id = heap[handle[u]].block_id,
         pc[u] = "load" => /\ Len(buffer') = Len(buffer)
                           /\ \A o \in Objs : heap'[o] # None =>
                                heap[o] # None /\ heap'[o].block_id = heap[o].block_id,
         InCache(u) => cache_lock' = cache_lock,
         Using(u) => block_lock'[handle[u]] = block_lock[handle[u]]
  PROVE  ThreadOK(u)'
BY DEF ThreadOK, Holding, Using, InCache

-----------------------------------------------------------------------------
(* Steps that change neither the heap, the buffer nor the disk.            *)

\* Taking the cache lock: nobody is inside the cache.
LEMMA LockCacheIInv ==
  ASSUME IInv, NEW f \in Operations, NEW b \in Blocks, NEW m \in Modes, LockCache(f, b, m), UNCHANGED kernel
  PROVE  IInv'
<1>. USE DEF LockCache, Goto
<1>0. f \in Frames
  BY DEF Frames
<1>1. TypeOK'
  BY <1>0, CacheAssumption DEF IInv, TypeOK, PCs, ThreadInv, ThreadOK, Holding, Access
<1>2. BufferInv'
  BY DEF IInv, BufferInv
<1>3. ThreadInv'
  BY <1>0, CacheAssumption DEF IInv, TypeOK, ThreadInv, ThreadOK, Holding, Using, InCache, Access
<1>4. OneCopyPerBlock' /\ CleanIsOnDisk'
  BY DEF IInv, OneCopyPerBlock, CleanIsOnDisk
<1>. QED
  BY <1>1, <1>2, <1>3, <1>4 DEF IInv

\* set_bid is called in a thread that keeps what it holds.
LEMMA CallSetBidIInv ==
  ASSUME IInv, NEW t \in Threads, CallSetBid(t), UNCHANGED kernel
  PROVE  IInv'
<1>. DEFINE f == Operation(t)
            g == SetBid(t)
<1>0. f \in Frames /\ g \in Frames /\ f # g
  BY DEF Frames, Operations, Operation, SetBid
<1>1. /\ pc[f] = "locked" /\ pc[g] = "idle"
      /\ pc' = [pc EXCEPT ![f] = "index", ![g] = "enter"]
      /\ UNCHANGED <<disk, heap, buffer, cache_lock, block_lock, arg, handle, cursor, ret>>
  BY DEF CallSetBid
<1>. HIDE DEF f, g
<1>2. TypeOK'
  BY <1>0, <1>1 DEF IInv, TypeOK, PCs
<1>3. BufferInv'
  BY <1>1 DEF IInv, BufferInv
<1>4. ThreadInv'
  <2>. SUFFICES ASSUME NEW u \in Frames PROVE ThreadOK(u)'
    BY DEF ThreadInv
  <2>1. ThreadOK(u) /\ pc'[u] = IF u = f THEN "index" ELSE IF u = g THEN "enter" ELSE pc[u]
    BY <1>0, <1>1 DEF IInv, TypeOK, ThreadInv
  <2>. QED
    BY <1>0, <1>1, <2>1 DEF ThreadOK, Holding, Using, InCache
<1>5. OneCopyPerBlock' /\ CleanIsOnDisk'
  BY <1>1 DEF IInv, OneCopyPerBlock, CleanIsOnDisk
<1>. QED
  BY <1>2, <1>3, <1>4, <1>5 DEF IInv

\* set_bid takes the cache lock like any other access.
LEMMA LockCacheAgainIInv ==
  ASSUME IInv, NEW t \in Threads, LockCacheAgain(t), UNCHANGED kernel
  PROVE  IInv'
<1>. DEFINE g == SetBid(t)
            a == [block |-> IndexBlock, mode |-> "stmt"]
<1>0. g \in Frames /\ a \in Access /\ a.mode = "stmt"
  BY CacheAssumption DEF Frames, Access, Modes
<1>1. /\ cache_lock = None /\ pc[g] = "enter" /\ pc' = [pc EXCEPT ![g] = "get"]
      /\ cache_lock' = g /\ arg' = [arg EXCEPT ![g] = a]
      /\ UNCHANGED <<disk, heap, buffer, block_lock, handle, cursor, ret>>
  BY DEF LockCacheAgain, Goto
<1>. HIDE DEF g, a
<1>2. TypeOK'
  BY <1>0, <1>1 DEF IInv, TypeOK, PCs
<1>3. BufferInv'
  BY <1>1 DEF IInv, BufferInv
<1>4. ThreadInv'
  BY <1>0, <1>1, CacheAssumption DEF IInv, TypeOK, ThreadInv, ThreadOK, Holding, Using, InCache
<1>5. OneCopyPerBlock' /\ CleanIsOnDisk'
  BY <1>1 DEF IInv, OneCopyPerBlock, CleanIsOnDisk
<1>. QED
  BY <1>2, <1>3, <1>4, <1>5 DEF IInv

\* A miss with a free slot: the search result is remembered under the lock.
LEMMA HasRoomIInv ==
  ASSUME IInv, NEW f \in Frames, HasRoom(f), UNCHANGED kernel
  PROVE  IInv'
<1>. USE DEF HasRoom, Goto
<1>1. TypeOK'
  BY CacheAssumption DEF IInv, TypeOK, PCs, ThreadInv, ThreadOK, Holding, Access
<1>2. BufferInv'
  BY DEF IInv, BufferInv
<1>3. ThreadInv'
  <2>1. arg[f] \in Access
    BY DEF IInv, ThreadInv, ThreadOK
  <2>2. \A o \in Objs : heap[o] # None => heap[o].block_id # arg[f].block
    BY <2>1, MissMeansNotCached DEF Access
  <2>3. Len(buffer) < Capacity
    BY CacheAssumption DEF IInv, TypeOK
  <2>. QED
    BY <2>1, <2>2, <2>3 DEF IInv, TypeOK, ThreadInv, ThreadOK, Holding, Using, InCache, Access
<1>4. OneCopyPerBlock' /\ CleanIsOnDisk'
  BY DEF IInv, OneCopyPerBlock, CleanIsOnDisk
<1>. QED
  BY <1>1, <1>2, <1>3, <1>4 DEF IInv

\* Locking a block: its mutex was free, so no thread uses the block.
LEMMA LockBlockIInv ==
  ASSUME IInv, NEW f \in Frames, LockBlock(f), UNCHANGED kernel
  PROVE  IInv'
<1>. USE DEF LockBlock, Goto
<1>1. TypeOK'
  BY CacheAssumption DEF IInv, TypeOK, PCs, ThreadInv, ThreadOK, Holding, Access
<1>2. BufferInv'
  BY DEF IInv, BufferInv
<1>3. ThreadInv'
  BY CacheAssumption DEF IInv, TypeOK, ThreadInv, ThreadOK, Holding, Using, InCache, Access
<1>4. OneCopyPerBlock' /\ CleanIsOnDisk'
  BY DEF IInv, OneCopyPerBlock, CleanIsOnDisk
<1>. QED
  BY <1>1, <1>2, <1>3, <1>4 DEF IInv

\* Reading leaves the cache as it is.
LEMMA ReadIInv ==
  ASSUME IInv, NEW f \in Frames, Read(f), UNCHANGED kernel
  PROVE  IInv'
<1>. USE DEF Read, Goto
<1>1. TypeOK'
  <2>1. heap[handle[f]].cache \in Values
    BY DEF IInv, TypeOK, ThreadInv, ThreadOK, Holding, BlockCacheObject
  <2>. QED
    BY <2>1 DEF IInv, TypeOK, PCs
<1>2. BufferInv'
  BY DEF IInv, BufferInv
<1>3. ThreadInv'
  BY CacheAssumption DEF IInv, TypeOK, ThreadInv, ThreadOK, Holding, Using, InCache, Access
<1>4. OneCopyPerBlock' /\ CleanIsOnDisk'
  BY DEF IInv, OneCopyPerBlock, CleanIsOnDisk
<1>. QED
  BY <1>1, <1>2, <1>3, <1>4 DEF IInv

\* Unlocking a block: only the thread that held its mutex was using it.
LEMMA UnlockBlockIInv ==
  ASSUME IInv, NEW f \in Frames, UnlockBlock(f), UNCHANGED kernel
  PROVE  IInv'
<1>. USE DEF UnlockBlock, Goto
<1>1. TypeOK'
  BY CacheAssumption DEF IInv, TypeOK, PCs, ThreadInv, ThreadOK, Holding, Access
<1>2. BufferInv'
  BY DEF IInv, BufferInv
<1>3. ThreadInv'
  BY CacheAssumption DEF IInv, TypeOK, ThreadInv, ThreadOK, Holding, Using, InCache, Access
<1>4. OneCopyPerBlock' /\ CleanIsOnDisk'
  BY DEF IInv, OneCopyPerBlock, CleanIsOnDisk
<1>. QED
  BY <1>1, <1>2, <1>3, <1>4 DEF IInv

\* flush takes the cache lock.
LEMMA FlushBeginIInv ==
  ASSUME IInv, NEW f \in Frames, FlushBegin(f), UNCHANGED kernel
  PROVE  IInv'
<1>. USE DEF FlushBegin, Goto
<1>1. TypeOK'
  BY CacheAssumption DEF IInv, TypeOK, PCs, ThreadInv, ThreadOK, Holding, Access
<1>2. BufferInv'
  BY DEF IInv, BufferInv
<1>3. ThreadInv'
  BY CacheAssumption DEF IInv, TypeOK, ThreadInv, ThreadOK, Holding, Using, InCache, Access
<1>4. OneCopyPerBlock' /\ CleanIsOnDisk'
  BY DEF IInv, OneCopyPerBlock, CleanIsOnDisk
<1>. QED
  BY <1>1, <1>2, <1>3, <1>4 DEF IInv

\* flush releases the cache lock.
LEMMA FlushEndIInv ==
  ASSUME IInv, NEW f \in Frames, FlushEnd(f), UNCHANGED kernel
  PROVE  IInv'
<1>. USE DEF FlushEnd, Goto
<1>1. TypeOK'
  BY CacheAssumption DEF IInv, TypeOK, PCs, ThreadInv, ThreadOK, Holding, Access
<1>2. BufferInv'
  BY DEF IInv, BufferInv
<1>3. ThreadInv'
  BY CacheAssumption DEF IInv, TypeOK, ThreadInv, ThreadOK, Holding, Using, InCache, Access
<1>4. OneCopyPerBlock' /\ CleanIsOnDisk'
  BY DEF IInv, OneCopyPerBlock, CleanIsOnDisk
<1>. QED
  BY <1>1, <1>2, <1>3, <1>4 DEF IInv

\* A hit hands out an object the buffer owns, for the block asked for.
LEMMA HitIInv ==
  ASSUME IInv, NEW f \in Frames, Hit(f), UNCHANGED kernel
  PROVE  IInv'
<1>. PICK i \in DOMAIN buffer : heap[buffer[i]].block_id = arg[f].block /\ Return(f, buffer[i])
  BY DEF Hit, Found
<1>. USE DEF Hit, Return
<1>0. buffer[i] \in Objs /\ buffer[i] # None /\ heap[buffer[i]] # None
  BY CacheAssumption DEF IInv, TypeOK, BufferInv
<1>1. TypeOK'
  BY <1>0 DEF IInv, TypeOK, PCs
<1>2. BufferInv'
  BY DEF IInv, BufferInv
<1>3. ThreadInv'
  BY <1>0, CacheAssumption DEF IInv, TypeOK, ThreadInv, ThreadOK, Holding, Using, InCache, Access
<1>4. OneCopyPerBlock' /\ CleanIsOnDisk'
  BY DEF IInv, OneCopyPerBlock, CleanIsOnDisk
<1>. QED
  BY <1>1, <1>2, <1>3, <1>4 DEF IInv

-----------------------------------------------------------------------------
(* Steps that change the content of one object.                            *)

\* A write marks the object modified, so it may differ from the disk.
LEMMA WriteIInv ==
  ASSUME IInv, NEW f \in Frames, NEW v \in Values, Write(f, v), UNCHANGED kernel
  PROVE  IInv'
<1>. DEFINE h == handle[f]
<1>1. h \in Objs /\ heap[h] \in BlockCacheObject /\ heap[h] # None
  BY DEF Write, ClosureDone, IInv, TypeOK, ThreadInv, ThreadOK, Holding
<1>0. /\ UNCHANGED <<disk, buffer, cache_lock, block_lock, arg, handle, cursor, ret>>
      /\ pc[f] \in {"locked", "index"} /\ pc' = [pc EXCEPT ![f] = "done"]
  BY DEF Write, ClosureDone
<1>2. /\ heap' \in [Objs -> BlockCacheObject \cup {None}]
      /\ heap'[h] \in BlockCacheObject
      /\ heap'[h].block_id = heap[h].block_id
      /\ heap'[h].modified
      /\ \A o \in Objs \ {h} : heap'[o] = heap[o]
  BY <1>1, CacheAssumption DEF IInv, TypeOK, BlockCacheObject, Write
<1>3. heap'[h] # None
  BY <1>2, CacheAssumption
<1>4. TypeOK'
  BY <1>0, <1>1, <1>2 DEF IInv, TypeOK, PCs
<1>5. BufferInv'
  BY <1>0, <1>1, <1>2, <1>3 DEF IInv, TypeOK, BufferInv
<1>6. ThreadInv'
  <2>1. \A o \in Objs : heap[o] # None =>
          heap'[o] # None /\ heap'[o].block_id = heap[o].block_id
    BY <1>2, <1>3
  <2>2. \A o \in Objs : heap'[o] # None => heap[o] # None
    BY <1>1, <1>2
  <2>3. ASSUME NEW u \in Frames PROVE ThreadOK(u)'
    <3>1. ThreadOK(u) /\ Holding(f)
      BY <1>0 DEF IInv, ThreadInv, Holding
    <3>2. UNCHANGED <<Holding(u), Using(u), InCache(u)>>
      <4>1. CASE u = f
        BY <1>0, <4>1 DEF IInv, TypeOK, Holding, Using, InCache
      <4>2. CASE u # f
        BY <1>0, <4>2 DEF IInv, TypeOK, Holding, Using, InCache
      <4>. QED
        BY <4>1, <4>2
    <3>3. pc'[u] # pc[u] => pc'[u] = "done" /\ u = f
      BY <1>0 DEF IInv, TypeOK
    <3>. QED
      BY <1>0, <2>1, <2>2, <3>1, <3>2, <3>3 DEF ThreadOK
  <2>. QED
    BY <2>3 DEF ThreadInv
<1>7. OneCopyPerBlock'
  BY <1>0, <1>1, <1>2, <1>3 DEF IInv, OneCopyPerBlock
<1>8. CleanIsOnDisk'
  BY <1>0, <1>1, <1>2 DEF IInv, CleanIsOnDisk
<1>. QED
  BY <1>4, <1>5, <1>6, <1>7, <1>8 DEF IInv

\* clear marks the object modified.
LEMMA ClearIInv ==
  ASSUME IInv, NEW f \in Frames, Clear(f), UNCHANGED kernel
  PROVE  IInv'
<1>. DEFINE h == handle[f]
<1>1. h \in Objs /\ heap[h] \in BlockCacheObject /\ heap[h] # None
  BY DEF Clear, Goto, IInv, TypeOK, ThreadInv, ThreadOK, Holding
<1>0. /\ UNCHANGED <<disk, buffer, cache_lock, block_lock, arg, handle, cursor, ret>>
      /\ pc[f] = "locked" /\ pc' = [pc EXCEPT ![f] = "sync"]
  BY DEF Clear, Goto
<1>2. /\ heap' \in [Objs -> BlockCacheObject \cup {None}]
      /\ heap'[h] \in BlockCacheObject
      /\ heap'[h].block_id = heap[h].block_id
      /\ heap'[h].modified
      /\ \A o \in Objs \ {h} : heap'[o] = heap[o]
  BY <1>1, CacheAssumption DEF IInv, TypeOK, BlockCacheObject, Clear
<1>3. heap'[h] # None
  BY <1>2, CacheAssumption
<1>4. TypeOK'
  BY <1>0, <1>1, <1>2 DEF IInv, TypeOK, PCs
<1>5. BufferInv'
  BY <1>0, <1>1, <1>2, <1>3 DEF IInv, TypeOK, BufferInv
<1>6. ThreadInv'
  BY <1>0, <1>1, <1>2, <1>3 DEF IInv, TypeOK, ThreadInv, ThreadOK, Holding, Using, InCache
<1>7. OneCopyPerBlock'
  BY <1>0, <1>1, <1>2, <1>3 DEF IInv, OneCopyPerBlock
<1>8. CleanIsOnDisk'
  BY <1>0, <1>1, <1>2 DEF IInv, CleanIsOnDisk
<1>. QED
  BY <1>4, <1>5, <1>6, <1>7, <1>8 DEF IInv

\* sync writes the block before the object counts as clean; no other object is for that block.
LEMMA SyncIInv ==
  ASSUME IInv, NEW f \in Frames, Sync(f), UNCHANGED kernel
  PROVE  IInv'
<1>. DEFINE h == handle[f]
<1>. USE DEF Sync, Goto
<1>1. h \in Objs /\ heap[h] \in BlockCacheObject /\ heap[h] # None
  BY DEF IInv, TypeOK, ThreadInv, ThreadOK, Holding
<1>2. /\ heap' \in [Objs -> BlockCacheObject \cup {None}]
      /\ heap'[h] \in BlockCacheObject
      /\ heap'[h].block_id = heap[h].block_id
      /\ heap'[h].cache = heap[h].cache
      /\ \A o \in Objs \ {h} : heap'[o] = heap[o]
  BY <1>1, CacheAssumption DEF IInv, TypeOK, BlockCacheObject
<1>3. heap'[h] # None
  BY <1>2, CacheAssumption
<1>4. TypeOK'
  BY <1>1, <1>2 DEF IInv, TypeOK, PCs, Synced, BlockCacheObject
<1>5. BufferInv'
  BY <1>1, <1>2, <1>3 DEF IInv, TypeOK, BufferInv
<1>6. ThreadInv'
  BY <1>1, <1>2, <1>3 DEF IInv, TypeOK, ThreadInv, ThreadOK, Holding, Using, InCache
<1>7. OneCopyPerBlock'
  BY <1>1, <1>2, <1>3 DEF IInv, OneCopyPerBlock
<1>8. CleanIsOnDisk'
  BY <1>1, <1>2 DEF IInv, TypeOK, CleanIsOnDisk, OneCopyPerBlock, Synced, BlockCacheObject
<1>. QED
  BY <1>4, <1>5, <1>6, <1>7, <1>8 DEF IInv

\* flush syncs an entry of the buffer in the same way.
LEMMA FlushEntryIInv ==
  ASSUME IInv, NEW f \in Frames, FlushEntry(f), UNCHANGED kernel
  PROVE  IInv'
<1>. DEFINE h == buffer[cursor]
<1>. USE DEF FlushEntry
<1>1. h \in Objs /\ heap[h] \in BlockCacheObject /\ heap[h] # None
  BY DEF IInv, TypeOK, BufferInv
<1>2. /\ heap' \in [Objs -> BlockCacheObject \cup {None}]
      /\ heap'[h] \in BlockCacheObject
      /\ heap'[h].block_id = heap[h].block_id
      /\ heap'[h].cache = heap[h].cache
      /\ \A o \in Objs \ {h} : heap'[o] = heap[o]
  BY <1>1, CacheAssumption DEF IInv, TypeOK, BlockCacheObject
<1>3. heap'[h] # None
  BY <1>2, CacheAssumption
<1>4. TypeOK'
  BY <1>1, <1>2 DEF IInv, TypeOK, PCs, Synced, BlockCacheObject
<1>5. BufferInv'
  BY <1>1, <1>2, <1>3 DEF IInv, TypeOK, BufferInv
<1>6. ThreadInv'
  <2>. SUFFICES ASSUME NEW u \in Frames PROVE ThreadOK(u)'
    BY DEF ThreadInv
  <2>1. ThreadOK(u)
    BY DEF IInv, ThreadInv
  <2>2. \A o \in Objs : /\ heap[o] # None <=> heap'[o] # None
                        /\ heap[o] # None => heap'[o].block_id = heap[o].block_id
    BY <1>1, <1>2, <1>3
  <2>3. Holding(u) => handle[u] \in Objs /\ heap[handle[u]] # None
    BY <2>1 DEF ThreadOK
  <2>. QED
    BY <2>1, <2>2, <2>3, ThreadKept
<1>7. OneCopyPerBlock'
  BY <1>1, <1>2, <1>3 DEF IInv, OneCopyPerBlock
<1>8. CleanIsOnDisk'
  <2>1. /\ heap[h].block_id \in Blocks /\ disk \in [Blocks -> Values]
        /\ \A o \in Objs \ {h} : heap[o] # None => heap[o].block_id # heap[h].block_id
    BY <1>1 DEF IInv, TypeOK, OneCopyPerBlock, BlockCacheObject
  <2>2. /\ \A b \in Blocks : b # heap[h].block_id => disk'[b] = disk[b]
        /\ disk'[heap[h].block_id] = IF heap[h].modified /\ heap[h].block_id \notin Refused
                                     THEN heap[h].cache ELSE disk[heap[h].block_id]
    BY <2>1 DEF Synced
  <2>3. CleanIsOnDisk
    BY DEF IInv
  <2>4. /\ heap'[h].modified = FALSE
        /\ \A o \in Objs \ {h} : heap[o] # None => heap[o].block_id \in Blocks
    BY <1>1 DEF IInv, TypeOK, BlockCacheObject
  <2>. HIDE DEF h, FlushEntry
  <2>. SUFFICES ASSUME NEW o \in Objs, heap'[o] # None, ~heap'[o].modified,
                       heap'[o].block_id \notin Refused
                PROVE  heap'[o].cache = disk'[heap'[o].block_id]
    BY DEF CleanIsOnDisk
  <2>5. CASE o = h
    BY <1>1, <1>2, <2>2, <2>3, <2>5 DEF CleanIsOnDisk
  <2>6. CASE o # h
    BY <1>2, <2>1, <2>2, <2>3, <2>4, <2>6 DEF CleanIsOnDisk
  <2>. QED
    BY <2>5, <2>6
<1>. QED
  BY <1>4, <1>5, <1>6, <1>7, <1>8 DEF IInv

-----------------------------------------------------------------------------
(* Steps that change which objects are cached.                             *)

\* A load adds the only copy of a block: the search found none, and the cache
\* lock has been held since.
LEMMA LoadIInv ==
  ASSUME IInv, NEW f \in Frames, Load(f), UNCHANGED kernel
  PROVE  IInv'
<1>. DEFINE new == [block_id |-> arg[f].block, cache |-> DeviceRead(arg[f].block), modified |-> FALSE]
<1>. PICK o \in Objs : /\ heap[o] = None
                       /\ heap' = [heap EXCEPT ![o] = new]
                       /\ buffer' = Append(buffer, o)
                       /\ Return(f, o)
  BY DEF Load
<1>1. /\ pc[f] = "load" /\ arg[f] \in Access /\ Len(buffer) < Capacity
      /\ \A p \in Objs : heap[p] # None => heap[p].block_id # arg[f].block
  BY DEF Load, IInv, ThreadInv, ThreadOK
<1>2. /\ UNCHANGED <<disk, block_lock, arg, cursor, ret>>
      /\ pc' = [pc EXCEPT ![f] = "got"]
      /\ handle' = [handle EXCEPT ![f] = o]
      /\ cache_lock' = IF arg[f].mode # "stmt" THEN None ELSE cache_lock
  BY DEF Load, Return
<1>3. new \in BlockCacheObject /\ new # None
  <2>1. DeviceRead(arg[f].block) \in Values /\ arg[f].block \in Blocks
    BY <1>1, CacheAssumption DEF IInv, TypeOK, Access, DeviceRead
  <2>2. new \in BlockCacheObject
    BY <2>1 DEF BlockCacheObject
  <2>. QED
    BY <2>2, CacheAssumption
<1>4. /\ heap' \in [Objs -> BlockCacheObject \cup {None}]
      /\ heap'[o] = new
      /\ \A p \in Objs \ {o} : heap'[p] = heap[p]
  BY <1>3 DEF IInv, TypeOK
<1>5. /\ new.block_id = arg[f].block /\ new.cache = DeviceRead(arg[f].block)
  OBVIOUS
<1>. HIDE DEF new
<1>6. TypeOK'
  BY <1>1, <1>2, <1>3, <1>4, CacheAssumption DEF IInv, TypeOK, PCs
<1>7. BufferInv'
  <2>1. /\ DOMAIN buffer = 1..Len(buffer) /\ DOMAIN buffer' = 1..(Len(buffer) + 1)
        /\ \A i \in 1..Len(buffer) : buffer'[i] = buffer[i] /\ buffer[i] \in Objs
        /\ buffer'[Len(buffer) + 1] = o
        /\ Len(buffer) \in Nat
    BY DEF IInv, TypeOK
  <2>2. \A i \in 1..Len(buffer) : buffer[i] # o /\ heap[buffer[i]] # None
    BY <2>1 DEF IInv, BufferInv
  <2>3. \A i \in DOMAIN buffer' : heap'[buffer'[i]] # None
    BY <1>3, <1>4, <2>1, <2>2
  <2>4. \A p \in Objs : heap'[p] # None => \E i \in DOMAIN buffer' : buffer'[i] = p
    BY <1>4, <2>1 DEF IInv, BufferInv
  <2>5. \A i, j \in DOMAIN buffer' : buffer'[i] = buffer'[j] => i = j
    BY <2>1, <2>2 DEF IInv, BufferInv
  <2>. QED
    BY <2>3, <2>4, <2>5 DEF BufferInv
<1>8. ThreadInv'
  <2>1. handle[f] = None /\ handle'[f] = o /\ o # None
    BY <1>1, <1>2, CacheAssumption DEF IInv, TypeOK, ThreadInv, ThreadOK, Holding
  <2>2. \A u \in Frames \ {f} : pc[u] # "load"
    BY <1>1 DEF IInv, ThreadInv, ThreadOK, InCache
  <2>3. cache_lock = f
    BY <1>1 DEF IInv, ThreadInv, ThreadOK, InCache
  <2>. SUFFICES ASSUME NEW u \in Frames PROVE ThreadOK(u)'
    BY DEF ThreadInv
  <2>4. ThreadOK(u)
    BY DEF IInv, ThreadInv
  <2>5. CASE u = f
    <3>1. pc'[f] = "got" /\ arg'[f] = arg[f] /\ heap'[o] # None /\ heap'[o].block_id = arg'[f].block
      BY <1>2, <1>3, <1>4, <1>5 DEF IInv, TypeOK
    <3>2. arg[f].mode = "stmt" => cache_lock' = f
      BY <1>2, <2>3
    <3>. QED
      BY <1>1, <2>1, <2>4, <2>5, <3>1, <3>2 DEF ThreadOK, Holding, Using, InCache
  <2>6. CASE u # f
    <3>1. pc'[u] = pc[u] /\ arg'[u] = arg[u] /\ handle'[u] = handle[u]
      BY <1>2, <2>6 DEF IInv, TypeOK
    <3>2. Holding(u) => handle[u] # o /\ handle[u] \in Objs
      BY <2>4 DEF ThreadOK
    <3>3. ~InCache(u) /\ pc[u] # "load"
      BY <2>2, <2>3, <2>4, <2>6 DEF ThreadOK
    <3>4. Holding(u) => heap'[handle[u]] = heap[handle[u]] /\ heap[handle[u]] # None
      BY <1>4, <2>4, <3>2 DEF ThreadOK
    <3>5. block_lock' = block_lock
      BY <1>2
    <3>. QED
      BY <2>4, <3>1, <3>3, <3>4, <3>5, ThreadKept
  <2>. QED
    BY <2>5, <2>6
<1>9. OneCopyPerBlock'
  BY <1>1, <1>2, <1>3, <1>4, <1>5 DEF IInv, OneCopyPerBlock
<1>10. CleanIsOnDisk'
  BY <1>1, <1>2, <1>3, <1>4, <1>5 DEF IInv, CleanIsOnDisk, DeviceRead
<1>. QED
  BY <1>6, <1>7, <1>8, <1>9, <1>10 DEF IInv

\* Recycling drops an object no thread holds, after writing it back.
LEMMA RecycleIInv ==
  ASSUME IInv, NEW f \in Frames, Recycle(f), UNCHANGED kernel
  PROVE  IInv'
<1>. PICK i \in Unused : DropArc(buffer[i]) /\ buffer' = Without(i)
  BY DEF Recycle
<1>. DEFINE h == buffer[i]
<1>1. /\ pc[f] = "get" /\ pc' = [pc EXCEPT ![f] = "load"]
      /\ Len(buffer) = Capacity
      /\ UNCHANGED <<cache_lock, block_lock, arg, handle, cursor, ret>>
  BY DEF Recycle, Goto
<1>2. /\ i \in 1..Len(buffer) /\ Len(buffer) \in Nat
      /\ DOMAIN buffer = 1..Len(buffer)
      /\ \A j \in 1..Len(buffer) : buffer[j] \in Objs
  BY DEF IInv, TypeOK, Unused
<1>3. /\ h \in Objs /\ heap[h] # None /\ heap[h] \in BlockCacheObject
      /\ \A u \in Frames : handle[u] # h
  <2>1. h \in Entries
    BY <1>2 DEF Entries
  <2>. QED
    BY <1>2, <2>1 DEF IInv, TypeOK, BufferInv, Unused, LastReference, Holders
<1>4. disk' = Synced(h) /\ heap' = [heap EXCEPT ![h] = None]
  BY DEF DropArc, Unused
<1>5. /\ heap' \in [Objs -> BlockCacheObject \cup {None}]
      /\ heap'[h] = None
      /\ \A o \in Objs \ {h} : heap'[o] = heap[o]
  BY <1>3, <1>4 DEF IInv, TypeOK
<1>6. /\ buffer' \in Seq(Objs) /\ Len(buffer') = Len(buffer) - 1
      /\ DOMAIN buffer' = 1..(Len(buffer) - 1)
      /\ \A j \in 1..(Len(buffer) - 1) :
           buffer'[j] = IF j < i THEN buffer[j] ELSE buffer[j + 1]
  <2>1. buffer \in Seq(Objs) /\ buffer' = Without(i)
    BY DEF IInv, TypeOK
  <2>2. /\ Without(i) \in Seq(Objs)
        /\ Len(Without(i)) = Len(buffer) - 1
        /\ \A j \in 1..(Len(buffer) - 1) :
             Without(i)[j] = IF j < i THEN buffer[j] ELSE buffer[j + 1]
    BY <1>2, <2>1, WithoutProperties
  <2>. QED
    BY <2>1, <2>2
<1>7. TypeOK'
  <2>1. disk' \in [Blocks -> Values]
    BY <1>3, <1>4 DEF IInv, TypeOK, Synced, BlockCacheObject
  <2>2. Len(buffer') <= Capacity
    BY <1>1, <1>2, <1>6
  <2>. QED
    BY <1>1, <1>5, <1>6, <2>1, <2>2 DEF IInv, TypeOK, PCs
<1>8. BufferInv'
  <2>1. \A j \in DOMAIN buffer : j # i => buffer[j] # h /\ heap[buffer[j]] # None
    BY <1>2 DEF IInv, BufferInv
  <2>2. ASSUME NEW j \in DOMAIN buffer'
        PROVE  buffer'[j] \in Objs \ {h} /\ heap[buffer'[j]] # None
    <3>. DEFINE k == IF j < i THEN j ELSE j + 1
    <3>1. k \in DOMAIN buffer /\ k # i /\ buffer'[j] = buffer[k]
      BY <1>2, <1>6, <2>2
    <3>. QED
      BY <1>2, <2>1, <3>1
  <2>3. \A o \in Objs : heap'[o] # None => \E j \in DOMAIN buffer' : buffer'[j] = o
    <3>. SUFFICES ASSUME NEW o \in Objs, heap'[o] # None
                  PROVE  \E j \in DOMAIN buffer' : buffer'[j] = o
      OBVIOUS
    <3>1. PICK j \in DOMAIN buffer : buffer[j] = o /\ j # i
      BY <1>5 DEF IInv, BufferInv
    <3>2. CASE j < i
      BY <1>2, <1>6, <3>1, <3>2
    <3>3. CASE ~(j < i)
      <4>1. j - 1 \in DOMAIN buffer' /\ ~(j - 1 < i) /\ (j - 1) + 1 = j
        BY <1>2, <1>6, <3>1, <3>3
      <4>. QED
        BY <1>6, <3>1, <4>1
    <3>. QED
      BY <3>2, <3>3
  <2>4. ASSUME NEW j \in DOMAIN buffer', NEW k \in DOMAIN buffer', buffer'[j] = buffer'[k]
        PROVE  j = k
    <3>. DEFINE at(x) == IF x < i THEN x ELSE x + 1
    <3>1. /\ at(j) \in DOMAIN buffer /\ buffer'[j] = buffer[at(j)]
          /\ at(k) \in DOMAIN buffer /\ buffer'[k] = buffer[at(k)]
          /\ j \in Nat /\ k \in Nat /\ i \in Nat
      BY <1>2, <1>6
    <3>2. at(j) = at(k)
      BY <2>4, <3>1, Zenon DEF IInv, BufferInv
    <3>. QED
      BY <3>1, <3>2
  <2>. QED
    BY <1>5, <2>2, <2>3, <2>4 DEF BufferInv
<1>9. ThreadInv'
  <2>1. arg[f] \in Access /\ cache_lock = f /\ handle[f] = None
    BY <1>1 DEF IInv, ThreadInv, ThreadOK, Holding, InCache
  <2>2. \A o \in Objs : heap[o] # None => heap[o].block_id # arg[f].block
    BY <2>1, MissMeansNotCached DEF Recycle, Access
  <2>3. Len(buffer') < Capacity
    BY <1>1, <1>2, <1>6
  <2>4. ThreadOK(f)'
    <3>1. pc'[f] = "load" /\ arg'[f] = arg[f] /\ handle'[f] = None /\ cache_lock' = f
      BY <1>1, <2>1 DEF IInv, TypeOK
    <3>2. \A o \in Objs : heap'[o] # None => heap'[o].block_id # arg[f].block
      BY <1>5, <2>2
    <3>3. f \notin Operations => arg[f].mode = "stmt"
      BY <2>1 DEF IInv, ThreadInv, ThreadOK
    <3>. QED
      BY <2>1, <2>3, <3>1, <3>2, <3>3 DEF ThreadOK, Holding, Using, InCache
  <2>5. ASSUME NEW u \in Frames, u # f PROVE ThreadOK(u)'
    <3>1. ThreadOK(u) /\ pc'[u] = pc[u] /\ pc[u] # "load" /\ handle[u] # h
      BY <1>1, <1>3, <2>1, <2>5 DEF IInv, TypeOK, ThreadInv, ThreadOK, InCache
    <3>. QED
      BY <1>1, <1>5, <3>1 DEF ThreadOK, Holding, Using, InCache
  <2>. QED
    BY <2>4, <2>5 DEF ThreadInv
<1>10. OneCopyPerBlock'
  BY <1>5 DEF IInv, OneCopyPerBlock
<1>11. CleanIsOnDisk'
  <2>. SUFFICES ASSUME NEW o \in Objs, heap'[o] # None, ~heap'[o].modified,
                       heap'[o].block_id \notin Refused
                PROVE  disk'[heap'[o].block_id] = heap'[o].cache
    BY DEF CleanIsOnDisk
  <2>1. o # h /\ heap'[o] = heap[o]
    BY <1>5
  <2>2. heap[o].block_id # heap[h].block_id /\ heap[o].block_id \in Blocks
    BY <1>3, <2>1 DEF IInv, TypeOK, OneCopyPerBlock, BlockCacheObject
  <2>3. disk'[heap[o].block_id] = disk[heap[o].block_id]
    BY <1>4, <2>2 DEF Synced, IInv, TypeOK
  <2>. QED
    BY <2>1, <2>3 DEF IInv, CleanIsOnDisk
<1>. QED
  BY <1>7, <1>8, <1>9, <1>10, <1>11 DEF IInv

\* The Arc a thread drops is never the last one: the buffer still owns the
\* object.
LEMMA DropUnchanged ==
  ASSUME IInv, NEW f \in Frames, DropHandle(f)
  PROVE  UNCHANGED <<disk, heap>>
<1>1. handle[f] \in Objs /\ heap[handle[f]] # None
  BY DEF DropHandle, Goto, IInv, TypeOK, ThreadInv, ThreadOK, Holding
<1>2. handle[f] \in Entries /\ Holders(handle[f]) # {}
  BY <1>1 DEF IInv, BufferInv, Entries, Holders
<1>. QED
  BY <1>2 DEF DropHandle, DropArc, LastReference

\* The end of an access returns what the thread holds.
LEMMA DropHandleIInv ==
  ASSUME IInv, NEW f \in Frames, DropHandle(f), UNCHANGED kernel
  PROVE  IInv'
<1>. USE DEF DropHandle, Goto
<1>3. UNCHANGED <<disk, heap>>
  BY DropUnchanged
<1>4. TypeOK'
  BY <1>3 DEF IInv, TypeOK, PCs
<1>5. BufferInv'
  BY <1>3 DEF IInv, BufferInv
<1>6. ThreadInv'
  <2>. SUFFICES ASSUME NEW u \in Frames PROVE ThreadOK(u)'
    BY DEF ThreadInv
  <2>1. ThreadOK(u) /\ ThreadOK(f)
    BY DEF IInv, ThreadInv
  <2>2. CASE u = f
    <3>1. pc'[f] = "idle" /\ arg'[f] = None /\ handle'[f] = None
      BY DEF IInv, TypeOK
    <3>. QED
      BY <2>2, <3>1, CacheAssumption DEF ThreadOK, Holding, Using, InCache
  <2>3. CASE u # f
    <3>1. pc'[u] = pc[u] /\ arg'[u] = arg[u] /\ handle'[u] = handle[u]
      BY <2>3 DEF IInv, TypeOK
    <3>2. arg[f].mode = "stmt" => ~InCache(u)
      BY <2>1, <2>3 DEF ThreadOK, InCache, Holding
    <3>3. InCache(u) => cache_lock' = cache_lock
      BY <3>2
    <3>4. heap' = heap /\ buffer' = buffer /\ block_lock' = block_lock
      BY <1>3
    <3>5. Holding(u) => heap[handle[u]] # None
      BY <2>1 DEF ThreadOK
    <3>. HIDE DEF DropHandle, Goto
    <3>. QED
      BY <2>1, <3>1, <3>3, <3>4, <3>5, ThreadKept
  <2>. QED
    BY <2>2, <2>3
<1>7. OneCopyPerBlock' /\ CleanIsOnDisk'
  BY <1>3 DEF IInv, OneCopyPerBlock, CleanIsOnDisk
<1>. QED
  BY <1>3, <1>4, <1>5, <1>6, <1>7 DEF IInv

\* The panic of get leaves the cache as it is.
LEMMA OutOfBuffersIInv ==
  ASSUME IInv, NEW f \in Frames, OutOfBuffers(f)
  PROVE  IInv'
<1>. USE DEF OutOfBuffers, locals
<1>1. TypeOK'
  BY DEF IInv, TypeOK
<1>2. BufferInv' /\ OneCopyPerBlock' /\ CleanIsOnDisk'
  BY DEF IInv, BufferInv, OneCopyPerBlock, CleanIsOnDisk
<1>3. ThreadInv'
  BY DEF IInv, ThreadInv, ThreadOK, Holding, Using, InCache
<1>. QED
  BY <1>1, <1>2, <1>3 DEF IInv

-----------------------------------------------------------------------------
(* The invariant holds.                                                    *)

\* Every step of the cache preserves the invariant.
LEMMA NextIInv == IInv /\ [Next]_vars => IInv'
<1>. SUFFICES ASSUME IInv, [Next]_vars PROVE IInv'
  OBVIOUS
<1>1. CASE UNCHANGED vars
  <2>. USE <1>1 DEF vars, locals
  <2>1. TypeOK'
    BY DEF IInv, TypeOK
  <2>2. BufferInv' /\ OneCopyPerBlock' /\ CleanIsOnDisk'
    BY DEF IInv, BufferInv, OneCopyPerBlock, CleanIsOnDisk
  <2>3. ThreadInv'
    BY DEF IInv, ThreadInv, ThreadOK, Holding, Using, InCache
  <2>. QED
    BY <2>1, <2>2, <2>3 DEF IInv
<1>2. ASSUME NEW f \in Frames, OutOfBuffers(f) PROVE IInv'
  BY <1>2, OutOfBuffersIInv
<1>3. ASSUME NEW f \in Operations, UNCHANGED kernel,
             NEW b \in Blocks, NEW m \in Modes, LockCache(f, b, m)
      PROVE  IInv'
  BY <1>3, LockCacheIInv
<1>4. ASSUME NEW f \in Operations, UNCHANGED kernel, FlushBegin(f) PROVE IInv'
  BY <1>4, FlushBeginIInv DEF Frames
<1>5. ASSUME NEW f \in Frames, UNCHANGED kernel, Step(f) PROVE IInv'
  <2>1. CASE Hit(f)
    BY <1>5, <2>1, HitIInv
  <2>2. CASE Recycle(f)
    BY <1>5, <2>2, RecycleIInv
  <2>3. CASE HasRoom(f)
    BY <1>5, <2>3, HasRoomIInv
  <2>4. CASE Load(f)
    BY <1>5, <2>4, LoadIInv
  <2>5. CASE LockBlock(f)
    BY <1>5, <2>5, LockBlockIInv
  <2>6. CASE Read(f)
    BY <1>5, <2>6, ReadIInv
  <2>7. CASE Clear(f)
    BY <1>5, <2>7, ClearIInv
  <2>8. CASE Sync(f)
    BY <1>5, <2>8, SyncIInv
  <2>9. CASE \E v \in Values : Write(f, v)
    BY <1>5, <2>9, WriteIInv
  <2>10. CASE UnlockBlock(f)
    BY <1>5, <2>10, UnlockBlockIInv
  <2>11. CASE DropHandle(f)
    BY <1>5, <2>11, DropHandleIInv
  <2>12. CASE FlushEntry(f)
    BY <1>5, <2>12, FlushEntryIInv
  <2>13. CASE FlushEnd(f)
    BY <1>5, <2>13, FlushEndIInv
  <2>. QED
    BY <1>5, <2>1, <2>2, <2>3, <2>4, <2>5, <2>6, <2>7, <2>8, <2>9, <2>10,
       <2>11, <2>12, <2>13 DEF Step
<1>6. ASSUME NEW t \in Threads, UNCHANGED kernel, CallSetBid(t) \/ LockCacheAgain(t) PROVE IInv'
  BY <1>6, CallSetBidIInv, LockCacheAgainIInv
<1>. QED
  BY <1>1, <1>2, <1>3, <1>4, <1>5, <1>6 DEF Next

\* The inductive invariant holds in every reachable state.
THEOREM Invariance == Spec => []IInv
<1>. QED
  BY InitIInv, NextIInv, PTL DEF Spec

\* The state of the cache is well typed; the buffer never exceeds its capacity.
THEOREM TypeCorrect == Spec => []TypeOK
<1>1. IInv => TypeOK
  BY DEF IInv
<1>. QED
  BY <1>1, Invariance, PTL

\* get never makes a second BlockCache object for a block while one is alive,
\* for any number of threads, blocks and buffers.
THEOREM OneCopy == Spec => []OneCopyPerBlock
<1>1. IInv => OneCopyPerBlock
  BY DEF IInv
<1>. QED
  BY <1>1, Invariance, PTL

\* Two threads are never inside the guard of the same block.
THEOREM Exclusive == Spec => []ExclusiveUse
<1>1. IInv => ExclusiveUse
  <2>. SUFFICES ASSUME IInv, NEW f1 \in Frames, NEW f2 \in Frames,
                       Using(f1), Using(f2), arg[f1].block = arg[f2].block
                PROVE  f1 = f2
    BY DEF ExclusiveUse, Using
  <2>1. /\ Holding(f1) /\ ThreadOK(f1)
        /\ Holding(f2) /\ ThreadOK(f2)
    BY DEF IInv, ThreadInv, Holding, Using
  <2>2. handle[f1] = handle[f2]
    <3>1. /\ handle[f1] \in Objs /\ heap[handle[f1]] # None
          /\ handle[f2] \in Objs /\ heap[handle[f2]] # None
          /\ heap[handle[f1]].block_id = heap[handle[f2]].block_id
      BY <2>1 DEF ThreadOK
    <3>. QED
      BY <3>1 DEF IInv, OneCopyPerBlock
  <2>. QED
    BY <2>1, <2>2 DEF ThreadOK
<1>. QED
  BY <1>1, Invariance, PTL

\* A cached block that sync would skip is what the device stores.
THEOREM Clean == Spec => []CleanIsOnDisk
<1>1. IInv => CleanIsOnDisk
  BY DEF IInv
<1>. QED
  BY <1>1, Invariance, PTL

-----------------------------------------------------------------------------
(* When BlockCacheBuffer::get can panic for want of a buffer.              *)

\* When get panics the cache lock is held, so each of the Capacity buffers is
\* held by a frame that gave the cache lock back: an operation, of a thread of
\* its own.
LEMMA PanicNeedsThreads ==
  ASSUME IInv, IsFiniteSet(Threads), NEW f \in Frames, OutOfBuffers(f)
  PROVE  Cardinality({t \in Threads : handle[Operation(t)] # None}) >= Capacity
<1>. DEFINE S == 1..Capacity
            inside == {t \in Threads : handle[Operation(t)] # None}
            g == [i \in S |-> CHOOSE t \in Threads : handle[Operation(t)] = buffer[i]]
<1>1. S = DOMAIN buffer
  BY CacheAssumption DEF OutOfBuffers, IInv, TypeOK
<1>2. handle[f] = None /\ cache_lock = f
  BY DEF OutOfBuffers, IInv, ThreadInv, ThreadOK, Holding, InCache
<1>3. ASSUME NEW i \in S PROVE g[i] \in inside /\ handle[Operation(g[i])] = buffer[i]
  <2>1. buffer[i] \in Objs /\ buffer[i] \in Entries
    <3>1. buffer \in Seq(Objs) /\ i \in DOMAIN buffer
      BY <1>1 DEF IInv, TypeOK
    <3>. QED
      BY <3>1 DEF Entries
  <2>2. PICK u \in Frames : handle[u] = buffer[i]
    BY <1>1, <2>1 DEF OutOfBuffers, Unused, LastReference, Holders
  <2>3. u # f /\ handle[u] # None
    BY <1>2, <2>1, <2>2, CacheAssumption
  <2>4. Holding(u) /\ arg[u] \in Access /\ ThreadOK(u)
    BY <2>3 DEF IInv, ThreadInv, ThreadOK
  <2>5. u \in Operations
    BY <1>2, <2>3, <2>4 DEF ThreadOK, InCache
  <2>6. \E t \in Threads : handle[Operation(t)] = buffer[i]
    BY <2>2, <2>5 DEF Operations
  <2>7. g[i] = CHOOSE t \in Threads : handle[Operation(t)] = buffer[i]
    OBVIOUS
  <2>8. g[i] \in Threads /\ handle[Operation(g[i])] = buffer[i]
    <3>. HIDE DEF g
    <3>. QED
      BY <2>6, <2>7
  <2>. QED
    BY <2>1, <2>8, CacheAssumption
<1>4. g \in [S -> inside]
  BY <1>3
<1>5. \A i, j \in S : g[i] = g[j] => i = j
  <2>. SUFFICES ASSUME NEW i \in S, NEW j \in S, g[i] = g[j] PROVE i = j
    OBVIOUS
  <2>1. buffer[i] = buffer[j]
    <3>. HIDE DEF g, S
    <3>. QED
      BY <1>3
  <2>. QED
    BY <1>1, <2>1 DEF IInv, BufferInv
<1>6. IsFiniteSet(S) /\ Cardinality(S) = Capacity
  <2>1. 1 \in Int /\ Capacity \in Int /\ Capacity >= 1
    BY CacheAssumption
  <2>. QED
    BY <2>1, FS_Interval
<1>7. IsFiniteSet(inside)
  BY FS_Subset
<1>8. Cardinality(inside) \in Nat
  BY <1>7, FS_CardinalityType
<1>9. ~(Cardinality(inside) < Cardinality(S))
  <2>. HIDE DEF S, inside, g
  <2>. QED
    BY <1>4, <1>5, <1>6, <1>7, FS_PigeonHole
<1>. QED
  BY <1>6, <1>8, <1>9, CacheAssumption

\* get panics for want of a buffer only while as many threads as there are
\* buffers are inside update_dinode or clear_block.
THEOREM PanicsOnlyWhenFull == IsFiniteSet(Threads) => (Spec => []EnoughBuffers)
<1>. SUFFICES ASSUME IsFiniteSet(Threads) PROVE Spec => []EnoughBuffers
  OBVIOUS
<1>1. Init => EnoughBuffers
  BY DEF Init, EnoughBuffers
<1>2. IInv /\ EnoughBuffers /\ [Next]_vars => EnoughBuffers'
  <2>1. ASSUME IInv, EnoughBuffers, Next PROVE EnoughBuffers'
    <3>1. ASSUME NEW f \in Frames, OutOfBuffers(f) PROVE EnoughBuffers'
      <4>1. Cardinality({t \in Threads : handle[Operation(t)] # None}) >= Capacity
        BY <2>1, <3>1, PanicNeedsThreads
      <4>2. handle' = handle
        BY <3>1 DEF OutOfBuffers, locals
      <4>. QED
        BY <4>1, <4>2 DEF EnoughBuffers
    <3>2. CASE UNCHANGED kernel
      BY <2>1, <3>2 DEF EnoughBuffers, Next
    <3>. QED
      BY <2>1, <3>1, <3>2 DEF Next
  <2>2. ASSUME EnoughBuffers, UNCHANGED vars PROVE EnoughBuffers'
    BY <2>2 DEF EnoughBuffers, vars, locals
  <2>. QED
    BY <2>1, <2>2
<1>. QED
  BY <1>1, <1>2, Invariance, PTL DEF Spec

\* With more buffers than threads get never panics, set_bid included; as many
\* buffers as threads are not enough.
THEOREM NoPanic ==
  IsFiniteSet(Threads) /\ Cardinality(Threads) < Capacity => (Spec => [](kernel = "running"))
<1>. SUFFICES ASSUME IsFiniteSet(Threads), Cardinality(Threads) < Capacity
              PROVE  Spec => [](kernel = "running")
  OBVIOUS
<1>1. TypeOK /\ EnoughBuffers => kernel = "running"
  <2>. DEFINE inside == {t \in Threads : handle[Operation(t)] # None}
  <2>1. /\ Cardinality(inside) <= Cardinality(Threads)
        /\ Cardinality(inside) \in Nat /\ Cardinality(Threads) \in Nat
    BY FS_Subset, FS_CardinalityType
  <2>2. ~(Cardinality(inside) >= Capacity)
    BY <2>1, CacheAssumption
  <2>. QED
    BY <2>2 DEF TypeOK, EnoughBuffers
<1>. QED
  BY <1>1, TypeCorrect, PanicsOnlyWhenFull, PTL

-----------------------------------------------------------------------------
(***************************************************************************)
(* The cache implements the block store.  What a block contains is stated  *)
(* relationally, so that each action can say which contents it keeps.      *)
(***************************************************************************)
Live(o) == heap[o] # None

\* v is what a thread that accesses b now would find.
Contains(b, v) ==
  \/ \E o \in Objs : Live(o) /\ heap[o].block_id = b /\ heap[o].cache = v
  \/ /\ \A o \in Objs : Live(o) => heap[o].block_id # b
     /\ v = DeviceRead(b)

\* The refinement mapping is the function Contains determines: at most one
\* object is live for a block.
LEMMA ContentIs == IInv => \A b \in Blocks : \A v : Contains(b, v) <=> v = Content[b]
<1>. SUFFICES ASSUME IInv, NEW b \in Blocks, NEW v
              PROVE  Contains(b, v) <=> v = Content[b]
  OBVIOUS
<1>1. CASE CachedIn(b) = {}
  <2>1. \A o \in Objs : Live(o) => heap[o].block_id # b
    BY <1>1 DEF CachedIn, Live
  <2>2. Content[b] = DeviceRead(b)
    BY <1>1 DEF Content
  <2>. QED
    BY <2>1, <2>2 DEF Contains
<1>2. CASE CachedIn(b) # {}
  <2>. DEFINE o == CHOOSE o \in CachedIn(b) : TRUE
  <2>1. o \in CachedIn(b)
    BY <1>2
  <2>2. Content[b] = heap[o].cache
    BY <1>2 DEF Content
  <2>. HIDE DEF o
  <2>3. \A p \in Objs : Live(p) /\ heap[p].block_id = b => p = o
    BY <2>1 DEF CachedIn, IInv, OneCopyPerBlock, Live
  <2>. QED
    BY <2>1, <2>2, <2>3 DEF CachedIn, Contains, Live
<1>. QED
  BY <1>1, <1>2

\* The same fact about the state after a step.
LEMMA ContentIsNext ==
  IInv' => \A b \in Blocks : \A v : Contains(b, v)' <=> v = Content'[b]
<1>1. (IInv => \A b \in Blocks : \A v : Contains(b, v) <=> v = Content[b])'
  BY ContentIs, PTL
<1>. QED
  BY <1>1

\* A step that writes at most block x changes the store at most at x.
LEMMA ContentSet ==
  ASSUME IInv, IInv', NEW x \in Blocks, NEW w, Contains(x, w)',
         \A b \in Blocks \ {x} : \A v : Contains(b, v) => Contains(b, v)'
  PROVE  Content' = [Content EXCEPT ![x] = w]
<1>1. \A b \in Blocks : Content'[b] = IF b = x THEN w ELSE Content[b]
  BY ContentIs, ContentIsNext
<1>2. Content' = [b \in Blocks |-> Content'[b]] /\ Content = [b \in Blocks |-> Content[b]]
  BY DEF Content
<1>. HIDE DEF Content
<1>. QED
  BY <1>1, <1>2

\* A step that keeps what every block contains keeps the store.
LEMMA ContentKept ==
  ASSUME IInv, IInv', \A b \in Blocks : \A v : Contains(b, v) => Contains(b, v)'
  PROVE  Content' = Content
<1>1. \A b \in Blocks : Content'[b] = Content[b]
  BY ContentIs, ContentIsNext
<1>2. Content' = [b \in Blocks |-> Content'[b]] /\ Content = [b \in Blocks |-> Content[b]]
  BY DEF Content
<1>. HIDE DEF Content
<1>. QED
  BY <1>1, <1>2

\* Steps that touch neither the heap nor the disk keep the store.
LEMMA ContentUnchanged == UNCHANGED <<disk, heap>> => Content' = Content
  BY DEF Content, CachedIn, DeviceRead

\* A thread inside an access is one the store knows: its request is the block
\* of its argument.
LEMMA RequestIs ==
  ASSUME IInv, NEW f \in Frames, arg[f] \in Access
  PROVE  Request[f] = arg[f].block /\ Request[f] # None /\ arg[f].block \in Blocks
  BY CacheAssumption DEF Request, Access

\* A load brings in what the store already holds.
LEMMA LoadRefines ==
  ASSUME IInv, IInv', NEW f \in Frames, Load(f)
  PROVE  Content' = Content
<1>. DEFINE x == arg[f].block
<1>1. PICK n \in Objs :
        /\ heap[n] = None
        /\ heap' = [heap EXCEPT ![n] = [block_id |-> x, cache |-> DeviceRead(x), modified |-> FALSE]]
  BY DEF Load
<1>2. disk' = disk /\ \A o \in Objs : Live(o) => heap[o].block_id # x
  BY DEF Load, IInv, ThreadInv, ThreadOK, Live
<1>3. /\ heap'[n].block_id = x /\ heap'[n].cache = DeviceRead(x) /\ heap'[n] # None
      /\ \A o \in Objs \ {n} : heap'[o] = heap[o]
  <2>1. heap'[n] # None
    <3>1. arg[f] \in Access
      BY DEF Load, IInv, ThreadInv, ThreadOK
    <3>2. DeviceRead(x) \in Values /\ x \in Blocks
      BY <3>1, CacheAssumption DEF DeviceRead, IInv, TypeOK, Access
    <3>3. heap'[n] = [block_id |-> x, cache |-> DeviceRead(x), modified |-> FALSE]
      BY <1>1 DEF IInv, TypeOK
    <3>4. heap'[n] \in BlockCacheObject
      BY <3>2, <3>3 DEF BlockCacheObject
    <3>. QED
      BY <3>4, CacheAssumption
  <2>. QED
    BY <1>1, <2>1 DEF IInv, TypeOK
<1>. HIDE DEF x
<1>4. \A b \in Blocks : \A v : Contains(b, v) => Contains(b, v)'
  <2>. SUFFICES ASSUME NEW b \in Blocks, NEW v, Contains(b, v) PROVE Contains(b, v)'
    OBVIOUS
  <2>1. CASE b = x
    BY <1>2, <1>3, <2>1 DEF Contains, Live
  <2>2. CASE b # x
    BY <1>1, <1>2, <1>3, <2>2 DEF Contains, Live, DeviceRead
  <2>. QED
    BY <2>1, <2>2
<1>. QED
  BY <1>4, ContentKept

\* Recycling keeps the store, unless the device refuses the block: then the
\* block falls back to zeros.
LEMMA RecycleRefines ==
  ASSUME IInv, IInv', NEW f \in Frames, Recycle(f)
  PROVE  \/ Content' = Content
         \/ \E b \in Refused : Content' = [Content EXCEPT ![b] = Zero]
<1>1. PICK i \in Unused : DropArc(buffer[i])
  BY DEF Recycle
<1>2. PICK h \in Objs : h = buffer[i] /\ Live(h) /\ heap[h] \in BlockCacheObject
  <2>1. buffer \in Seq(Objs) /\ i \in DOMAIN buffer
    BY DEF Unused, IInv, TypeOK
  <2>2. buffer[i] \in Objs /\ heap[buffer[i]] # None
    BY <2>1 DEF IInv, BufferInv
  <2>3. heap[buffer[i]] \in BlockCacheObject
    BY <2>2 DEF IInv, TypeOK
  <2>. QED
    BY <2>2, <2>3 DEF Live
<1>3. PICK x \in Blocks : x = heap[h].block_id
  BY <1>2 DEF BlockCacheObject
<1>4. disk' = Synced(h) /\ heap' = [heap EXCEPT ![h] = None]
  BY <1>1, <1>2 DEF DropArc, Unused
<1>5. /\ heap'[h] = None /\ \A o \in Objs \ {h} : heap'[o] = heap[o]
      /\ \A o \in Objs \ {h} : Live(o) => heap[o].block_id # x
  BY <1>2, <1>3, <1>4 DEF IInv, TypeOK, Live, OneCopyPerBlock
<1>6. /\ x \notin Refused => disk'[x] = heap[h].cache
      /\ \A b \in Blocks \ {x} : disk'[b] = disk[b]
  BY <1>2, <1>3, <1>4 DEF Synced, IInv, TypeOK, CleanIsOnDisk, Live, BlockCacheObject
<1>7. ASSUME NEW b \in Blocks \ {x}, NEW v, Contains(b, v) PROVE Contains(b, v)'
  <2>1. CASE \E o \in Objs : Live(o) /\ heap[o].block_id = b /\ heap[o].cache = v
    <3>1. PICK o \in Objs : Live(o) /\ heap[o].block_id = b /\ heap[o].cache = v
      BY <2>1
    <3>2. o # h
      BY <1>3, <3>1
    <3>. QED
      BY <1>5, <3>1, <3>2 DEF Contains, Live
  <2>2. CASE /\ \A o \in Objs : Live(o) => heap[o].block_id # b
             /\ v = DeviceRead(b)
    <3>1. \A o \in Objs : heap'[o] # None => heap'[o].block_id # b
      BY <1>5, <2>2 DEF Live
    <3>2. v = DeviceRead(b)'
      BY <1>6, <2>2 DEF DeviceRead
    <3>. QED
      BY <3>1, <3>2 DEF Contains, Live
  <2>. QED
    BY <1>7, <2>1, <2>2 DEF Contains
<1>8. CASE x \in Refused
  <2>1. Contains(x, Zero)'
    BY <1>5, <1>8 DEF Contains, DeviceRead, Live
  <2>. QED
    BY <1>7, <1>8, <2>1, ContentSet
<1>9. CASE x \notin Refused
  <2>1. \A v : Contains(x, v) => v = heap[h].cache
    <3>1. Contains(x, heap[h].cache)
      BY <1>2, <1>3 DEF Contains
    <3>. QED
      BY <3>1, ContentIs
  <2>2. \A v : v = disk'[x] => Contains(x, v)'
    BY <1>5, <1>9 DEF Contains, DeviceRead, Live
  <2>. QED
    BY <1>6, <1>7, <1>9, <2>1, <2>2, ContentKept
<1>. QED
  BY <1>8, <1>9

\* A write changes the store at the block that was asked for, to the value
\* written, and nowhere else (write, get_mut and clear).
LEMMA WriteRefines ==
  ASSUME IInv, IInv', NEW f \in Frames, Using(f), disk' = disk, NEW w \in Values,
         heap' = [heap EXCEPT ![handle[f]].cache = w, ![handle[f]].modified = TRUE]
  PROVE  Content' = [Content EXCEPT ![arg[f].block] = w] /\ arg[f] \in Access
<1>1. PICK h \in Objs : h = handle[f] /\ Live(h) /\ heap[h] \in BlockCacheObject
                        /\ heap[h].block_id = arg[f].block /\ arg[f] \in Access
  <2>1. ThreadOK(f) /\ Holding(f)
    BY DEF IInv, ThreadInv, Using, Holding
  <2>2. /\ handle[f] \in Objs /\ heap[handle[f]] # None
        /\ heap[handle[f]].block_id = arg[f].block /\ arg[f] \in Access
    BY <2>1 DEF ThreadOK
  <2>3. heap[handle[f]] \in BlockCacheObject
    BY <2>2 DEF IInv, TypeOK
  <2>. QED
    BY <2>2, <2>3 DEF Live
<1>2. PICK x \in Blocks : x = arg[f].block
  BY <1>1 DEF Access
<1>3. /\ heap'[h].cache = w /\ heap'[h].block_id = x
      /\ \A o \in Objs \ {h} : heap'[o] = heap[o]
  BY <1>1, <1>2 DEF IInv, TypeOK, BlockCacheObject
<1>4. heap'[h] # None
  <2>1. heap'[h] \in BlockCacheObject
    BY <1>1 DEF IInv, TypeOK, BlockCacheObject
  <2>. QED
    BY <2>1, CacheAssumption
<1>5. Contains(x, w)'
  BY <1>1, <1>3, <1>4 DEF Contains, Live
<1>6. \A o \in Objs \ {h} : Live(o) => heap[o].block_id # x
  BY <1>1, <1>2 DEF IInv, OneCopyPerBlock, Live
<1>7. \A b \in Blocks \ {x} : \A v : Contains(b, v) => Contains(b, v)'
  BY <1>1, <1>2, <1>3, <1>4, <1>6 DEF Contains, Live, DeviceRead
<1>. QED
  BY <1>1, <1>2, <1>5, <1>7, ContentSet

\* Writing an object back keeps the store: only the disk and the object's
\* modified flag change.
LEMMA SyncRefines ==
  ASSUME IInv, IInv', NEW h \in Objs, Live(h), disk' = Synced(h),
         heap' = [heap EXCEPT ![h].modified = FALSE]
  PROVE  Content' = Content
<1>1. heap[h] \in BlockCacheObject
  BY DEF IInv, TypeOK, Live
<1>2. PICK x \in Blocks : x = heap[h].block_id
  BY <1>1 DEF BlockCacheObject
<1>3. heap'[h] \in BlockCacheObject
  BY <1>1 DEF IInv, TypeOK, BlockCacheObject
<1>4. /\ heap'[h].cache = heap[h].cache /\ heap'[h].block_id = x /\ heap'[h] # None
      /\ \A o \in Objs \ {h} : heap'[o] = heap[o]
  BY <1>1, <1>2, <1>3, CacheAssumption DEF IInv, TypeOK, BlockCacheObject
<1>5. \A b \in Blocks \ {x} : disk'[b] = disk[b]
  BY <1>1, <1>2 DEF Synced, IInv, TypeOK, BlockCacheObject
<1>6. \A b \in Blocks : \A v : Contains(b, v) => Contains(b, v)'
  <2>. SUFFICES ASSUME NEW b \in Blocks, NEW v, Contains(b, v) PROVE Contains(b, v)'
    OBVIOUS
  <2>1. CASE \E o \in Objs : Live(o) /\ heap[o].block_id = b /\ heap[o].cache = v
    BY <1>2, <1>4, <2>1 DEF Contains, Live
  <2>2. CASE (\A o \in Objs : Live(o) => heap[o].block_id # b) /\ v = DeviceRead(b)
    BY <1>2, <1>4, <1>5, <2>2 DEF Contains, Live, DeviceRead
  <2>. QED
    BY <2>1, <2>2 DEF Contains
<1>. QED
  BY <1>6, ContentKept

\* The initial states of the cache are initial states of the store.
LEMMA InitRefines == Init => Store!StoreInit
<1>. SUFFICES ASSUME Init PROVE Store!StoreInit
  OBVIOUS
<1>1. \A b \in Blocks : CachedIn(b) = {}
  BY DEF Init, CachedIn
<1>2. Content = [b \in Blocks |-> DeviceRead(b)]
  BY <1>1 DEF Content
<1>3. Content \in [Blocks -> Values] /\ \A b \in Refused : Content[b] = Zero
  BY <1>2, CacheAssumption DEF Init, DeviceRead
<1>4. Request = [f \in Frames |-> None]
  BY DEF Init, Request
<1>. QED
  BY <1>3, <1>4 DEF Store!StoreInit, Init

\* Every step of a thread inside an operation is a step of the store or
\* leaves it alone.
LEMMA StepRefines ==
  ASSUME IInv, IInv', NEW f \in Frames, Step(f)
  PROVE  Store!StoreNext \/ UNCHANGED Store!storeVars
<1>. USE DEF Store!storeVars
<1>0. ASSUME UNCHANGED arg PROVE Request' = Request
  BY <1>0 DEF Request
<1>1. CASE Hit(f) \/ HasRoom(f) \/ LockBlock(f) \/ UnlockBlock(f) \/ FlushEnd(f)
  <2>1. UNCHANGED <<disk, heap, arg, ret>>
    BY <1>1 DEF Hit, HasRoom, LockBlock, UnlockBlock, FlushEnd
  <2>. QED
    BY <1>0, <2>1, ContentUnchanged
<1>2. CASE Recycle(f)
  <2>1. UNCHANGED <<arg, ret>>
    BY <1>2 DEF Recycle
  <2>2. CASE Content' = Content
    BY <1>0, <2>1, <2>2
  <2>3. CASE \E b \in Refused : Content' = [Content EXCEPT ![b] = Zero]
    BY <1>0, <2>1, <2>3, CacheAssumption DEF Store!StoreNext, Store!LoseBlock
  <2>. QED
    BY <1>2, <2>2, <2>3, RecycleRefines
<1>3. CASE Load(f)
  <2>1. UNCHANGED <<arg, ret>>
    BY <1>3 DEF Load
  <2>. QED
    BY <1>0, <1>3, <2>1, LoadRefines
<1>4. CASE Read(f)
  <2>1. /\ UNCHANGED <<disk, heap, arg>>
        /\ ret' = [ret EXCEPT ![f] = heap[handle[f]].cache]
    BY <1>4 DEF Read
  <2>2. PICK h \in Objs : h = handle[f] /\ Live(h) /\ heap[h].block_id = arg[f].block
                          /\ arg[f] \in Access
    <3>1. ThreadOK(f) /\ Holding(f)
      BY <1>4 DEF Read, Goto, Holding, IInv, ThreadInv
    <3>. QED
      BY <3>1 DEF ThreadOK, Live
  <2>3. Contains(arg[f].block, heap[h].cache) /\ arg[f].block \in Blocks
    BY <2>2 DEF Contains, Access
  <2>4. heap[h].cache = Content[Request[f]]
    BY <2>2, <2>3, ContentIs, RequestIs
  <2>5. Store!ReadBlock(f)
    BY <1>0, <2>1, <2>2, <2>4, ContentUnchanged, RequestIs DEF Store!ReadBlock
  <2>. QED
    BY <2>5 DEF Store!StoreNext
<1>5. ASSUME NEW w \in Values, Using(f), UNCHANGED <<disk, arg, ret>>,
             heap' = [heap EXCEPT ![handle[f]].cache = w, ![handle[f]].modified = TRUE]
      PROVE  Store!StoreNext
  <2>1. Content' = [Content EXCEPT ![arg[f].block] = w] /\ arg[f] \in Access
    BY <1>5, WriteRefines
  <2>2. Store!WriteBlock(f, w)
    BY <1>0, <1>5, <2>1, RequestIs DEF Store!WriteBlock
  <2>. QED
    BY <2>2 DEF Store!StoreNext
<1>6. CASE Clear(f)
  BY <1>5, <1>6, CacheAssumption DEF Clear, Goto, Using
<1>7. CASE \E v \in Values : Write(f, v)
  BY <1>5, <1>7 DEF Write, ClosureDone, Using
<1>8. CASE Sync(f)
  <2>1. handle[f] \in Objs /\ Live(handle[f])
    BY <1>8 DEF Sync, Goto, Holding, IInv, ThreadInv, ThreadOK, Live
  <2>2. Content' = Content /\ UNCHANGED <<arg, ret>>
    BY <1>8, <2>1, SyncRefines DEF Sync
  <2>. QED
    BY <1>0, <2>2
<1>9. CASE FlushEntry(f)
  <2>1. buffer[cursor] \in Objs /\ Live(buffer[cursor])
    <3>1. buffer \in Seq(Objs) /\ cursor \in DOMAIN buffer
      BY <1>9 DEF FlushEntry, IInv, TypeOK
    <3>. QED
      BY <3>1 DEF IInv, BufferInv, Live
  <2>2. Content' = Content /\ UNCHANGED <<arg, ret>>
    BY <1>9, <2>1, SyncRefines DEF FlushEntry
  <2>. QED
    BY <1>0, <2>2
<1>10. CASE DropHandle(f)
  <2>1. UNCHANGED <<disk, heap>>
    BY <1>10, DropUnchanged
  <2>2. arg[f] \in Access
    BY <1>10 DEF DropHandle, Goto, Holding, IInv, ThreadInv, ThreadOK
  <2>3. Request' = [Request EXCEPT ![f] = None]
    BY <1>10 DEF DropHandle, Request, IInv, TypeOK
  <2>4. Store!End(f)
    BY <1>10, <2>1, <2>2, <2>3, ContentUnchanged, RequestIs DEF DropHandle, Store!End
  <2>. QED
    BY <2>4 DEF Store!StoreNext
<1>. QED
  BY <1>1, <1>2, <1>3, <1>4, <1>6, <1>7, <1>8, <1>9, <1>10 DEF Step

\* Every step of the cache is a step of the store or leaves it alone.
LEMMA NextRefines ==
  IInv /\ IInv' /\ [Next]_vars => [Store!StoreNext]_(Store!storeVars)
<1>. SUFFICES ASSUME IInv, IInv', [Next]_vars
              PROVE  Store!StoreNext \/ UNCHANGED Store!storeVars
  OBVIOUS
<1>1. ASSUME UNCHANGED <<disk, heap, arg, ret>> PROVE UNCHANGED Store!storeVars
  BY <1>1, ContentUnchanged DEF Store!storeVars, Request
<1>2. CASE UNCHANGED vars
  BY <1>1, <1>2 DEF vars, locals
<1>3. ASSUME NEW f \in Frames, OutOfBuffers(f) \/ FlushBegin(f)
      PROVE  UNCHANGED Store!storeVars
  BY <1>1, <1>3 DEF OutOfBuffers, FlushBegin, locals
<1>4. ASSUME NEW f \in Frames, NEW b \in Blocks, NEW m \in Modes,
             UNCHANGED <<disk, heap, ret>>, pc[f] \in {"idle", "enter"},
             arg' = [arg EXCEPT ![f] = [block |-> b, mode |-> m]]
      PROVE  Store!StoreNext
  <2>1. /\ UNCHANGED <<disk, heap, ret>> /\ pc[f] \in {"idle", "enter"}
        /\ arg' = [arg EXCEPT ![f] = [block |-> b, mode |-> m]]
    BY <1>4
  <2>2. Request[f] = None
    BY <2>1 DEF Request, IInv, ThreadInv, ThreadOK
  <2>3. [block |-> b, mode |-> m] # None
    BY CacheAssumption DEF Access
  <2>4. Request' = [Request EXCEPT ![f] = b]
    BY <2>1, <2>3 DEF Request, IInv, TypeOK
  <2>5. Store!Begin(f, b)
    BY <2>1, <2>2, <2>4, ContentUnchanged DEF Store!Begin
  <2>. QED
    BY <2>5 DEF Store!StoreNext
<1>5. ASSUME NEW f \in Operations, NEW b \in Blocks, NEW m \in Modes, LockCache(f, b, m)
      PROVE  Store!StoreNext
  <2>1. f \in Frames
    BY DEF Frames
  <2>. QED
    BY <1>4, <1>5, <2>1 DEF LockCache, Goto
<1>6. ASSUME NEW t \in Threads, CallSetBid(t) PROVE UNCHANGED Store!storeVars
  BY <1>1, <1>6 DEF CallSetBid
<1>7. ASSUME NEW t \in Threads, LockCacheAgain(t) PROVE Store!StoreNext
  <2>1. SetBid(t) \in Frames /\ IndexBlock \in Blocks /\ "stmt" \in Modes
    BY CacheAssumption DEF Frames, Modes
  <2>. QED
    BY <1>4, <1>7, <2>1 DEF LockCacheAgain, Goto
<1>8. \A f \in Operations : f \in Frames
  BY DEF Frames
<1>. QED
  BY <1>2, <1>3, <1>5, <1>6, <1>7, <1>8, StepRefines DEF Next

\* The cache, with its recycling, its two-level locking and its write-back,
\* implements the atomic block store.
THEOREM Refinement == Spec => ImplementsStore
<1>. QED
  BY InitRefines, NextRefines, Invariance, PTL DEF Spec, ImplementsStore, Store!StoreSpec
=============================================================================
