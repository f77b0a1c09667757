----------------------------- MODULE BlockCache -----------------------------
(***************************************************************************)
(* The block buffer cache of the fs crate (fs/src/block_cache.rs) as its   *)
(* callers use it: threads that share one Mutex<BlockCacheBuffer>, whose   *)
(* entries are Arc<Mutex<BlockCache>> objects on the heap.                 *)
(*                                                                         *)
(* A block is reached in three ways.  In                                   *)
(*     cache.lock().get(b, dev).lock().write(..)                           *)
(* the guard of the whole cache is a temporary that lives to the end of    *)
(* the statement ("stmt").  In                                             *)
(*     let h = cache.lock().get(b, dev); let mut g = h.lock(); ...         *)
(* it is dropped before the block is locked: clear_block ("clear") and     *)
(* update_dinode ("update").  And the closure update_dinode runs while it  *)
(* has the inode's block locked may be set_bid, which makes a "stmt"       *)
(* access of its own to the index block of the inode.  A thread therefore  *)
(* has two call frames, each with its own access, lock and Arc.            *)
(*                                                                         *)
(* A thread may also lock the cache a second time inside a "stmt" access   *)
(* (get_bid in read_data); it then stops at "get" for ever, which here is  *)
(* a behaviour that ends in stuttering.  FsLocks is about such waits.      *)
(***************************************************************************)
EXTENDS Naturals, Sequences, FiniteSets

CONSTANTS Threads,   \* kernel threads that use the file system
          Blocks,    \* block ids
          IndexBlock,\* DInode::indirect of every inode
          Values,    \* contents a block can have
          Zero,      \* the content of a cleared block
          Refused,   \* blocks for which the device returns an error
          Objs,      \* heap cells that can hold a BlockCache
          Capacity,  \* BlockCacheBuffer::capacity
          None

Modes == {"stmt", "clear", "update"}
Access == [block : Blocks, mode : Modes]

\* The frames that access a block: a thread's operation, and set_bid inside it.
Operation(t) == <<t, "operation">>
SetBid(t) == <<t, "set_bid">>
Operations == {Operation(t) : t \in Threads}
Frames == Operations \cup {SetBid(t) : t \in Threads}

BlockCacheObject == [block_id : Blocks, cache : Values, modified : BOOLEAN]

ASSUME CacheAssumption ==
  /\ Zero \in Values
  /\ Refused \subseteq Blocks
  /\ Capacity \in Nat \ {0}
  /\ IndexBlock \in Blocks
  /\ None \notin Frames
  /\ None \notin Objs
  /\ None \notin Values
  /\ None \notin Blocks
  /\ None \notin BlockCacheObject
  /\ None \notin Access

VARIABLES disk,        \* what the device stores
          heap,        \* the BlockCache objects, None in a free cell
          buffer,      \* BlockCacheBuffer::buffer, front first
          cache_lock,  \* holder of the Mutex<BlockCacheBuffer>
          block_lock,  \* holder of each object's Mutex
          pc,          \* where each frame is
          arg,         \* the access a frame is making, or None
          handle,      \* the Arc each frame holds
          cursor,      \* the next entry flush visits
          ret,         \* what the access in progress read, or None
          kernel       \* "running", or "panicked": "Out of block cache buffer."

locals == <<pc, arg, handle, cursor, ret>>
vars == <<disk, heap, buffer, cache_lock, block_lock, locals, kernel>>

PCs == {"idle", "enter", "get", "load", "got", "locked", "index", "sync", "done", "drop", "flush"}

-----------------------------------------------------------------------------
(* Helpers.                                                                *)

Entries == {buffer[i] : i \in DOMAIN buffer}
Holders(o) == {f \in Frames : handle[f] = o}

\* Arc::strong_count is 1: either the buffer or one frame owns the object.
LastReference(o) ==
  IF o \in Entries THEN Holders(o) = {} ELSE Cardinality(Holders(o)) = 1

\* (Mutant) The search passes over entries that are in use.
FoundUnheld(b) == {i \in DOMAIN buffer : heap[buffer[i]].block_id = b /\ Holders(buffer[i]) = {}}

\* The find of BlockCacheBuffer::get.
Found(b) == {i \in DOMAIN buffer : heap[buffer[i]].block_id = b}

\* BlockCache::new ignores the device's error and keeps its zeroed array.
DeviceRead(b) == IF b \in Refused THEN Zero ELSE disk[b]

\* BlockCache::sync ignores the device's error too.
Synced(o) ==
  IF heap[o].modified /\ heap[o].block_id \notin Refused
  THEN [disk EXCEPT ![heap[o].block_id] = heap[o].cache]
  ELSE disk

\* (Mutant) The object is dropped without being written back.
DropArcUnsynced(o) ==
  IF LastReference(o)
  THEN disk' = disk /\ heap' = [heap EXCEPT ![o] = None]
  ELSE UNCHANGED <<disk, heap>>

\* Dropping an Arc.  The last one drops the object, and Drop for BlockCache
\* writes it back.
DropArc(o) ==
  IF LastReference(o)
  THEN disk' = Synced(o) /\ heap' = [heap EXCEPT ![o] = None]
  ELSE UNCHANGED <<disk, heap>>

Goto(f, from, to) ==
  /\ pc[f] = from
  /\ pc' = [pc EXCEPT ![f] = to]

-----------------------------------------------------------------------------
(* BlockCacheBuffer::get, under the cache lock.                            *)

\* update_dinode is for inode blocks, which come after the index block 0.
LockCache(f, b, m) ==
  /\ cache_lock = None
  /\ m = "update" => b # IndexBlock
  /\ Goto(f, "idle", "get")
  /\ cache_lock' = f
  /\ arg' = [arg EXCEPT ![f] = [block |-> b, mode |-> m]]
  /\ UNCHANGED <<disk, heap, buffer, block_lock, handle, cursor, ret>>

\* get returns: all but "stmt" accesses drop the guard of the cache here.
Return(f, o) ==
  /\ pc' = [pc EXCEPT ![f] = "got"]
  /\ handle' = [handle EXCEPT ![f] = o]
  /\ cache_lock' = IF arg[f].mode # "stmt" THEN None ELSE cache_lock

Hit(f) ==
  /\ pc[f] = "get"
  /\ \E i \in Found(arg[f].block) :
       /\ \A j \in Found(arg[f].block) : i <= j
       /\ Return(f, buffer[i])
  /\ UNCHANGED <<disk, heap, buffer, block_lock, arg, cursor, ret>>

\* (Mutant) recycling only what needs no write.
UnusedAndClean == {i \in DOMAIN buffer : LastReference(buffer[i]) /\ ~heap[buffer[i]].modified}

\* Entries whose only reference is the buffer's.
Unused == {i \in DOMAIN buffer : LastReference(buffer[i])}

\* What the buffer is without its i-th entry.
Without(i) == SubSeq(buffer, 1, i - 1) \o SubSeq(buffer, i + 1, Len(buffer))

Recycle(f) ==
  /\ Goto(f, "get", "load")
  /\ Found(arg[f].block) = {}
  /\ Len(buffer) = Capacity
  /\ \E i \in Unused :
       /\ \A j \in Unused : i <= j
       /\ DropArc(buffer[i])
       /\ buffer' = Without(i)
  /\ UNCHANGED <<cache_lock, block_lock, arg, handle, cursor, ret>>

OutOfBuffers(f) ==
  /\ pc[f] = "get"
  /\ Found(arg[f].block) = {}
  /\ Len(buffer) = Capacity
  /\ Unused = {}
  /\ kernel' = "panicked"
  /\ UNCHANGED <<disk, heap, buffer, cache_lock, block_lock, locals>>

\* (Mutant) The buffer may grow past its capacity.
HasRoomAlways(f) ==
  /\ Goto(f, "get", "load")
  /\ Found(arg[f].block) = {}
  /\ UNCHANGED <<disk, heap, buffer, cache_lock, block_lock, arg, handle, cursor, ret>>

HasRoom(f) ==
  /\ Goto(f, "get", "load")
  /\ Found(arg[f].block) = {}
  /\ Len(buffer) # Capacity
  /\ UNCHANGED <<disk, heap, buffer, cache_lock, block_lock, arg, handle, cursor, ret>>

Load(f) ==
  /\ pc[f] = "load"
  /\ \E o \in Objs :
       /\ heap[o] = None
       /\ heap' = [heap EXCEPT ![o] = [block_id |-> arg[f].block,
                                       cache    |-> DeviceRead(arg[f].block),
                                       modified |-> FALSE]]
       /\ buffer' = Append(buffer, o)
       /\ Return(f, o)
  /\ UNCHANGED <<disk, block_lock, arg, cursor, ret>>

-----------------------------------------------------------------------------
(* Use of one block, under its own lock.                                   *)

\* (Mutant) The object is used without its lock.
LockBlockNever(f) ==
  /\ Goto(f, "got", "locked")
  /\ UNCHANGED <<disk, heap, buffer, cache_lock, block_lock, arg, handle, cursor, ret>>

LockBlock(f) ==
  /\ Goto(f, "got", "locked")
  /\ block_lock[handle[f]] = None
  /\ block_lock' = [block_lock EXCEPT ![handle[f]] = f]
  /\ UNCHANGED <<disk, heap, buffer, cache_lock, arg, handle, cursor, ret>>

Read(f) ==
  /\ Goto(f, "locked", "done")
  /\ arg[f].mode = "stmt"
  /\ ret' = [ret EXCEPT ![f] = heap[handle[f]].cache]
  /\ UNCHANGED <<disk, heap, buffer, cache_lock, block_lock, arg, handle, cursor>>

\* set_bid above N_DIRECT, in the closure of update_dinode: the thread starts
\* another access while it keeps the inode's block locked and its Arc ...
CallSetBid(t) ==
  /\ pc[Operation(t)] = "locked"
  /\ arg[Operation(t)].mode = "update"
  /\ pc[SetBid(t)] = "idle"
  /\ pc' = [pc EXCEPT ![Operation(t)] = "index", ![SetBid(t)] = "enter"]
  /\ UNCHANGED <<disk, heap, buffer, cache_lock, block_lock, arg, handle, cursor, ret>>

\* ... and waits for the lock of the cache.
LockCacheAgain(t) ==
  /\ cache_lock = None
  /\ Goto(SetBid(t), "enter", "get")
  /\ cache_lock' = SetBid(t)
  /\ arg' = [arg EXCEPT ![SetBid(t)] = [block |-> IndexBlock, mode |-> "stmt"]]
  /\ UNCHANGED <<disk, heap, buffer, block_lock, handle, cursor, ret>>

\* set_bid has returned, or was not called.
ClosureDone(f) ==
  \/ pc[f] = "locked"
  \/ \E t \in Threads : f = Operation(t) /\ pc[f] = "index" /\ pc[SetBid(t)] = "idle"

\* (Mutant) Writing through get_ref: modified is not set.
WriteUnmarked(f, v) ==
  /\ ClosureDone(f)
  /\ arg[f].mode # "clear"
  /\ pc' = [pc EXCEPT ![f] = "done"]
  /\ heap' = [heap EXCEPT ![handle[f]].cache = v]
  /\ UNCHANGED <<disk, buffer, cache_lock, block_lock, arg, handle, cursor, ret>>

Write(f, v) ==
  /\ ClosureDone(f)
  /\ arg[f].mode # "clear"
  /\ pc' = [pc EXCEPT ![f] = "done"]
  /\ heap' = [heap EXCEPT ![handle[f]].cache = v, ![handle[f]].modified = TRUE]
  /\ UNCHANGED <<disk, buffer, cache_lock, block_lock, arg, handle, cursor, ret>>

\* clear_block: clear, then sync, under one guard.
Clear(f) ==
  /\ Goto(f, "locked", "sync")
  /\ arg[f].mode = "clear"
  /\ heap' = [heap EXCEPT ![handle[f]].cache = Zero, ![handle[f]].modified = TRUE]
  /\ UNCHANGED <<disk, buffer, cache_lock, block_lock, arg, handle, cursor, ret>>

Sync(f) ==
  /\ Goto(f, "sync", "done")
  /\ disk' = Synced(handle[f])
  /\ heap' = [heap EXCEPT ![handle[f]].modified = FALSE]
  /\ UNCHANGED <<buffer, cache_lock, block_lock, arg, handle, cursor, ret>>

UnlockBlock(f) ==
  /\ Goto(f, "done", "drop")
  /\ block_lock' = [block_lock EXCEPT ![handle[f]] = None]
  /\ UNCHANGED <<disk, heap, buffer, cache_lock, arg, handle, cursor, ret>>

\* The Arc is dropped, and after it the guard of the cache in a "stmt" access.
DropHandle(f) ==
  /\ Goto(f, "drop", "idle")
  /\ DropArc(handle[f])
  /\ handle' = [handle EXCEPT ![f] = None]
  /\ cache_lock' = IF arg[f].mode = "stmt" THEN None ELSE cache_lock
  /\ arg' = [arg EXCEPT ![f] = None]
  /\ ret' = [ret EXCEPT ![f] = None]
  /\ UNCHANGED <<buffer, block_lock, cursor>>

-----------------------------------------------------------------------------
(* BlockCacheBuffer::flush, under the cache lock.                          *)

FlushBegin(f) ==
  /\ cache_lock = None
  /\ Goto(f, "idle", "flush")
  /\ cache_lock' = f
  /\ UNCHANGED <<disk, heap, buffer, block_lock, arg, handle, cursor, ret>>

FlushEntry(f) ==
  /\ pc[f] = "flush"
  /\ cursor <= Len(buffer)
  /\ block_lock[buffer[cursor]] = None
  /\ disk' = Synced(buffer[cursor])
  /\ heap' = [heap EXCEPT ![buffer[cursor]].modified = FALSE]
  /\ cursor' = cursor + 1
  /\ UNCHANGED <<buffer, cache_lock, block_lock, pc, arg, handle, ret>>

FlushEnd(f) ==
  /\ Goto(f, "flush", "idle")
  /\ cursor > Len(buffer)
  /\ cache_lock' = None
  /\ cursor' = 1
  /\ UNCHANGED <<disk, heap, buffer, block_lock, arg, handle, ret>>

-----------------------------------------------------------------------------
Init ==
  /\ disk \in [Blocks -> Values]
  /\ heap = [o \in Objs |-> None]
  /\ buffer = <<>>
  /\ cache_lock = None
  /\ block_lock = [o \in Objs |-> None]
  /\ pc = [f \in Frames |-> "idle"]
  /\ arg = [f \in Frames |-> None]
  /\ handle = [f \in Frames |-> None]
  /\ cursor = 1
  /\ ret = [f \in Frames |-> None]
  /\ kernel = "running"

\* The steps of a frame that is inside an access or a flush.
Step(f) ==
  \/ Hit(f) \/ Recycle(f) \/ HasRoom(f) \/ Load(f) \/ LockBlock(f)
  \/ Read(f) \/ Clear(f) \/ Sync(f) \/ (\E v \in Values : Write(f, v))
  \/ UnlockBlock(f) \/ DropHandle(f)
  \/ FlushEntry(f) \/ FlushEnd(f)

Next ==
  /\ kernel = "running"
  /\ \/ \E f \in Frames : OutOfBuffers(f)
     \/ /\ UNCHANGED kernel
        /\ \/ \E f \in Operations, b \in Blocks, m \in Modes : LockCache(f, b, m)
           \/ \E f \in Operations : FlushBegin(f)
           \/ \E t \in Threads : CallSetBid(t) \/ LockCacheAgain(t)
           \/ \E f \in Frames : Step(f)

Spec == Init /\ [][Next]_vars

-----------------------------------------------------------------------------
(* Properties.                                                             *)

\* Every variable has its type, and the buffer stays within its capacity.
TypeOK ==
  /\ disk \in [Blocks -> Values]
  /\ heap \in [Objs -> BlockCacheObject \cup {None}]
  /\ buffer \in Seq(Objs)
  /\ Len(buffer) <= Capacity
  /\ cache_lock \in Frames \cup {None}
  /\ block_lock \in [Objs -> Frames \cup {None}]
  /\ pc \in [Frames -> PCs]
  /\ arg \in [Frames -> Access \cup {None}]
  /\ handle \in [Frames -> Objs \cup {None}]
  /\ cursor \in Nat \ {0}
  /\ ret \in [Frames -> Values \cup {None}]
  /\ kernel \in {"running", "panicked"}

\* "... to ensure that only one copy of a block in memory": no two live
\* BlockCache objects are for the same block, whoever still holds them.
OneCopyPerBlock ==
  \A o1, o2 \in {o \in Objs : heap[o] # None} :
    heap[o1].block_id = heap[o2].block_id => o1 = o2

\* "... and that only one kernel thread at a time use that copy": two threads
\* inside the guard of a block are never inside the guard of the same block.
ExclusiveUse ==
  \A f1, f2 \in Frames :
    /\ pc[f1] \in {"locked", "index", "sync", "done"}
    /\ pc[f2] \in {"locked", "index", "sync", "done"}
    /\ arg[f1].block = arg[f2].block
    => f1 = f2

\* A cached block that is not marked modified is what the device stores, so
\* recycling it without a write loses nothing (sync's early return).
CleanIsOnDisk ==
  \A o \in Objs :
    /\ heap[o] # None
    /\ ~heap[o].modified
    /\ heap[o].block_id \notin Refused
    => disk[heap[o].block_id] = heap[o].cache

\* "Synchronize the cache back to disk.": after sync the device stores what
\* the cache held.
SyncReachesDisk ==
  [][\A f \in Frames : Sync(f) =>
       disk'[heap[handle[f]].block_id] = heap[handle[f]].cache]_vars

\* get panics for want of a buffer only while at least as many threads as there
\* are buffers are inside update_dinode or clear_block: other accesses hold the
\* cache lock and so no buffer when get runs, and the buffer of set_bid comes on
\* top of its own thread's.
EnoughBuffers ==
  kernel = "panicked" => Cardinality({t \in Threads : handle[Operation(t)] # None}) >= Capacity

-----------------------------------------------------------------------------
(* The cache implements the block store: the store holds the cached content *)
(* of a block, or what a load would bring in.                               *)

CachedIn(b) == {o \in Objs : heap[o] # None /\ heap[o].block_id = b}

Content ==
  [b \in Blocks |-> IF CachedIn(b) # {}
                    THEN heap[CHOOSE o \in CachedIn(b) : TRUE].cache
                    ELSE DeviceRead(b)]

Request == [f \in Frames |-> IF arg[f] = None THEN None ELSE arg[f].block]

Store == INSTANCE BlockStore WITH Clients <- Frames, store <- Content, request <- Request

\* Every behaviour of the cache, seen through the requests of the frames and
\* the values they read, is a behaviour of an atomic block store: each access
\* takes effect at one step between get and the drop of its Arc.
ImplementsStore == Store!StoreSpec
=============================================================================
