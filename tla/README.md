# A verification of yeli-os in TLA+

yeli-os is a small RISC-V kernel in Rust with a file system crate that runs both in
the kernel and in a host tool. This directory models the parts of it that keep
state, checks them with TLC on small instances, and proves with TLAPS what matters most about
the block cache, the inode cache, the virtio driver, the page tables, the interrupt path,
the once cell and the formatting of a device. `PROJECT.json` holds the machine-readable side:
which definition stands for which lines, which run checks what, the hazards and the
findings.

## 1. The system

| Part | Source | State | Operations | What is hard |
|---|---|---|---|---|
| Block buffer cache | `fs/src/block_cache.rs` | list of shared, separately locked buffers; the disk | `get`, `read`/`write`/`clear`/`sync`, `flush`, drop | two levels of locks, recycling by reference count, write-back in a destructor, ignored device errors |
| Inode cache | `fs/src/inode.rs` | list of shared, locked inodes | `get` (evicts), `update_dinode` | eviction of what is in use |
| File system | `fs/src/lib.rs`, `fs/src/block_dev.rs` | two bitmaps, disk inodes, directory entries, data | create, look up, resize, read, write | many block accesses per operation, failures in the middle, boundary arithmetic |
| Formatting | `fs/src/lib.rs`: `create`, `init_fs`, `open` | the disk under three caches | clear, super block, flush, root inode, drop | caches that overlap, a power cut in the middle, layout arithmetic |
| mkfs and the boot | `fs/src/bin/mkfs.rs`, `kernel/src/lib.rs`: `init_fs` | the image, a buffer, a path | copy the arguments, resolve a path, print a file | reads cut short, boundaries, two programs that must agree |
| File system locks | same | four kinds of spin locks | every operation | lock order, guards that are temporaries |
| virtio block driver | `kernel/src/drivers/virtio` | registers, descriptors, rings, the request on the heap and the caller's buffer | `init`, `read_block`/`write_block`, interrupt handler | a device that runs concurrently and may be left running by the firmware, wrapping indices, memory that must outlive a request |
| Frame allocator | `kernel/src/mem/allocator/buddy_allocator.rs` | free lists inside free memory | `init`, `alloc_pages`, `free_pages` | buddy arithmetic, splitting and merging |
| Slab allocator | `kernel/src/mem/allocator/slab_allocator.rs` | lists of slabs, lists of objects | `alloc`, `free` | links inside the memory handed out, slabs that come and go |
| Page tables | `kernel/src/mem/page/page_table.rs`, `mem/address.rs`, `mem/mod.rs`, `proc/task.rs` | three levels of tables | `map`, `walk`, `kvm_make`, `init_user_page_table`, `user_vm_init` | rounding, shared tables, ranges that must not collide |
| Task list | `kernel/src/proc/task_list.rs` | tasks by pid | `new_task`, `current` | a limit |
| Start and interrupts | `kernel/src/lib.rs`, `kernel/src/intr` | sstatus, sepc, the lock TASKS, the timer | `init`, `kernelvec`, `kerneltrap`, `handle`, `tick` | interrupts at any instruction |
| OnceCell | `kernel/src/sync/once_cell.rs` | flag, value | `set`, `get`, `get_or_init` | the value is read without the lock |

How they meet: a file operation holds inode locks, goes through the inode cache to
the block cache, and from there to a `BlockDevice`, which in the kernel is the virtio
driver. The disk the kernel boots from was formatted and filled by `mkfs` on the host.
The heap under all of it is the slab allocator, which takes whole pages from
the frame allocator, from which page tables come too. Interrupts cut into everything
once `intr::init` has run.

## 2. The modules

`BlockStore`, `BlockDevice`, `FrameAllocator` and `Files` are abstract
specifications: what a component promises to its users. Each is the right-hand side
of a refinement that a run checks.

| Module | Models | Implements |
|---|---|---|
| `BlockCache` | `BlockCacheBuffer` and its users, one lock, load or store at a time | `BlockStore` (atomic reads and writes) |
| `InodeCache` | `InodeCacheBuffer::get`, `update_dinode` | |
| `FileSystem` | bitmaps, inodes, directories, data, one block access at a time | `Files` (contents change only by the operation on that file) |
| `Format` | `create`, `init_fs` and `open`, one device write at a time | |
| `MkFs` | on top of it `mkfs`, path resolution and the kernel's `init_fs` | |
| `FsLocks` | each operation as its sequence of lock and unlock instructions | |
| `VirtioBlk` | set-up, driver, rings, device, interrupt | `BlockDevice` (each call is served once, in its interval) |
| `BuddyAllocator` | free lists, split, merging loop | `FrameAllocator` (no page has two holders) |
| `SlabAllocator` | slabs and objects with their links, emptied slabs | |
| `PageTable` | `map`, one page at a time, `walk` | |
| `AddressSpaces` | the calls of `map` that make the kernel's and the first task's address spaces | |
| `TaskList`, `Traps` | `new_task`; the start and nested timer interrupts on top of it | |
| `OnceCell` | the three methods, with a value that is torn while it is written | |

The `MC...` modules add symmetry sets and small constants for TLC, and in
`MCBlockCacheLRU` the history that one property talks about. Theorems are in
`BlockCacheProofs`, `InodeCacheProofs`, `VirtioBlkProofs`, `PageTableProofs`,
`TrapsProofs`, `OnceCellProofs` and `FormatProofs`.

Conventions. A step is as large as the code allows nobody to look in between: what
runs under a lock and touches only what the lock protects may be one step, and
wherever a lock, a device register or an unlocked variable is touched a new one
begins. Panics set `kernel` (or the like) to a final value. Operators marked
`(Mutant)` are altered versions of the definition that follows them; no specification
uses them.

### BlockCache
A heap of `BlockCache` objects (`heap`), the deque (`buffer`), the mutex of the deque
(`cache_lock`) and of each object (`block_lock`), and per activation the `Arc` it holds
(`handle`). The strong count is not a variable: it is the number of places an object
is referred to from. The crate accesses blocks in three ways:

* `"stmt"`: a single statement, whose temporary guard keeps the deque locked to its
  end (bitmaps, data, entries, `set_bid`);
* `"clear"`: `let` bindings that release the deque before the block is locked
  (`clear_block`);
* `"update"`: the same, with a closure that runs under the guard of the inode block
  (`update_dinode`). The closure of `resize_inode` calls `set_bid`, which for an index
  above `N_DIRECT` locks the deque again and gets the index block, while the inode block
  stays locked and held.

A thread therefore has two frames, `Operation(t)` and, nested in its closure, `SetBid(t)`:
it may hold two buffers at a time. Dropping the last reference writes back. The
device refuses the blocks in `Refused`, and the code ignores it.

### InodeCache
Copies of inodes on the heap, the list with its LRU order and its eviction of the last
entry, and the update of an inode through `update_dinode`, abstracted to its size.
`grown` and `evicted` are history: how often an inode was enlarged, and which copies
were evicted in use.

### FileSystem and Files
Bitmaps, disk inodes, directory contents and data blocks. `create_inode`,
`resize_inode`, `write_inode`, `read_inode` and `look_up` run as sequences of steps
between which other threads run; inode locks are held as in the code. Block contents
are tagged values; sizes are in units of which a block has `BlockSize`. Data blocks hold
old data before they are used, since `init_fs` clears only what is before them. Allocation
failure leaves behind what the code leaves behind. A transfer that begins beyond the end
of its file subtracts more than there is: a debug build panics (`kernel = "panicked"`), a
release build wraps and goes on beyond the end, until it reaches a block that is not mapped
(`"astray"`). Reading a block above `N_DIRECT` never returns (`"spinning"`). `Files` maps every inode to its
contents and lets only the operation on an inode change it, growth by zeros.

### Format, MkFs
`Format` follows `create` from the layout to the file system it returns. Three block
caches see the device in turn: that of `init_fs`, that of the file system `init_fs`
opens to make the root inode, and that of the file system `create` returns. The first
is dropped after the second, when its function returns. A step makes at most one
device write, so an invariant on `disk` is a statement about a power cut at that
point. A word of a block stands for a bit of a bitmap or the type of an inode. The
device starts blank, with old data, or with a full older file system.

`MkFs` goes on with the image as an inode table, data blocks and block 0, the index
block of every file. `create_inode`, `resize_inode`, `write_data` and `read_data` are
whole steps here, since `mkfs` and the start of the kernel are sequential (their inner
steps are in `FileSystem`). A read of `copy2` may return any positive number of bytes.
The kernel does not see the last block of the device, which its driver refuses
(`Served`). `read_data` calls `get_bid` with the block cache locked, and `get_bid` locks it
again above `N_DIRECT`: whoever reads there, `mkfs` in a large `/bin` or the kernel in a
large directory or file, spins for ever (`tool = "spinning"`). Names and paths are sequences of characters of one byte each. A missing
argument file makes `mkfs` panic at once and is not an input. Directories among the
arguments are given by the list of files that are in them.

### FsLocks
The locks alone: for each operation the sequence of lock and unlock instructions that
the code goes through, with the guards that live to the end of a statement. Spin
locks, no owner re-entry.

### VirtioBlk and BlockDevice
`init` is a sequence of steps over the registers it reads back (`boot`, `regs`): the
device may be absent, fresh or in use by the firmware, with foreign rings that it goes
on looking at until the reset. Then: descriptors 0 to 2, the available and the used
ring with indices modulo `IdxMod`, the
request header, which `send` boxes and drops when it returns (its lifetime is state), the device that serves a
chain at any time and may fail, and the interrupt handler. `Builds` distinguishes a
debug build, which panics on overflow, from a release build, which wraps.
`Interrupts = TRUE` lets the device's interrupt be delivered; the present `plic_init`
leaves the priority of the source at zero, so it is not delivered in fact, and the
module `Traps` has none.

### BuddyAllocator, SlabAllocator
Addresses in pages. The buddy allocator's merging loop is a step per turn. The slab
allocator keeps slabs and their `next` links as they are in memory, so that a link
into memory which was given back is visible. `OnlyHeads` is the condition that only
slabs at the head of their list are emptied; with it the allocator is right, and run
`slab_shared` shows what happens without.

### PageTable, AddressSpaces
Tables of `Fanout` entries and three levels; `Translate` is the hart's walk, written
independently with the page number in base `Fanout`. `done` records finished calls.
`AddressSpaces` adds the lists of calls that `kvm_make`, `init_user_page_table` and
`user_vm_init` make, for any place of `etext` and of the trap frame, beside a table on
which `map` is called at will.

### TaskList, Traps
The start is a sequence of steps in the order of `init()`; each timer interrupt pushes
an activation of `kernelvec` on a stack, and only the newest one runs. `sepc` and
`sstatus` are single registers, saved by nobody. The timer may fire before the last
interrupt has returned; `nested` records that this happened.

### OnceCell
`set` in three steps under the mutex, `get` in two, of which the second is outside of
it; `get_or_init` is built of both.

## 3. What the runs check

Passing runs:

| Run | Shows | Instance |
|---|---|---|
| `block_cache` | one copy per block, exclusive use, unmodified means on disk, no panic before as many threads as there are buffers hold one, refinement of `BlockStore` | 2 threads, each with an access inside another, 3 blocks on 2 buffers (recycling happens, and a nested `get` panics), one refused block |
| `inode_cache` | one copy of an inode, in the list or in use, and no lost update, until an inode in use is evicted | 2 threads, 4 inodes on 3 places |
| `fs` | no block in two places, directory entries valid and names unique, nothing leaked without a failure, reads return the contents, refinement of `Files` (growth adds zeros, whatever the blocks held) | 2 threads, 3 inodes, 3 data blocks of 2 units with old data; bitmaps with a bit too many; transfers at, before and beyond the end; a debug build |
| `mkfs` | the layout fits the device; a valid super block is on a disk only with the bitmaps and inodes it speaks of, even if the power fails half way; `create` leaves an empty file system and nothing to write back; the kernel finds what a path leads to, prints the bytes of the source however reads were cut, and every loop ends but that of reading a file or directory above `N_DIRECT` blocks | devices of 2, 6, 10 and 17 blocks, 0, 1 or 5 inode blocks, blank, with old data or formatted before; thirteen lists of files: none, one from empty to above `CAPACITY_PER_INODE` (one of which is large and boots), two of which one or both are large, five and six for which `/bin` is large, a name too long and one given twice; all paths of up to 4 characters |
| `fs_locks` | every operation returns (files of up to `N_DIRECT` blocks) | 3 threads, one operation each, all kinds |
| `virtio` | after the reset the device looks at the driver's rings only, request memory outlives the device's use of it, the rings are never more than one request apart and the handler finds nothing, refinement of `BlockDevice`, and a thread that holds the driver's lock gives it up unless the kernel panics or a handler spins | a device absent, fresh or used before, 2 threads, queue of 2, indices modulo 4, faults, interrupts, both builds |
| `buddy` | free, held and merging blocks partition the memory, refinement of `FrameAllocator`, and requests are refused only for lack of a block as long as sizes are powers of two | 9 pages, blocks of up to 8, requests of 0 to 5 and of 9 |
| `slab` | disjoint objects, no lost frame, exact counters and lists, as long as only heads are emptied | 2 caches, 3 frames, 4 owners |
| `page_table` | tables form a tree; mapped aligned ranges translate as asked for ever; the address spaces of the kernel and of the first task are made without a panic and hold exactly what they should, address by address | 4 entries per table, 7 tables, aligned and unaligned ranges, two places of `etext`, a trap frame at the start and inside of a page |
| `traps` | every interrupt finds a task; one comes on top of another only after that one has counted its tick and set the timer; as long as none has nested each is handled to its end | 3 nested interrupts, 20 ticks |
| `once_cell` | one whole value for everybody, never overwritten; `get_or_init` returns, so its `unwrap` does not panic | 3 threads, 2 values |

In one run TLC finds that the code does not do what the repository says of it (the
quote is in `findings`): in `slab_shared` a slab emptied behind the head of its list
stays linked, and its memory is handed out twice.

Further disagreements were met while modelling. Each has a configuration that shows it
(`tlc -config X.cfg M`); the passing run of the module states its properties under the
condition that excludes the case.

| Configuration, module | What the code does | What the repository says |
|---|---|---|
| `MCBlockCacheLRU`, `MCBlockCacheLRU` | a hit does not move a buffer: the order is that of loading | `block_cache.rs:88` "Sorted by how recently the buffer used." |
| `MCBlockCacheSync`, `MCBlockCache` | `sync` forgets the modification when the device refuses the write | `block_cache.rs:71` "Synchronize the cache back to disk." |
| `MCInodeCacheFull`, `MCInodeCache` | a full cache evicts an inode in use; an update is lost | `inode.rs:17` "Keeps a cache of in-use inodes in memory ..." |
| `MCFileSystemLarge`, `MCFileSystem` | files above `N_DIRECT` blocks share block 0 as index block | `block_dev.rs:216` "will be stored in the indirect blocks pointed by `indirect`" |
| `MCFileSystemRelease`, `MCFileSystem` | in a release build a transfer that begins beyond the end of a file ends beyond it | `block_dev.rs:321` "Ensure the end address does not exceed the safe range." |
| `FsLocksLarge`, `FsLocks` | reading above `N_DIRECT` blocks locks the block cache twice and never returns | `block_dev.rs:312` "Returns the size of read data." |
| `VirtioBlkLast`, `VirtioBlk` | the last block of the device is refused | `virtio/mod.rs:236` "Read/Write request beyond capacity." |
| `BuddyAllocatorMerge`, `BuddyAllocator` | a block of 3, 5, 6 or 7 pages is not merged when freed | `buddy_allocator.rs:148` says that buddies are merged |
| `BuddyAllocatorMax`, `BuddyAllocator` | the largest documented block cannot be had | `buddy_allocator.rs:12` "16 means 65536 pages" |
| `PageTableTrapFrame`, `PageTable` | `map` rounds the trap frame's address down: it is not where `TRAPFRAME` points | `task.rs:41` "Map the trap frame just below TRAMPOLINE" |
| `TaskListMax`, `TaskList` | one task more than `MAX_PROC` | `proc/mod.rs:16` "Maximum number of processes." |
| `TrapsNested`, `Traps` | an interrupt that comes before the last has returned overwrites `sepc` | `kernelvec.S:80` "return to whatever we ware doing in the kernel." |
| `TrapsLock`, `Traps` | such an interrupt waits for `TASKS`, which its own hart holds | same |

Passing results that rest on a condition. These runs do not show that the code is
right without it; the code does not ensure the condition.

* `traps`: `TrapsReturn` says nothing once interrupts have nested (`TrapsNested`,
  `TrapsLock`). The other two properties have no condition.
* `mkfs`: `PrintsSource` and `ResolvesPath` speak of images whose last block is unused,
  since the kernel's driver refuses it (`VirtioBlkLast`). `PrintsSource` says of a file
  above `N_DIRECT` blocks that its direct blocks are printed; the boot then spins, which
  `Ends` allows there and nowhere else (`FsLocksLarge`). `ValidMeansFormatted` speaks
  of a device that held no file system: on one that did, the old super block stays
  valid while the rest is being cleared.
* `block_cache`: a refused block may be lost, in the cache and in `BlockStore`
  (`MCBlockCacheSync`).
* `slab` cuts off (`CONSTRAINT OnlyHeads`) what follows the emptying of a slab that is
  not the head of its list; `slab_shared` goes on and fails.
* `inode_cache`: `OneCopyUntilEvicted` and `NoLostGrowthUntilEvicted` say nothing after
  an inode in use was evicted (`MCInodeCacheFull`).
* `buddy`: `NoFalseExhaustion` says nothing after a block was freed whose size is no
  power of two (`BuddyAllocatorMerge`). `Partition` and the refinement have no condition.
* `virtio`: `SendReturns` excepts panics and a handler that spins for the lock of the
  thread it interrupted. That deadlock is reached when `Interrupts = TRUE`. Calls begin
  when `init` has returned, as `init_fs` does it.
* `fs_locks` has blocks below `N_DIRECT` only (`FsLocksLarge`).
* `page_table`: `MapsAligned` speaks of page-aligned addresses. `SpacesExact` speaks of
  the page at `TRAPFRAME` only if the trap frame begins a page. It is a field of `Task`, so
  as a rule it does not, and then it is not where `TRAPFRAME` points (`PageTableTrapFrame`).
* `fs`: `NothingLeaked` says nothing after an operation failed half way, since nothing ever
  clears a bit; the other properties hold after a failure too. Files stay within their direct
  blocks (`MCFileSystemLarge`), and the build is a debug build, which stops at a transfer
  beyond the end of a file (`MCFileSystemRelease`).

Why the bounds are enough. The instances are chosen so that the hard case occurs: more
blocks than buffers, so that recycling races with use; more inodes than places; fewer data blocks than the files want, so that
allocation fails in the middle; indices that wrap several times; page ranges that
cross a table at each level and reach `MAX_VA`; files that end inside a block, at its
end, in the last direct block and in the indirect one, and devices on which they do
and do not fit; a block cache of four buffers for up to nine blocks that are cleared, so
that `init_fs` evicts before it flushes. In `traps` the interrupts can come at any step
of the start; the 20 ticks only repeat this. Nesting is proved for every depth.
Seven tables are enough for the kernel's address space, so
`SpacesExact` fails on no shortage of memory; arbitrary calls of `map` do exhaust them.
The counters that the code leaves unbounded (ticks, file sizes, rings) have named
bounds among the constants. `CHECK_DEADLOCK FALSE` appears where the system may really
stop: after a shutdown or panic, when all bounded operations are done, when no mapping
is left to make, and where a thread or an interrupt handler may spin for ever. In
`block_cache` that is a `set_bid` which waits for the deque while the thread that has
locked the deque waits for the inode block (see `FsLocksLarge`).

Fairness. Only weak fairness of a thread's own steps is assumed, since the hart keeps
executing: `spin::Mutex` gives no turns, so nothing is said of who gets a contended
lock. `mkfs` and the start of the kernel are sequential and keep running (weak fairness
of `Next`). In `fs_locks` every thread has a bounded number of operations, so that weak
fairness suffices. `virtio` further assumes that the device answers and that
`init` goes on. In
`once_cell` the mutex is held over several steps once only. In `traps` the code on the
hart goes on; the timer is not assumed to fire.

## 4. What is proved

Each theorem holds for every value of the constants that the named assumptions admit;
TLC evaluates the assumptions on the instances of the runs.

| Module | Theorems | For every | Assumptions |
|---|---|---|---|
| `BlockCacheProofs` | `TypeCorrect`, `OneCopy`, `Exclusive`, `Clean`: `TypeOK`, `OneCopyPerBlock`, `ExclusiveUse`, `CleanIsOnDisk` always hold; `Refinement`: the cache implements the atomic `BlockStore` | set of threads, blocks, values, heap cells, capacity, any index block | `CacheAssumption`: a positive capacity, `None` is no frame and no cell |
| | `PanicsOnlyWhenFull`: `EnoughBuffers` always holds; `NoPanic`: with more buffers than threads `get` never panics | same, finitely many threads | same |
| `InodeCacheProofs` | `OneCopyOfAnInode`, `NoGrowthIsLost`: `OneCopyUntilEvicted` and `NoLostGrowthUntilEvicted` always hold | set of threads and inodes, capacity, number of resizes | `InodeCacheAssumption`: a positive capacity, `None` is no thread, inode or number |
| `VirtioBlkProofs` | `RingsStayInStep`, `RequestStaysAlive`, `DeviceUsesDriverRings`; `DriverImplementsDevice`: driver and device implement `BlockDevice` | number of threads and blocks, capacity, ring size, index width, build, with and without interrupts and faults | `VirtioAssumption`: the ring size divides the index range and is smaller; `NoneAssumption` |
| `TrapsProofs` | `CurrentTaskAlwaysExists`, `AlwaysNestsAtEnd` | `MAX_PROC`, depth of nesting, number of ticks | `TrapsAssumption`, those of `TaskList` |
| `OnceCellProofs` | `GivesOneValue`, `IsWrittenOnce` | set of threads and values | `OnceCellAssumption`: `None` is no thread |
| `PageTableProofs` | `TablesAreTree`, `RangesAreMapped`: `TablesFormTree` and `MapsAligned` always hold; `TranslationsStay`: no step of `map` changes a translation | fanout, page size, number of tables, arguments of `map`, and the calls of `AddressSpaces` | `PageTableAssumption`: at least two entries in a table; `SpacesAssumption`: the order of the kernel's ranges |
| `FormatProofs` | `EveryLayoutFits`: when `create`'s assertion holds the layout fits; `FormatIsSafe`: `LayoutFits`, `ValidMeansFormatted` and `FreshFileSystem` always hold in `FormatSpec` | size of device, inode area, block, inode and block cache, content of the device | `FormatAssumption`: a block has at least eight words and no more inodes than words |

The block cache. `OneCopyPerBlock` is not inductive: `get` searches the deque, so an
object that lives outside of it would be missed. The inductive invariant `IInv` adds

* `BufferInv`: the live objects are exactly those in the deque, each once. Recycling
  keeps it because only objects with strong count 1 are removed;
* `ThreadInv`: what a thread holds at each point. In particular a thread about to load
  (`"load"`) knows that its block is not cached and that there is room, which nobody can
  change as it holds `cache_lock`; a thread that uses a block holds that block's mutex;
* `CleanIsOnDisk`, for the write-back.

One lemma per action shows that it keeps `IInv`. `Exclusive` follows from `ThreadInv`
and `OneCopyPerBlock`: two users of one block would hold the mutex of the same object.
The refinement maps the store to the content of the cached object, or to what a load
would bring; every action but the accesses leaves this unchanged, recycling because of
`CleanIsOnDisk` and `DropArc`. The panics are counted: the thread that is in `get` has
locked the deque, and whoever holds an object by a single statement or in `set_bid` has too.
So the other objects in use are held by the operations `update_dinode` and `clear_block`, one
by each thread, the one in `get` included when its `get` is nested. When all `Capacity`
buffers are in use, that many threads hold one; with more buffers than threads there is
always one to recycle. As many buffers as threads are not enough for this: run
`block_cache` reaches the panic of a nested `get` with two of each.

The inode cache. Until an inode in use is evicted, `Synchronized` holds: a copy in use is
in the list, so `get` finds it and makes no second one (`InUseCached`); copies are of
different inodes (`OneCopy`) and equal to their disk inodes (`UpToDate`); and a thread
that has read a size holds the lock of that copy (`OldIsLocked`), so the size it writes
is one more than the current one. `RoomKeeps`, `MovedToFront` and `PutInFront` say what
becomes of the entries of the list. The step that ends all this is the one that sets
`evicted`.

The driver. Neither `RequestAlive` nor `RingsInStep` is inductive alone. `Invariant`
adds which thread is where when it holds `inner` and that nothing is posted without it
(`LockInvariant`), and what each step of `init` finds in the registers
(`BootInvariant`: between the reset and the last register the device is not live, and
when it goes live the rings are the driver's). Everything else follows from the rings:
at most one request is between the three indices, so a caller that polls sees its own
completion and nobody else's. That an index and its successor differ needs an index
range above 1 (`NextIndex`). The refinement further needs `CallInvariant`: the chain is
the caller's request, and its status byte is not 0 before the device has served it,
so `Ok` is returned only when data has moved. Under it a call is an `Ask`, the device's
work on the chain a `Serve`, a return an `Answer`, and all else a stutter.

The interrupts. `Invariant` says that the task list is empty before `user_init` and has
task 0 afterwards, that interrupts are enabled and taken only at the end of the start,
and that `sie` is off while the newest activation is before the end of `handle`. The
older activations were the newest when they were interrupted, and have not moved since.

The once cell. `SetUnderLock` relates the mutex to the flag: the value is written and
torn only while the flag is false and the writer holds the mutex, and a reader that saw
the flag finds the one value that a `set` returned `Ok` for.

The page tables. The inductive invariant has a level for every table (`Tree`): the entries
of a table at level 2 or 1 lead to a table one level lower, no two entries lead to the same
table, and the root has level 2. `WalkTree` shows that `walk` keeps this and changes no
entry that is in use, so a translation that is `Found` stays, and `Progress` says that the
pages of a call up to the current one are found. `TablesFormTree` alone would not do: it does
not say that a leaf is never taken for a table. That `px` and the rounding compute the
digits that `Translate` uses is arithmetic (`PxIs`, `DivideTwice`, `AddPages`).

Formatting. The data bitmap is sized before it is taken off the area it describes, so
it covers more than needed; `BitmapCovers` shows that it has a bit for each block and
leaves no negative number of blocks. For the power cut, `Phases` says at each step of
`create` and `init_fs` what is on the disk and what waits in which cache: below the
block being cleared every block is zero or waits (`ClearedTo`); the super block is the last
buffer, since it is written last (`SuperLast`), so `flush` writes it after all others
(`FlushedTo`) and evictions before cannot reach it; the first cache is clean when the
second one writes the root's bit and inode (`RootBuffers`, `Settles`), so dropping it later
writes nothing back.

Only model-checked: everything else, and all liveness properties, which need fairness
and `ENABLED` and are beyond the prover, as is induction over the recursive functions
and folds.

## 5. What is not modelled

* `usertrap`, `usertrapret`, `schedule`, `trampoline.S`, `switch.S`: no run of the
  program reaches them, since the call of `schedule` is commented out.
* `list_children`, which only reads and is called by tests, and `walk(va, false)`,
  likewise.
* `calc_inodes_num`, a product of floating point numbers: its result is an input of
  `create`.
* Names of several bytes per character, and a directory tree of arguments: `mkfs` puts
  the files of a directory where it puts single files.
* Console, logger, SBI calls, boot code, backtrace, user programs: no state.
* Which virtio features are accepted; memory ordering of the driver's plain writes
  (steps are sequentially consistent); TLB and `satp`.
* Power loss in the middle of a file operation: the file system has no recovery. Power
  loss while a device is formatted is modelled.

## 6. Plan

1. Compositions: the file system over the cache's replacement, so that dirty blocks and
   refused writes meet the operations; the inode cache under `FileSystem`.
2. `usertrapret` and external interrupts in `Traps`, once the program reaches them.
3. Proofs: `BuddyAllocator` (`Partition`), `AddressSpaces` (`SpacesExact`).
