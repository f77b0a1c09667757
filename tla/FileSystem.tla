----------------------------- MODULE FileSystem -----------------------------
(***************************************************************************)
(* The file system (fs/src/lib.rs, fs/src/block_dev.rs): create_inode,     *)
(* resize_inode, write_inode and read_inode, called by several threads,    *)
(* with the bitmaps, the disk inodes, their direct blocks and the index    *)
(* block.                                                                  *)
(*                                                                         *)
(* A step is what one locked access to a block does; BlockCache shows that *)
(* such an access sees and changes the one copy of the block, and          *)
(* InodeCache when the in-memory inode equals the disk inode, so neither   *)
(* cache appears here.  The caller of an operation holds the lock of the   *)
(* inode (a MutexGuard) until it returns.  The new inode of create_inode   *)
(* is locked by nobody else before the lock of its directory is released.  *)
(*                                                                         *)
(* Sizes and offsets count units of DIR_ENTRY_SIZE bytes; a unit read as a *)
(* DirEntry has a name and an inode number, and is Zero when it is all     *)
(* zero bytes.  Calls that return an error before they have changed        *)
(* anything (InvalidName, AlreadyExist, TooLarge, the size an inode        *)
(* already has) are not steps.                                             *)
(*                                                                         *)
(* The model ends (kernel) where the code stops or leaves its data:        *)
(*   "panicked"  a transfer begins beyond the end of the file, and a debug *)
(*               build checks the subtraction; a release build wraps and   *)
(*               goes on beyond the end,                                   *)
(*   "astray"    and then reaches a block that is not mapped,              *)
(*   "spinning"  read_data asks for a block above N_DIRECT: get_bid then   *)
(*               locks the block cache, which the same expression has      *)
(*               locked already, and nobody gets it again.                 *)
(***************************************************************************)
EXTENDS Naturals, Sequences, FiniteSets

CONSTANTS Threads, None,
          Build,       \* "debug" or "release"
          OldUnits,    \* what the data blocks hold before they are used
          Names,       \* the names files are created with
          Values,      \* what a unit of file data can hold
          InodesNum,   \* max_inode_num()
          ImapBits,    \* the bits in the inode bitmap
          DataBlocks,  \* sb.data_blocks
          DmapBits,    \* the bits in the data bitmap
          DataStart,   \* sb.data_start
          BlockSize,   \* BLOCK_SIZE, in units
          NDirect,     \* N_DIRECT
          NIndirect,   \* N_INDIRECT
          SizeLimit,   \* bound: files are resized up to this size
          DataLimit    \* bound: data written or read at once

ASSUME FileSystemAssumption ==
  /\ {InodesNum, ImapBits, DataBlocks, DmapBits, DataStart, BlockSize, NDirect,
      NIndirect} \subseteq Nat \ {0}
  /\ InodesNum <= ImapBits /\ DataBlocks <= DmapBits
  /\ SizeLimit \in Nat /\ DataLimit \in Nat
  /\ Build \in {"debug", "release"}
  /\ None \notin Threads \cup Names \cup Values \cup Nat

Inodes == 0 .. InodesNum - 1
DataIds == DataStart .. DataStart + DataBlocks - 1
Capacity == (NDirect + NIndirect) * BlockSize

Zero == [name |-> None, inum |-> 0]
DirEntry(name, inum) == [name |-> name, inum |-> inum]
Datum(v, k) == [name |-> v, inum |-> k]

VARIABLES imap, dmap,  \* the bits set in the two bitmaps
          dinode,      \* the disk inodes
          block,       \* the units of each data block
          index,       \* the entries of block 0 when it is used as an index block
          ilock,       \* the thread that has locked an inode, or None
          op,          \* the operation each thread is in
          kernel,      \* "running", or how it ended
          failed       \* history: an operation returned an error after it
                       \* had allocated something

vars == <<imap, dmap, dinode, block, index, ilock, op, kernel, failed>>

Initialized(type) ==
  [type |-> type, indirect |-> 0, links |-> 0, size |-> 0,
   addresses |-> [i \in 0 .. NDirect - 1 |-> 0]]

NoOp == [pc |-> "idle", ino |-> None, name |-> None, type |-> None, new |-> None,
         size |-> 0, i |-> 0, bid |-> None, off |-> 0, start |-> 0, end |-> 0,
         data |-> <<>>]

\* A new file system: init_fs has cleared the blocks before data_start and created
\* the root directory, inode 0.  It leaves the data blocks as they were.
Init ==
  /\ imap = {0} /\ dmap = {}
  /\ dinode = [f \in Inodes |-> Initialized(IF f = 0 THEN "Directory" ELSE "Invalid")]
  /\ block \in [DataIds -> [0 .. BlockSize - 1 -> OldUnits]]
  /\ index = [k \in 0 .. NIndirect - 1 |-> 0]
  /\ ilock = [f \in Inodes |-> None]
  /\ op = [t \in Threads |-> NoOp]
  /\ kernel = "running"
  /\ failed = FALSE

-----------------------------------------------------------------------------
\* get_bid: `indirect` is 0 in every inode, the index block is block 0.
Bid(f, idx) ==
  IF idx < NDirect THEN dinode[f].addresses[idx] ELSE index[idx - NDirect]

\* The units of an inode, as read_inode delivers them.
UnitAt(f, k) == block[Bid(f, k \div BlockSize)][k % BlockSize]
Content(f) == [k \in 1 .. dinode[f].size |-> UnitAt(f, k - 1)]

CeilDiv(a, b) == (a + b - 1) \div b
MinOf(a, b) == IF a < b THEN a ELSE b

\* look_up: some entry of the directory has the name.  The entries are read in
\* turn, and those above the direct blocks cannot be.
Readable == NDirect * BlockSize
LookUp(d, name) ==
  \E k \in 1 .. MinOf(dinode[d].size, Readable) : UnitAt(d, k - 1).name = name

\* (Mutant) the lock of the inode is not taken.
StartUnlocked(t, f, o) ==
  /\ op[t].pc = "idle"
  /\ op' = [op EXCEPT ![t] = o]
  /\ UNCHANGED ilock

\* A thread locks an inode and calls an operation on it.
Start(t, f, o) ==
  /\ op[t].pc = "idle" /\ ilock[f] = None
  /\ ilock' = [ilock EXCEPT ![f] = t]
  /\ op' = [op EXCEPT ![t] = o]

Finish(t) ==
  /\ op' = [op EXCEPT ![t] = NoOp]
  /\ ilock' = [ilock EXCEPT ![op[t].ino] = None]

Goto(t, pc) == op' = [op EXCEPT ![t].pc = pc] /\ UNCHANGED ilock

\* The operation returns an error.
Fail(t) == Finish(t) /\ failed' = TRUE

(***************************************************************************)
(* create_inode                                                            *)
(***************************************************************************)
CreateInode(t, d, name, type) ==
  /\ dinode[d].type = "Directory" /\ ~LookUp(d, name)
  /\ kernel' = IF dinode[d].size > Readable THEN "spinning" ELSE kernel
  /\ Start(t, d, [NoOp EXCEPT !.pc = "allocate_inode", !.ino = d, !.name = name,
                              !.type = type, !.off = dinode[d].size,
                              !.size = dinode[d].size + 1])
  /\ UNCHANGED <<imap, dmap, dinode, block, index, failed>>

\* BitmapBlock::allocate: the least clear bit.
ClearBits(map, bits) == {b \in 0 .. bits - 1 : b \notin map}
Least(S) == CHOOSE b \in S : \A c \in S : b <= c

AllocateInode(t) ==
  /\ op[t].pc = "allocate_inode"
  /\ LET clear == ClearBits(imap, ImapBits) IN
     IF clear = {}
     THEN Fail(t) /\ UNCHANGED imap
     ELSE /\ imap' = imap \cup {Least(clear)}
          /\ IF Least(clear) >= InodesNum
             THEN Fail(t)
             ELSE /\ op' = [op EXCEPT ![t].pc = "init_inode", ![t].new = Least(clear)]
                  /\ UNCHANGED <<ilock, failed>>
  /\ UNCHANGED <<dmap, dinode, block, index>>

InitInode(t) ==
  /\ op[t].pc = "init_inode"
  /\ dinode' = [dinode EXCEPT ![op[t].new] = Initialized(op[t].type)]
  /\ Goto(t, "resize")
  /\ UNCHANGED <<imap, dmap, block, index, failed>>

(***************************************************************************)
(* resize_inode                                                            *)
(***************************************************************************)
ResizeInode(t, f, n) ==
  /\ dinode[f].type = "File" /\ n > dinode[f].size /\ n <= Capacity
  /\ Start(t, f, [NoOp EXCEPT !.pc = "resize", !.ino = f, !.size = n])
  /\ UNCHANGED <<imap, dmap, dinode, block, index, failed>>

\* What follows in the caller when resize_inode returns Ok.
Resized(t) == IF op[t].new = None THEN Finish(t) ELSE Goto(t, "write_entry")

\* (Mutant) a partial last block is not counted.
BaseIdxFloor(old) == old \div BlockSize

BaseIdx(old) == CeilDiv(old, BlockSize)

\* What has to be added beyond the last block, 0 when it has room for everything.
Increment(old, n) ==
  LET room == (BlockSize - (old % BlockSize)) % BlockSize
  IN  IF n - old <= room THEN 0 ELSE n - old - room

\* (Mutant) a full last block counts twice.
NeededPlusOne(old, n) == Increment(old, n) \div BlockSize + 1

NeededBlocks(old, n) == CeilDiv(Increment(old, n), BlockSize)

SetInodeSize(t) == dinode' = [dinode EXCEPT ![op[t].ino].size = op[t].size]

Resize(t) ==
  /\ op[t].pc = "resize"
  /\ IF op[t].size > Capacity
     THEN Fail(t) /\ UNCHANGED dinode
     ELSE /\ IF Increment(dinode[op[t].ino].size, op[t].size) = 0
             THEN SetInodeSize(t) /\ Resized(t)
             ELSE Goto(t, "allocate_block") /\ UNCHANGED dinode
          /\ UNCHANGED failed
  /\ UNCHANGED <<imap, dmap, block, index>>

AllocateDataBlock(t) ==
  /\ op[t].pc = "allocate_block"
  /\ LET clear == ClearBits(dmap, DmapBits) IN
     IF clear = {}
     THEN Fail(t) /\ UNCHANGED dmap
     ELSE /\ dmap' = dmap \cup {Least(clear)}
          /\ IF Least(clear) >= DataBlocks
             THEN Fail(t)
             ELSE /\ op' = [op EXCEPT ![t].pc = "clear_block",
                                      ![t].bid = DataStart + Least(clear)]
                  /\ UNCHANGED <<ilock, failed>>
  /\ UNCHANGED <<imap, dinode, block, index>>

\* (Mutant) the block is not cleared.
ClearBlockNot(t) ==
  /\ op[t].pc = "clear_block"
  /\ Goto(t, "set_bid")
  /\ UNCHANGED <<imap, dmap, dinode, block, index, failed>>

ClearBlock(t) ==
  /\ op[t].pc = "clear_block"
  /\ block' = [block EXCEPT ![op[t].bid] = [k \in 0 .. BlockSize - 1 |-> Zero]]
  /\ Goto(t, "set_bid")
  /\ UNCHANGED <<imap, dmap, dinode, index, failed>>

\* set_bid through update_dinode; the loop goes on, or its end is reached.
SetBid(t) ==
  LET f == op[t].ino
      old == dinode[f].size
      idx == BaseIdx(old) + op[t].i
  IN  /\ op[t].pc = "set_bid"
      /\ IF idx < NDirect
         THEN /\ dinode' = [dinode EXCEPT ![f].addresses[idx] = op[t].bid]
              /\ UNCHANGED index
         ELSE /\ index' = [index EXCEPT ![idx - NDirect] = op[t].bid]
              /\ UNCHANGED dinode
      /\ op' = [op EXCEPT ![t].i = @ + 1, ![t].bid = None,
                          ![t].pc = IF op[t].i + 1 < NeededBlocks(old, op[t].size)
                                    THEN "allocate_block" ELSE "set_size"]
      /\ UNCHANGED <<imap, dmap, block, ilock, failed>>

SetSize(t) ==
  /\ op[t].pc = "set_size"
  /\ SetInodeSize(t)
  /\ Resized(t)
  /\ UNCHANGED <<imap, dmap, block, index, failed>>

(***************************************************************************)
(* The rest of create_inode.                                               *)
(***************************************************************************)
WriteEntry(t) ==
  /\ op[t].pc = "write_entry"
  /\ block' = [block EXCEPT
       ![Bid(op[t].ino, op[t].off \div BlockSize)][op[t].off % BlockSize]
         = DirEntry(op[t].name, op[t].new)]
  /\ Goto(t, "link")
  /\ UNCHANGED <<imap, dmap, dinode, index, failed>>

Link(t) ==
  /\ op[t].pc = "link"
  /\ dinode' = [dinode EXCEPT ![op[t].new].links = @ + 1]
  /\ Finish(t)
  /\ UNCHANGED <<imap, dmap, block, index, failed>>

(***************************************************************************)
(* write_inode and read_inode: the loops of write_data and read_data.      *)
(***************************************************************************)
\* The end of a transfer: `size - offset` is an unsigned subtraction.
SafeEnd(size, off, len) == IF off <= size THEN off + MinOf(len, size - off) ELSE off + len

\* The subtraction is defined, or its overflow is not checked.
Defined(f, off) == off <= dinode[f].size \/ Build = "release"

WriteInode(t, f, off, data) ==
  /\ dinode[f].type = "File" /\ Defined(f, off)
  /\ Start(t, f, [NoOp EXCEPT !.pc = "write", !.ino = f, !.off = off, !.start = off,
                              !.end = SafeEnd(dinode[f].size, off, Len(data)),
                              !.data = data])
  /\ UNCHANGED <<imap, dmap, dinode, block, index, failed>>

ReadInode(t, f, off, len) ==
  /\ dinode[f].type = "File" /\ Defined(f, off)
  /\ Start(t, f, [NoOp EXCEPT !.pc = "read", !.ino = f, !.off = off, !.start = off,
                              !.end = SafeEnd(dinode[f].size, off, len)])
  /\ UNCHANGED <<imap, dmap, dinode, block, index, failed>>

\* "attempt to subtract with overflow", in read_data or write_data.
Underflow(t, f, off) ==
  /\ dinode[f].type = "File" /\ ~Defined(f, off)
  /\ Start(t, f, [NoOp EXCEPT !.pc = "underflow", !.ino = f, !.off = off])
  /\ kernel' = "panicked"
  /\ UNCHANGED <<imap, dmap, dinode, block, index, failed>>

\* (Mutant) the chunk is not cut at the boundary of the block.
ChunkUncut(start, end) == MinOf(end - start, BlockSize)

\* end.min((start_block + 1) * BLOCK_SIZE) - start
Chunk(start, end) == MinOf(end, (start \div BlockSize + 1) * BlockSize) - start

WriteChunk(t) ==
  LET o == op[t]
      incr == Chunk(o.start, o.end)
      lo == o.start % BlockSize
      b == Bid(o.ino, o.start \div BlockSize)
  IN  /\ o.pc = "write" /\ o.start < o.end
      /\ kernel' = IF b \in DataIds THEN kernel ELSE "astray"
      /\ block' = [block EXCEPT ![b] =
           [k \in 0 .. BlockSize - 1 |->
              IF k \in lo .. lo + incr - 1 THEN o.data[o.start - o.off + k - lo + 1]
              ELSE @[k]]]
      /\ op' = [op EXCEPT ![t].start = o.start + incr]
      /\ UNCHANGED <<imap, dmap, dinode, index, ilock, failed>>

ReadChunk(t) ==
  LET o == op[t]
      incr == Chunk(o.start, o.end)
      idx == o.start \div BlockSize
  IN  /\ o.pc = "read" /\ o.start < o.end
      /\ kernel' = IF idx >= NDirect THEN "spinning"
                   ELSE IF Bid(o.ino, idx) \notin DataIds THEN "astray" ELSE kernel
      /\ IF kernel' = "running"
         THEN op' = [op EXCEPT ![t].start = o.start + incr,
                               ![t].data = @ \o [k \in 1 .. incr |->
                                 block[Bid(o.ino, idx)][(o.start + k - 1) % BlockSize]]]
         ELSE UNCHANGED op
      /\ UNCHANGED <<imap, dmap, dinode, block, index, ilock, failed>>

Return(t) ==
  /\ op[t].pc \in {"write", "read"} /\ op[t].start = op[t].end
  /\ Finish(t)
  /\ UNCHANGED <<imap, dmap, dinode, block, index, failed>>

Next ==
  /\ kernel = "running"
  /\ \E t \in Threads :
     \/ \E f \in Inodes, off \in 0 .. SizeLimit : Underflow(t, f, off)
     \/ \E f \in Inodes, name \in Names, type \in {"File", "Directory"} :
          CreateInode(t, f, name, type)
     \/ WriteChunk(t) \/ ReadChunk(t)
     \/ /\ UNCHANGED kernel
        /\ \/ \E f \in Inodes :
                \/ \E n \in 1 .. SizeLimit : ResizeInode(t, f, n)
                \/ \E off \in 0 .. SizeLimit, v \in Values, len \in 1 .. DataLimit :
                     WriteInode(t, f, off, [k \in 1 .. len |-> Datum(v, k)])
                \/ \E off \in 0 .. SizeLimit, len \in 1 .. DataLimit :
                     ReadInode(t, f, off, len)
           \/ AllocateInode(t) \/ InitInode(t) \/ Resize(t) \/ AllocateDataBlock(t)
           \/ ClearBlock(t) \/ SetBid(t) \/ SetSize(t) \/ WriteEntry(t) \/ Link(t)
           \/ Return(t)

Spec == Init /\ [][Next]_vars

-----------------------------------------------------------------------------
Mapped(f) == 0 .. CeilDiv(dinode[f].size, BlockSize) - 1

\* A data block belongs to one place of one inode, and its bit is set.
OwnBlocks ==
  \A f, g \in Inodes : \A i \in Mapped(f), j \in Mapped(g) :
    /\ Bid(f, i) \in DataIds /\ Bid(f, i) - DataStart \in dmap
    /\ Bid(f, i) = Bid(g, j) => f = g /\ i = j

Quiet(d) == ilock[d] = None
Directories == {d \in Inodes : dinode[d].type = "Directory" /\ Quiet(d)}
Entries(d) == 1 .. dinode[d].size

\* In a directory nobody is changing, every entry has a name of its own and
\* refers to an inode that is allocated, initialized and linked exactly once; no
\* two entries, of one or of two directories, refer to the same inode.
EntriesValid ==
  \A d, e \in Directories : \A j \in Entries(d), k \in Entries(e) :
    LET u == Content(d)[j]  w == Content(e)[k] IN
    /\ u.name \in Names /\ u.inum \in imap \ {0}
    /\ dinode[u.inum].type # "Invalid" /\ dinode[u.inum].links = 1
    /\ (d = e /\ u.name = w.name) => j = k
    /\ u.inum = w.inum => d = e /\ j = k

\* When no operation is in progress and none has failed half way, every bit that
\* is set stands for a block some inode uses, or for an inode with an entry.
NothingLeaked ==
  (~failed /\ \A f \in Inodes : Quiet(f)) =>
    /\ dmap = {Bid(p[1], p[2]) - DataStart :
                 p \in {q \in Inodes \X (0 .. NDirect + NIndirect - 1) : q[2] \in Mapped(q[1])}}
    /\ imap = {0} \cup UNION {{Content(d)[k].inum : k \in Entries(d)} : d \in Directories}

\* "Ensure the end address does not exceed the safe range.": read_inode and
\* write_inode end within the file.
WithinFile ==
  \A t \in Threads : op[t].pc \in {"read", "write"} => op[t].end <= dinode[op[t].ino].size

\* What read_inode has copied so far is the content of the inode at that place.
ReadsContent ==
  \A t \in Threads :
    op[t].pc = "read" => op[t].data = SubSeq(Content(op[t].ino), op[t].off + 1, op[t].start)

\* The contents of inodes behave as Files says: operations on one inode never
\* change another, growth adds zeros, a write puts its data in its place.
Writing(t) ==
  LET o == op[t] IN
  CASE o.pc = "write" ->
         [ino |-> o.ino, off |-> o.off, data |-> o.data, done |-> o.start - o.off]
    [] o.pc \in {"write_entry", "link"} ->
         [ino |-> o.ino, off |-> o.off, data |-> <<DirEntry(o.name, o.new)>>,
          done |-> IF o.pc = "link" THEN 1 ELSE 0]
    [] OTHER -> None

Abstract == INSTANCE Files WITH
  content <- [f \in Inodes |-> Content(f)],
  writing <- [t \in Threads |-> Writing(t)]

ImplementsFiles == Abstract!FilesSpec
=============================================================================
