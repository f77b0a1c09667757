------------------------------- MODULE Format -------------------------------
(***************************************************************************)
(* FileSystem::create (fs/src/lib.rs): the layout of a new file system,    *)
(* init_fs, which writes it through block caches of its own, and open.     *)
(*                                                                         *)
(* Three caches see the device one after the other: that of init_fs, that  *)
(* of the file system init_fs opens to make the root inode, and that of    *)
(* the file system create returns.  The first two overlap; each writes     *)
(* back what it has modified when it evicts, flushes or is dropped.  The   *)
(* program is sequential, so nothing but the deque refers to a buffer when *)
(* the next block is asked for.  A step makes at most one device write,    *)
(* so an invariant on `disk` speaks of a power cut at any point.           *)
(*                                                                         *)
(* A block is a sequence of words.  A bit of a bitmap and the type of an   *)
(* inode take a word each: a zeroed block reads as a bitmap with no bit    *)
(* set and as inodes of type Invalid.                                      *)
(***************************************************************************)
EXTENDS Naturals, Sequences

CONSTANTS Totals,          \* the sizes, in blocks, of the devices to format
          InodeBlocks,     \* the numbers of inode blocks asked for
          BlockSize,       \* BLOCK_SIZE, also the size of a BitmapBlock
          ByteBits,        \* 8
          InodesPerBlock,  \* INODES_PER_BLOCK
          BufferSize       \* BLOCK_BUFFER_SIZE

Words == BlockSize * ByteBits

\* Eight fields of a super block must fit.  Devices have the two blocks that
\* create takes off unchecked.
ASSUME FormatAssumption ==
  /\ {BlockSize, ByteBits, InodesPerBlock, BufferSize} \subseteq Nat \ {0}
  /\ Words >= 8 /\ InodesPerBlock <= Words
  /\ Totals \subseteq Nat \ {0, 1} /\ InodeBlocks \subseteq Nat

VARIABLES total, inode_blocks,  \* the arguments of create
          sb,      \* the super block it computes
          before,  \* what was on the device: "blank", "garbage" or "formatted"
          disk,
          cache,   \* the buffers of each cache, in the order they were loaded
          pc, i,   \* where the program is, and its loop variable
          tool     \* "running" or "panicked"; MkFs has "spinning"

formatVars == <<total, inode_blocks, sb, before, disk, cache, pc, i, tool>>

FsMagic == 1056
Directory == 2
Old == 7  \* a word of no meaning
SUPER_BLOCK_LOC == 1

Filled(w) == [k \in 1 .. Words |-> w]

-----------------------------------------------------------------------------
(* The layout *)

\* (Mutant) the data area is not reduced by its bitmap.
LayoutOverlong(n, iblocks) ==
  LET imap == iblocks \div BlockSize + 1
      rest == n - 2 - imap - iblocks
      dmap == (rest \div BlockSize) \div ByteBits + 1
      istart == SUPER_BLOCK_LOC + 1 + imap
  IN  [blocks |-> n, inode_bmap_start |-> SUPER_BLOCK_LOC + 1, inode_start |-> istart,
       inode_blocks |-> iblocks, data_bmap_start |-> istart + iblocks,
       data_start |-> istart + iblocks + dmap, data_blocks |-> rest]

\* The arithmetic of create; one block is the super block and one the boot block,
\* which it calls the logging block.
Layout(n, iblocks) ==
  LET imap == iblocks \div BlockSize + 1
      rest == n - 2 - (imap + iblocks)
      dmap == (rest \div BlockSize) \div ByteBits + 1
      istart == SUPER_BLOCK_LOC + 1 + imap
  IN  [blocks |-> n, inode_bmap_start |-> SUPER_BLOCK_LOC + 1, inode_start |-> istart,
       inode_blocks |-> iblocks, data_bmap_start |-> istart + iblocks,
       data_start |-> istart + iblocks + dmap, data_blocks |-> rest - dmap]

\* assert!(rest_blocks > inode_area)
HasRoom(n, iblocks) == n - 2 > iblocks \div BlockSize + 1 + iblocks

\* The super block as it is stored, and as it is read.
Encoded(l) ==
  [Filled(0) EXCEPT ![1] = FsMagic, ![2] = l.blocks, ![3] = l.inode_bmap_start,
                    ![4] = l.inode_start, ![5] = l.inode_blocks,
                    ![6] = l.data_bmap_start, ![7] = l.data_start, ![8] = l.data_blocks]
Decoded(b) ==
  [blocks |-> b[2], inode_bmap_start |-> b[3], inode_start |-> b[4], inode_blocks |-> b[5],
   data_bmap_start |-> b[6], data_start |-> b[7], data_blocks |-> b[8]]

IsValid(b) == b[1] = FsMagic

MaxInodeNum(l) == l.inode_blocks * InodesPerBlock

\* SuperBlock::find_inode
FindInode(l, inum) ==
  [block |-> inum \div InodesPerBlock + l.inode_start, word |-> (inum % InodesPerBlock) + 1]

\* What the device may hold: nothing, no file system, or one that was full.
Content(what, n) ==
  [b \in 0 .. n - 1 |->
     CASE what = "blank" -> Filled(0)
       [] what = "garbage" -> Filled(Old)
       [] what = "formatted" -> IF b = SUPER_BLOCK_LOC THEN Encoded(Layout(n, 1)) ELSE Filled(1)]

FormatInit ==
  /\ total \in Totals /\ inode_blocks \in InodeBlocks
  /\ before \in {"blank", "garbage", "formatted"}
  /\ disk = Content(before, total)
  /\ sb = Decoded(Filled(0))
  /\ cache = [c \in {"init_fs", "root", "fs"} |-> <<>>]
  /\ pc = "create" /\ i = 0 /\ tool = "running"

-----------------------------------------------------------------------------
(* The block caches *)

Buffer(c, b) == {k \in 1 .. Len(cache[c]) : cache[c][k].bid = b}

\* (Mutant) a buffer that was written counts as modified.
SyncedNot(e) == e

\* sync: the buffer and the disk afterwards.
Synced(e) == [e EXCEPT !.modified = FALSE]
WrittenBack(d, e) == IF e.modified THEN [d EXCEPT ![e.bid] = e.val] ELSE d

\* BlockCacheBuffer::get: a hit, or the buffers and the disk after the first one
\* was evicted, if need be, and the block loaded.
Loaded(c, b) ==
  LET full == Len(cache[c]) = BufferSize
      d == IF full THEN WrittenBack(disk, cache[c][1]) ELSE disk
      rest == IF full THEN Tail(cache[c]) ELSE cache[c]
  IN  IF Buffer(c, b) # {} THEN [buffers |-> cache[c], disk |-> disk]
      ELSE [buffers |-> Append(rest, [bid |-> b, val |-> d[b], modified |-> FALSE]), disk |-> d]

\* The content of block b as cache c shows it.
Shown(c, b) ==
  IF Buffer(c, b) # {} THEN cache[c][CHOOSE k \in Buffer(c, b) : TRUE].val ELSE disk[b]

\* get(b), then read: the block is in the cache.
Read(c, b) ==
  /\ cache' = [cache EXCEPT ![c] = Loaded(c, b).buffers]
  /\ disk' = Loaded(c, b).disk

\* get(b), then write: the block is in the cache and modified.
Write(c, b, val) ==
  /\ cache' = [cache EXCEPT ![c] =
       [k \in 1 .. Len(Loaded(c, b).buffers) |->
          IF Loaded(c, b).buffers[k].bid = b THEN [bid |-> b, val |-> val, modified |-> TRUE]
          ELSE Loaded(c, b).buffers[k]]]
  /\ disk' = Loaded(c, b).disk

Goto(label, n) == pc' = label /\ i' = n
Panic == tool' = "panicked" /\ UNCHANGED <<pc, i>>
At(label) == tool = "running" /\ pc = label
Args == <<total, inode_blocks, before>>

-----------------------------------------------------------------------------
(* create and init_fs *)

Create ==
  /\ At("create")
  /\ IF HasRoom(total, inode_blocks)
     THEN /\ sb' = Layout(total, inode_blocks)
          /\ Goto("clear", sb'.inode_bmap_start) /\ UNCHANGED tool
     ELSE Panic /\ UNCHANGED sb
  /\ UNCHANGED <<Args, disk, cache>>

\* Clear all non-data blocks.
ClearBlock ==
  /\ At("clear")
  /\ IF i < sb.data_start
     THEN Write("init_fs", i, Filled(0)) /\ Goto("clear", i + 1)
     ELSE Goto("super", 0) /\ UNCHANGED <<disk, cache>>
  /\ UNCHANGED <<Args, sb, tool>>

WriteSuper ==
  /\ At("super")
  /\ Write("init_fs", SUPER_BLOCK_LOC, Encoded(sb))
  /\ Goto("flush", 1)
  /\ UNCHANGED <<Args, sb, tool>>

\* (Mutant) the buffer loaded last is written first.
FlushedNewestFirst(k) == Len(cache["init_fs"]) + 1 - k

\* flush goes from the oldest buffer to the newest.
Flushed(k) == k

Flush ==
  /\ At("flush")
  /\ IF i <= Len(cache["init_fs"])
     THEN /\ disk' = WrittenBack(disk, cache["init_fs"][Flushed(i)])
          /\ cache' = [cache EXCEPT !["init_fs"][Flushed(i)] = Synced(@)]
          /\ Goto("flush", i + 1)
     ELSE Goto("check", 0) /\ UNCHANGED <<disk, cache>>
  /\ UNCHANGED <<Args, sb, tool>>

\* "Failed to initialize the super block."
CheckSuper ==
  /\ At("check")
  /\ Read("init_fs", SUPER_BLOCK_LOC)
  /\ IF Shown("init_fs", SUPER_BLOCK_LOC) = Encoded(sb)
     THEN Goto("open_root", 0) /\ UNCHANGED tool ELSE Panic
  /\ UNCHANGED <<Args, sb>>

\* open(dev, true), twice: for the root inode, and at the end of create.
Open(c, label, next, n) ==
  /\ At(label)
  /\ Read(c, SUPER_BLOCK_LOC)
  /\ IF IsValid(Shown(c, SUPER_BLOCK_LOC))
     THEN /\ sb' = Decoded(Shown(c, SUPER_BLOCK_LOC))
          /\ Goto(next, n) /\ UNCHANGED tool
     ELSE Panic /\ UNCHANGED sb
  /\ UNCHANGED Args

\* BitmapBlock::allocate: the least bit that is clear, as a word of the block.
ClearWords(b) == {k \in 1 .. Words : b[k] = 0}
LeastWord(S) == CHOOSE k \in S : \A j \in S : k <= j

\* allocate_bmap of allocate_inode(Directory): one block of the inode bitmap.  `i`
\* becomes the inode number; init_fs's Err is unwrapped by create.
AllocateRoot ==
  LET b == Shown("root", i)
      bit == LeastWord(ClearWords(b)) - 1
      inum == (i - sb.inode_bmap_start) * Words + bit
  IN  /\ At("allocate_root")
      /\ IF i = sb.inode_start
         THEN Panic /\ UNCHANGED <<disk, cache>>
         ELSE IF ClearWords(b) = {}
         THEN Write("root", i, b) /\ Goto("allocate_root", i + 1) /\ UNCHANGED tool
         ELSE /\ Write("root", i, [b EXCEPT ![bit + 1] = 1])
              /\ IF inum >= MaxInodeNum(sb)
                 THEN Panic ELSE Goto("init_root", inum) /\ UNCHANGED tool
      /\ UNCHANGED <<Args, sb>>

\* The inode is fetched and initialized; create asserts that it is inode 0.
InitRoot ==
  LET at == FindInode(sb, i) IN
  /\ At("init_root")
  /\ Write("root", at.block, [Shown("root", at.block) EXCEPT ![at.word] = Directory])
  /\ IF i = 0 THEN Goto("drop_root", 0) /\ UNCHANGED tool ELSE Panic
  /\ UNCHANGED <<Args, sb>>

\* A cache goes out of scope: its buffers are dropped from front to back.  Locals are
\* dropped in the reverse of their order, so the cache of init_fs is the last.
Drop(c, label, next) ==
  /\ At(label)
  /\ IF cache[c] = <<>>
     THEN Goto(next, 0) /\ UNCHANGED <<disk, cache>>
     ELSE /\ disk' = WrittenBack(disk, cache[c][1])
          /\ cache' = [cache EXCEPT ![c] = Tail(@)]
          /\ UNCHANGED <<pc, i>>
  /\ UNCHANGED <<Args, sb, tool>>

DoFormat ==
  \/ Create \/ ClearBlock \/ WriteSuper \/ Flush \/ CheckSuper
  \/ Open("root", "open_root", "allocate_root", SUPER_BLOCK_LOC + 1)
  \/ AllocateRoot \/ InitRoot
  \/ Drop("root", "drop_root", "drop_init_fs")
  \/ Drop("init_fs", "drop_init_fs", "open")
  \/ Open("fs", "open", "created", 0)

FormatSpec == FormatInit /\ [][DoFormat]_formatVars

-----------------------------------------------------------------------------
\* The areas of the layout follow one another to the end of the device, the bitmap of
\* the data area has a bit for every data block, and every inode number that can be
\* allocated lies in the inode area.
Fits(l, n) ==
  /\ l.inode_bmap_start < l.inode_start /\ l.inode_start <= l.data_bmap_start
  /\ l.data_bmap_start < l.data_start /\ l.data_start + l.data_blocks = l.blocks
  /\ l.blocks = n
  /\ l.data_blocks \in 0 .. (l.data_start - l.data_bmap_start) * Words
  /\ \A inum \in 0 .. MaxInodeNum(l) - 1 :
       FindInode(l, inum).block \in l.inode_start .. l.data_bmap_start - 1
LayoutFits == pc # "create" => Fits(sb, total)

\* On a device that held no file system, a valid super block is on the disk only once
\* every bitmap and inode block is on it, cleared but for the root: format the device
\* half way, cut the power, and open refuses it.
Metadata == sb.inode_bmap_start .. sb.data_start - 1
RootWord(b, k) ==
  CASE b = sb.inode_bmap_start /\ k = 1 -> 1
    [] b = sb.inode_start /\ k = 1 -> Directory
    [] OTHER -> 0
ValidMeansFormatted ==
  (before # "formatted" /\ IsValid(disk[SUPER_BLOCK_LOC])) =>
    /\ disk[SUPER_BLOCK_LOC] = Encoded(sb)
    /\ \A b \in Metadata, k \in 1 .. Words : disk[b][k] \in {0, RootWord(b, k)}

\* When create returns, the disk holds an empty file system whatever was there before,
\* with the root directory as inode 0 and no other inode or block in use, and no cache
\* that is still alive has anything to write.
FreshFileSystem ==
  pc = "created" =>
    /\ disk[SUPER_BLOCK_LOC] = Encoded(Layout(total, inode_blocks))
    /\ \A b \in Metadata, k \in 1 .. Words : disk[b][k] = RootWord(b, k)
    /\ \A c \in DOMAIN cache : \A k \in 1 .. Len(cache[c]) : ~cache[c][k].modified
=============================================================================
