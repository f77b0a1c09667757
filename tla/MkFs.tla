-------------------------------- MODULE MkFs --------------------------------
(***************************************************************************)
(* The way of a file from the host to the kernel: mkfs                     *)
(* (fs/src/bin/mkfs.rs) formats an image and copies its arguments to /bin, *)
(* and the kernel's init_fs (kernel/src/lib.rs) opens the image, resolves  *)
(* a path in it and prints the file.                                       *)
(*                                                                         *)
(* Format goes first.  From then on the image is an inode table, the bytes *)
(* of the data blocks and block 0, which every inode takes for its index   *)
(* block since nothing sets `indirect`.  No block is ever freed, so the    *)
(* bitmap hands out data blocks in order.  A directory is its list of      *)
(* entries; the bytes that spell them are left zero.  A source file does   *)
(* not change while it is copied.                                          *)
(*                                                                         *)
(* read_data evaluates get_bid with the block cache locked, and get_bid    *)
(* locks it again for a block beyond the direct ones: whoever reads there, *)
(* mkfs in a directory or the kernel in a directory or a file, spins for   *)
(* ever (tool = "spinning").  write_data calls get_bid before it locks.    *)
(***************************************************************************)
EXTENDS Format, SequencesExt, FiniteSetsExt

CONSTANTS ArgLists,      \* the files mkfs may be called with: lists of [name, data]
          Paths,         \* what the kernel may look for; names are lists of characters
          NDirect,       \* N_DIRECT
          NIndirect,     \* N_INDIRECT
          DirNameSize,   \* DIR_NAME_SIZE
          DirEntrySize   \* DIR_ENTRY_SIZE, a divisor of BLOCK_SIZE

ASSUME MkFsAssumption ==
  /\ {NDirect, NIndirect, DirNameSize, DirEntrySize} \subseteq Nat \ {0}
  /\ BlockSize % DirEntrySize = 0

VARIABLES args,
          inodes,      \* the inode table: inode n is inodes[n + 1]
          index,       \* what block 0 holds as an index block
          data,        \* the bytes of each data block that was allocated
          buffer,      \* of copy2
          read_count,  \* of copy2
          path,        \* what is left of the path to resolve
          wanted,      \* the whole path
          at,          \* the inode the kernel is at
          offset, printed  \* of the kernel's loop

copyVars == <<args, inodes, index, data, buffer, read_count>>
bootVars == <<path, wanted, at, offset, printed>>
vars == <<formatVars, copyVars, bootVars>>

Bin == <<"b">>
Slash == "/"
Zeros(n) == [k \in 1 .. n |-> 0]
EmptyInode(type) == [type |-> type, size |-> 0, addresses |-> <<>>, entries |-> <<>>]

MkFsInit ==
  /\ FormatInit
  /\ args \in ArgLists
  /\ inodes = <<EmptyInode("Directory")>> /\ index = Zeros(NIndirect) /\ data = <<>>
  /\ buffer = Zeros(BlockSize) /\ read_count = 0
  /\ path = <<>> /\ wanted = <<>> /\ at = 0 /\ offset = 0 /\ printed = <<>>

-----------------------------------------------------------------------------
(* Inodes and blocks.  The data block with number k is data[k]. *)

InodeOf(t, n) == t[n + 1]

\* The inode numbers allocate_inode can return.
InodesNum == Min({MaxInodeNum(sb), (sb.inode_start - sb.inode_bmap_start) * Words})

BlocksNum(size) == (size + BlockSize - 1) \div BlockSize

\* get_bid
BlockAt(n, idx) ==
  IF idx < NDirect THEN InodeOf(inodes, n).addresses[idx + 1] ELSE index[idx - NDirect + 1]

\* resize_inode of an inode that grows: the state afterwards.  set_bid puts the first
\* blocks into the inode and the others into block 0.
Grown(s, n, size) ==
  LET base == BlocksNum(InodeOf(s.inodes, n).size)
      needed == BlocksNum(size) - base
      fresh == [k \in 1 .. needed |-> Len(s.data) + k]
      direct == SubSeq(fresh, 1, Max({0, Min({needed, NDirect - base})}))
  IN  [inodes |-> [s.inodes EXCEPT ![n + 1].size = size, ![n + 1].addresses = @ \o direct],
       data |-> s.data \o [k \in 1 .. needed |-> Zeros(BlockSize)],
       index |-> [k \in 1 .. NIndirect |->
                    IF NDirect + k - base \in 1 .. needed THEN fresh[NDirect + k - base]
                    ELSE s.index[k]]]

\* It fails when the data area is exhausted or the size is above CAPACITY_PER_INODE.
Overgrown(s, size) ==
  Len(s.data) > sb.data_blocks \/ size > (NDirect + NIndirect) * BlockSize

\* What read_data can read of an inode.
Readable == NDirect * BlockSize
Spin == tool' = "spinning" /\ UNCHANGED <<pc, i>>

\* look_up: the positions in a directory of the entries with that name, and their inodes.
Matching(n, name) ==
  {k \in 1 .. Len(InodeOf(inodes, n).entries) : InodeOf(inodes, n).entries[k].name = name}
Inums(n, matching) == {InodeOf(inodes, n).entries[k].inum : k \in matching}
LookUp(n, name) == Inums(n, Matching(n, name))

\* It reads the entries in order up to the first that matches.
LookUpSpins(n, matching) ==
  InodeOf(inodes, n).size > Readable /\ \A k \in matching : k * DirEntrySize > Readable

\* create_inode in directory n: the state afterwards.
Created(n, name, type) ==
  LET inum == Len(inodes)
      s == Grown([inodes |-> Append(inodes, EmptyInode(type)), data |-> data, index |-> index],
                 n, InodeOf(inodes, n).size + DirEntrySize)
  IN  [s EXCEPT !.inodes[n + 1].entries = Append(@, [name |-> name, inum |-> inum])]

\* What create_inode refuses or panics on; mkfs unwraps either.
Refused(n, name, type) ==
  \/ LookUp(n, name) # {}
  \/ Len(inodes) >= InodesNum
  \/ Overgrown(Created(n, name, type), InodeOf(inodes, n).size + DirEntrySize)
  \/ Len(name) > DirNameSize

Image(s) == inodes' = s.inodes /\ data' = s.data /\ index' = s.index

-----------------------------------------------------------------------------
(* mkfs *)

\* create_inode(root, "bin", Directory)
MakeBin ==
  /\ At("created")
  /\ IF Refused(0, Bin, "Directory")
     THEN Panic /\ UNCHANGED <<inodes, data, index>>
     ELSE Image(Created(0, Bin, "Directory")) /\ Goto("copy2", 1) /\ UNCHANGED tool
  /\ UNCHANGED <<Args, sb, disk, cache, args, buffer, read_count, bootVars>>

\* copy2 up to its loop: the inode is created in /bin and resized to the length of the
\* source.  After the last argument mkfs exits.
CreateFile ==
  /\ At("copy2")
  /\ IF i > Len(args)
     THEN Goto("exit", 0) /\ UNCHANGED <<inodes, data, index, buffer, read_count, tool>>
     ELSE LET s == Created(1, args[i].name, "File")
              t == Grown(s, Len(inodes), Len(args[i].data))
          IN  IF LookUpSpins(1, Matching(1, args[i].name))
              THEN Spin /\ UNCHANGED <<inodes, data, index, buffer, read_count>>
              ELSE IF Refused(1, args[i].name, "File") \/ Overgrown(t, Len(args[i].data))
              THEN Panic /\ UNCHANGED <<inodes, data, index, buffer, read_count>>
              ELSE /\ Image(t) /\ Goto("copy", i) /\ UNCHANGED tool
                   /\ buffer' = Zeros(BlockSize) /\ read_count' = 0
  /\ UNCHANGED <<Args, sb, disk, cache, args, bootVars>>

\* write_data of the whole buffer at an offset within the inode, cut off at its size.
Written(n, from, buf) ==
  LET length == Min({BlockSize, InodeOf(inodes, n).size - from})
      covers(k, slot, j) == /\ BlockAt(n, (from + j) \div BlockSize) = k
                            /\ ((from + j) % BlockSize) + 1 = slot
  IN  [k \in 1 .. Len(data) |-> [slot \in 1 .. BlockSize |->
         IF \E j \in 0 .. length - 1 : covers(k, slot, j)
         THEN buf[(CHOOSE j \in 0 .. length - 1 : covers(k, slot, j)) + 1]
         ELSE data[k][slot]]]

\* (Mutant) read_count advances by the size of the buffer.
AdvanceByBuffer(n) == BlockSize

\* read_count += offset
Advance(n) == n

\* One turn of the loop of copy2.  A read may return fewer bytes than are left; the
\* rest of the buffer keeps what it had, and all of the buffer is written.
CopyPiece ==
  LET source == args[i].data
      left == Len(source) - read_count
  IN  /\ At("copy") /\ left > 0
      /\ \E n \in 1 .. Min({left, BlockSize}) :
           /\ buffer' = [k \in 1 .. BlockSize |->
                           IF k <= n THEN source[read_count + k] ELSE buffer[k]]
           /\ data' = Written(Len(inodes) - 1, read_count, buffer')
           /\ read_count' = read_count + Advance(n)
      /\ UNCHANGED <<formatVars, args, inodes, index, bootVars>>

\* read returned 0.
EndOfFile ==
  /\ At("copy") /\ read_count >= Len(args[i].data)
  /\ Goto("copy2", i + 1)
  /\ UNCHANGED <<Args, sb, disk, cache, tool, copyVars, bootVars>>

-----------------------------------------------------------------------------
(* The kernel *)

\* send returns an error for the last block of the device, which BlockCache::new
\* ignores: the block reads as zeros.
Served(k) == sb.data_start + k - 1 < sb.blocks - 1

\* The entries of a directory that the kernel can see.
MatchingServed(n, name) ==
  {k \in Matching(n, name) : Served(BlockAt(n, ((k - 1) * DirEntrySize) \div BlockSize))}

\* open, and the path to look for.
BootOpen ==
  /\ At("exit")
  /\ \E p \in Paths : path' = p /\ wanted' = p
  /\ IF IsValid(disk[SUPER_BLOCK_LOC]) THEN Goto("resolve", 0) /\ UNCHANGED tool ELSE Panic
  /\ UNCHANGED <<Args, sb, disk, cache, copyVars, at, offset, printed>>

\* The first position from `from` on whose character passes or fails the test, or the
\* end of the path.
Scan(p, from, slash) == Min({k \in from .. Len(p) : (p[k] = Slash) = slash} \cup {Len(p) + 1})

\* (Mutant) the slashes after the element are left in place.
SkipNotTrailing(p) ==
  LET start == Scan(p, 1, FALSE)
      end == Scan(p, start, TRUE)
  IN  [name |-> SubSeq(p, start, end - 1), rest |-> SubSeq(p, end, Len(p))]

\* skip: the next element of a path and what follows; no element has the empty name.
Skip(p) ==
  LET start == Scan(p, 1, FALSE)
      end == Scan(p, start, TRUE)
      next == Scan(p, end, FALSE)
  IN  [name |-> SubSeq(p, start, end - 1), rest |-> SubSeq(p, next, Len(p))]

\* One activation of get_inode_from_path; a path that leads nowhere fails the expect.
Resolve ==
  LET name == Skip(path).name
      matching == MatchingServed(at, name)
  IN
  /\ At("resolve")
  /\ IF path = <<>>
     THEN Goto("read", 0) /\ UNCHANGED <<tool, path, at>>
     ELSE IF name = <<>> \/ InodeOf(inodes, at).type # "Directory"
     THEN Panic /\ UNCHANGED <<path, at>>
     ELSE IF LookUpSpins(at, matching)
     THEN Spin /\ UNCHANGED <<path, at>>
     ELSE IF matching = {}
     THEN Panic /\ UNCHANGED <<path, at>>
     ELSE /\ at' \in Inums(at, matching) /\ path' = Skip(path).rest
          /\ UNCHANGED <<pc, i, tool>>
  /\ UNCHANGED <<Args, sb, disk, cache, copyVars, wanted, offset, printed>>

\* (Mutant) an empty piece does not end the loop.
GoesOnAtEnd(size) == size <= BlockSize

\* if size != buf.len() { break; }
GoesOn(size) == size = BlockSize

\* One turn of the loop of init_fs: the buffer has the size of a block, so a piece is
\* of one block.
ReadPiece ==
  LET size == Min({BlockSize, InodeOf(inodes, at).size - offset})
      block == BlockAt(at, offset \div BlockSize)
      piece == IF size = 0 THEN <<>>
               ELSE [k \in 1 .. size |-> IF Served(block) THEN data[block][k] ELSE 0]
  IN  /\ At("read")
      /\ IF size > 0 /\ offset >= Readable
         THEN Spin /\ UNCHANGED <<offset, printed>>
         ELSE /\ printed' = printed \o piece /\ UNCHANGED tool
              /\ IF GoesOn(size)
                 THEN offset' = offset + size /\ UNCHANGED <<pc, i>>
                 ELSE Goto("booted", 0) /\ UNCHANGED offset
      /\ UNCHANGED <<Args, sb, disk, cache, copyVars, path, wanted, at>>

Next ==
  \/ DoFormat /\ UNCHANGED <<copyVars, bootVars>>
  \/ MakeBin \/ CreateFile \/ CopyPiece \/ EndOfFile
  \/ BootOpen \/ Resolve \/ ReadPiece

Spec == MkFsInit /\ [][Next]_vars /\ WF_vars(Next)

-----------------------------------------------------------------------------
\* The kernel cannot read the last block of the device.
LastBlockUnused == Len(data) < sb.data_blocks

\* The file with that name among the arguments.
SourceOf(name) == args[CHOOSE n \in 1 .. Len(args) : args[n].name = name].data

\* However the reads of copy2 were cut and whatever the other files are, what init_fs
\* has printed of a file of /bin at any time is the beginning of its source, and all of
\* it when the loop has ended: unless the image is full to its last block.
PrintsSource ==
  (pc \in {"read", "booted"} /\ InodeOf(inodes, at).type = "File" /\ LastBlockUnused) =>
    LET source == SourceOf(InodeOf(inodes, 1).entries[at - 1].name) IN
    /\ IsPrefix(printed, source)
    /\ pc = "booted" => printed = source

\* The elements of a path: its maximal runs without a slash, from left to right.
Elements(p) ==
  LET runs == {r \in (1 .. Len(p)) \X (1 .. Len(p)) :
                 /\ r[1] <= r[2] /\ \A k \in r[1] .. r[2] : p[k] # Slash
                 /\ r[1] > 1 => p[r[1] - 1] = Slash
                 /\ r[2] < Len(p) => p[r[2] + 1] = Slash}
      sorted == SetToSortSeq(runs, LAMBDA r, s : r[1] < s[1])
  IN  [k \in 1 .. Len(sorted) |-> SubSeq(p, sorted[k][1], sorted[k][2])]

\* The inodes one gets to by following the elements from the root.
Target(p) ==
  FoldLeft(LAMBDA S, name : UNION {IF InodeOf(inodes, n).type = "Directory"
                                   THEN LookUp(n, name) ELSE {} : n \in S},
           {0}, Elements(p))

\* get_inode_from_path finds the inode the elements of the path lead to and nothing
\* else, however many slashes stand before, between and after them.  A path that is
\* all slashes leads nowhere.
ResolvesPath ==
  LET expected == IF wanted # <<>> /\ Elements(wanted) = <<>> THEN {} ELSE Target(wanted) IN
  LastBlockUnused =>
    /\ pc \in {"read", "booted"} => expected = {at}
    /\ (pc = "resolve" /\ tool = "panicked") => expected = {}

\* The inode that look_up or read_data is called for.
BeingRead == IF pc = "copy2" THEN 1 ELSE at

\* The loops of copy2, of look_up, of get_inode_from_path and of init_fs terminate, and
\* with them mkfs and the start of the kernel, for every directory and file without
\* indirect blocks.  Only reading a larger one never ends.
Ends ==
  <>(\/ tool = "panicked" \/ pc = "booted"
     \/ tool = "spinning" /\ InodeOf(inodes, BeingRead).size > Readable)
=============================================================================
