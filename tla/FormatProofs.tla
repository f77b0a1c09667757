---------------------------- MODULE FormatProofs ----------------------------
(***************************************************************************)
(* Proofs about Format, for every size of device, block, inode and block   *)
(* cache: the layout that create computes fits, and what is on the disk is *)
(* safe at every device write.                                             *)
(***************************************************************************)
EXTENDS Format, Integers, TLAPS

\* Division, as far as the layout needs it.
LEMMA Quotient ==
  ASSUME NEW a \in Nat, NEW b \in Nat \ {0}
  PROVE  a \div b \in Nat /\ (a \div b) * b <= a /\ a < (a \div b + 1) * b
  OBVIOUS

LEMMA Product ==
  ASSUME NEW a \in Nat, NEW b \in Nat, NEW c \in Nat, a <= b
  PROVE  a * c <= b * c
  OBVIOUS

LEMMA Associates ==
  ASSUME NEW a \in Nat, NEW b \in Nat, NEW c \in Nat
  PROVE  (a * c) * b = a * (b * c)
  OBVIOUS

\* A bitmap of rest \div BlockSize \div ByteBits + 1 blocks has a bit for every block.
LEMMA BitmapCovers ==
  ASSUME NEW rest \in Nat \ {0}
  PROVE  LET dmap == (rest \div BlockSize) \div ByteBits + 1
         IN  dmap \in Nat \ {0} /\ dmap <= rest /\ rest < dmap * Words
<1>. DEFINE q == rest \div BlockSize
            d == q \div ByteBits + 1
<1>. BlockSize \in Nat \ {0} /\ ByteBits \in Nat \ {0}
  BY FormatAssumption
<1>1. q \in Nat /\ q * BlockSize <= rest /\ rest < (q + 1) * BlockSize
  BY Quotient
<1>. HIDE DEF q
<1>2. d \in Nat \ {0} /\ (d - 1) * ByteBits <= q /\ q < d * ByteBits
  BY <1>1, Quotient
<1>. HIDE DEF d
<1>3. q + 1 <= d * ByteBits /\ d * ByteBits \in Nat
  BY <1>1, <1>2
<1>4. (q + 1) * BlockSize <= (d * ByteBits) * BlockSize
  BY <1>1, <1>3, Product
<1>5. rest < d * Words
  BY <1>1, <1>2, <1>4, Associates DEF Words
<1>6. d <= rest
  <2>. DEFINE c == d - 1
  <2>1. c \in Nat /\ c * ByteBits \in Nat /\ c * ByteBits <= q
    BY <1>2
  <2>. HIDE DEF c
  <2>2. (c * ByteBits) * BlockSize <= q * BlockSize
    BY <1>1, <2>1, Product
  <2>3. c * Words <= rest
    BY <1>1, <2>1, <2>2, Associates DEF Words
  <2>4. Words \in Nat /\ 8 <= Words
    BY FormatAssumption DEF Words
  <2>. HIDE DEF Words
  <2>5. 8 * c <= Words * c
    BY <2>1, <2>4, Product
  <2>6. Words * c = c * Words
    BY <2>1, <2>4
  <2>7. 8 * c <= rest
    BY <2>1, <2>3, <2>4, <2>5, <2>6
  <2>8. c < rest
    BY <2>1, <2>7
  <2>. QED
    BY <1>2, <2>8 DEF c
<1>. QED
  BY <1>2, <1>5, <1>6 DEF d, q

-----------------------------------------------------------------------------
\* Whatever the sizes, when create's assertion holds the areas of the layout follow one
\* another to the end of the device, the data bitmap has a bit for every data block and
\* every inode number lies in the inode area.
THEOREM EveryLayoutFits ==
  ASSUME NEW n \in Nat, NEW iblocks \in Nat, HasRoom(n, iblocks)
  PROVE  Fits(Layout(n, iblocks), n)
<1>. DEFINE imap == iblocks \div BlockSize + 1
            rest == n - 2 - (imap + iblocks)
            dmap == (rest \div BlockSize) \div ByteBits + 1
            l == Layout(n, iblocks)
<1>. BlockSize \in Nat \ {0} /\ ByteBits \in Nat \ {0} /\ InodesPerBlock \in Nat \ {0}
  BY FormatAssumption
<1>1. imap \in Nat \ {0} /\ rest \in Nat \ {0}
  BY Quotient DEF HasRoom
<1>2. dmap \in Nat \ {0} /\ dmap <= rest /\ rest < dmap * Words
  BY <1>1, BitmapCovers
<1>3. l = [blocks |-> n, inode_bmap_start |-> 2, inode_start |-> 2 + imap,
           inode_blocks |-> iblocks, data_bmap_start |-> 2 + imap + iblocks,
           data_start |-> 2 + imap + iblocks + dmap, data_blocks |-> rest - dmap]
  BY <1>1, <1>2 DEF Layout, SUPER_BLOCK_LOC
<1>4. rest = n - 2 - (imap + iblocks)
  OBVIOUS
<1>5. Words \in Nat
  BY DEF Words
<1>. HIDE DEF imap, rest, dmap, l, Words
<1>6. l.data_blocks \in 0 .. (l.data_start - l.data_bmap_start) * Words
  <2>1. l.data_start - l.data_bmap_start = dmap /\ l.data_blocks = rest - dmap
    BY <1>1, <1>2, <1>3
  <2>2. dmap * Words \in Int
    BY <1>2, <1>5
  <2>. QED
    BY <1>1, <1>2, <2>1, <2>2
<1>7. ASSUME NEW inum \in 0 .. MaxInodeNum(l) - 1
      PROVE  FindInode(l, inum).block \in l.inode_start .. l.data_bmap_start - 1
  <2>. DEFINE k == inum \div InodesPerBlock
  <2>1. inum \in Nat /\ inum < iblocks * InodesPerBlock
    BY <1>3, <1>7 DEF MaxInodeNum
  <2>2. k \in Nat /\ k * InodesPerBlock <= inum
    BY <2>1, Quotient
  <2>3. FindInode(l, inum).block = k + l.inode_start
    BY DEF FindInode
  <2>. HIDE DEF k
  <2>4. k < iblocks
    <3>1. SUFFICES ASSUME iblocks <= k PROVE FALSE
      BY <2>2
    <3>2. iblocks * InodesPerBlock <= k * InodesPerBlock
      BY <2>2, <3>1, Product
    <3>. QED
      BY <2>1, <2>2, <3>2
  <2>. QED
    BY <1>1, <1>3, <2>2, <2>3, <2>4
<1>8. /\ l.inode_bmap_start < l.inode_start /\ l.inode_start <= l.data_bmap_start
      /\ l.data_bmap_start < l.data_start /\ l.data_start + l.data_blocks = l.blocks
      /\ l.blocks = n
  BY <1>1, <1>2, <1>3, <1>4
<1>. QED
  BY <1>6, <1>7, <1>8 DEF Fits, l

-----------------------------------------------------------------------------
(* The invariant of the format.                                            *)

Blocks == [1 .. Words -> Int]
Buffers == [bid : Nat, val : Blocks, modified : BOOLEAN]
Caches == {"init_fs", "root", "fs"}

\* The first blocks of the two areas that get the root inode, and what they hold then.
BitmapStart == sb.inode_bmap_start
InodeStart == sb.inode_start
RootBit == [Filled(0) EXCEPT ![1] = 1]
RootInode == [Filled(0) EXCEPT ![1] = Directory]

Layouts == [blocks : Int, inode_bmap_start : Int, inode_start : Int, inode_blocks : Int,
            data_bmap_start : Int, data_start : Int, data_blocks : Int]
Labels == {"create", "clear", "super", "flush", "check", "open_root", "allocate_root",
           "init_root", "drop_root", "drop_init_fs", "open", "created"}

Types ==
  /\ pc \in Labels
  /\ total \in Totals /\ inode_blocks \in InodeBlocks
  /\ before \in {"blank", "garbage", "formatted"}
  /\ disk \in [0 .. total - 1 -> Blocks]
  /\ cache \in [Caches -> Seq(Buffers)]
  /\ \A c \in Caches : Len(cache[c]) <= BufferSize
  /\ pc # "create" => HasRoom(total, inode_blocks) /\ sb = Layout(total, inode_blocks)

\* Nothing on the disk is taken for a file system unless there was one.
NotYetValid == before # "formatted" => ~IsValid(disk[SUPER_BLOCK_LOC])

\* Nothing in a cache is to be written.
Clean(c) == \A k \in 1 .. Len(cache[c]) : ~cache[c][k].modified

\* A block waits in a cache to be written.
Waits(c, b) == \E k \in 1 .. Len(cache[c]) : cache[c][k].bid = b

\* The loop that clears has come to block hi: below, every block is cleared or waits.
ClearedTo(hi) ==
  /\ \A k \in 1 .. Len(cache["init_fs"]) :
       /\ cache["init_fs"][k].bid \in 2 .. hi - 1
       /\ cache["init_fs"][k].val = Filled(0) /\ cache["init_fs"][k].modified
  /\ \A b \in 2 .. hi - 1 : disk[b] = Filled(0) \/ Waits("init_fs", b)

\* The super block is the last buffer of the cache, and cleared blocks are before it.
SuperLast ==
  LET s == cache["init_fs"]
      n == Len(s)
  IN  /\ n >= 1 /\ s[n].bid = SUPER_BLOCK_LOC /\ s[n].val = Encoded(sb)
      /\ \A k \in 1 .. n - 1 : s[k].bid \in Metadata /\ s[k].val = Filled(0)

\* flush has written the buffers before i.
FlushedTo ==
  LET s == cache["init_fs"]
      n == Len(s)
  IN  /\ i \in 1 .. n + 1
      /\ \A k \in 1 .. n : s[k].modified <=> k >= i
      /\ \A b \in Metadata : disk[b] = Filled(0) \/ \E k \in i .. n - 1 : s[k].bid = b
      /\ IF i = n + 1 THEN disk[SUPER_BLOCK_LOC] = Encoded(sb) ELSE NotYetValid

\* The disk holds a super block and bitmaps and inodes that are all cleared, but for
\* the blocks in S.
Cleared(S) ==
  /\ disk[SUPER_BLOCK_LOC] = Encoded(sb)
  /\ \A b \in Metadata \ S : disk[b] = Filled(0)

\* The cache of the second file system changes nothing but the root's bit and inode.
RootBuffers ==
  \A k \in 1 .. Len(cache["root"]) :
    LET e == cache["root"][k]
    IN  \/ e.bid = SUPER_BLOCK_LOC /\ ~e.modified
        \/ e.bid = BitmapStart /\ e.val = RootBit /\ e.modified
        \/ e.bid = InodeStart /\ e.val = RootInode /\ e.modified

\* A block has its new content, or waits to get it.
Settles(b, val) == disk[b] = val \/ (disk[b] = Filled(0) /\ Waits("root", b))

\* What holds at each step of create and init_fs.
Phases ==
  /\ pc = "create" => cache["init_fs"] = <<>> /\ NotYetValid
  /\ pc = "clear" => i \in 2 .. sb.data_start /\ ClearedTo(i) /\ NotYetValid
  /\ pc = "super" => ClearedTo(sb.data_start) /\ NotYetValid
  /\ pc = "flush" => SuperLast /\ FlushedTo
  /\ pc = "check" => SuperLast /\ Clean("init_fs") /\ Cleared({})
  /\ pc = "open_root" => Clean("init_fs") /\ Cleared({})
  /\ pc = "allocate_root" =>
       /\ Clean("init_fs") /\ Cleared({})
       /\ tool = "running" =>
            /\ i = BitmapStart
            /\ \A k \in 1 .. Len(cache["root"]) :
                 cache["root"][k].bid = SUPER_BLOCK_LOC /\ ~cache["root"][k].modified
  /\ pc = "init_root" =>
       /\ Clean("init_fs") /\ Cleared({BitmapStart}) /\ Settles(BitmapStart, RootBit)
       /\ i = 0 /\ RootBuffers /\ ~Waits("root", InodeStart)
  /\ pc = "drop_root" =>
       /\ Clean("init_fs") /\ Cleared({BitmapStart, InodeStart}) /\ RootBuffers
       /\ Settles(BitmapStart, RootBit) /\ Settles(InodeStart, RootInode)
  /\ pc \in {"drop_init_fs", "open", "created"} =>
       /\ Clean("init_fs") /\ Cleared({BitmapStart, InodeStart})
       /\ disk[BitmapStart] = RootBit /\ disk[InodeStart] = RootInode
       /\ cache["root"] = <<>>
  /\ pc \in {"open", "created"} => cache["init_fs"] = <<>>
  /\ pc \in {"create", "clear", "super", "flush", "check", "open_root"} => cache["root"] = <<>>
  /\ IF pc = "created" THEN Clean("fs") ELSE cache["fs"] = <<>>

Invariant == Types /\ Phases

-----------------------------------------------------------------------------
(* Blocks and the layout.                                                  *)

\* The size of a block.
LEMMA WordsNat == Words \in Nat /\ Words >= 8
BY FormatAssumption DEF Words

\* Cleared blocks, and the two that hold the root inode.
LEMMA FilledIs ==
  /\ Filled(0) \in Blocks /\ RootBit \in Blocks /\ RootInode \in Blocks
  /\ \A k \in 1 .. Words : /\ Filled(0)[k] = 0
                           /\ RootBit[k] = IF k = 1 THEN 1 ELSE 0
                           /\ RootInode[k] = IF k = 1 THEN Directory ELSE 0
BY WordsNat DEF Filled, Blocks, RootBit, RootInode, Directory

\* The places of the areas, and the fields of the super block.
LEMMA LayoutIs ==
  ASSUME Types, pc # "create"
  PROVE  /\ total \in Nat /\ total >= 2
         /\ BitmapStart = 2 /\ InodeStart \in Nat /\ 2 < InodeStart
         /\ InodeStart < sb.data_start /\ sb.data_start \in Nat /\ sb.data_start <= total
         /\ Metadata = 2 .. sb.data_start - 1
         /\ sb \in [blocks : Nat, inode_bmap_start : Nat, inode_start : Nat,
                    inode_blocks : Nat, data_bmap_start : Nat, data_start : Nat,
                    data_blocks : Nat]
<1>. DEFINE l == Layout(total, inode_blocks)
            imap == inode_blocks \div BlockSize + 1
            rest == total - 2 - (imap + inode_blocks)
            dmap == (rest \div BlockSize) \div ByteBits + 1
<1>1. total \in Nat /\ total >= 2 /\ inode_blocks \in Nat /\ sb = l
      /\ HasRoom(total, inode_blocks) /\ BlockSize \in Nat \ {0}
  BY FormatAssumption DEF Types
<1>2. imap \in Nat \ {0} /\ rest \in Nat \ {0} /\ rest = total - 2 - (imap + inode_blocks)
  BY <1>1, Quotient DEF HasRoom
<1>3. dmap \in Nat \ {0} /\ dmap <= rest
  BY <1>2, BitmapCovers
<1>4. l = [blocks |-> total, inode_bmap_start |-> 2, inode_start |-> 2 + imap,
           inode_blocks |-> inode_blocks, data_bmap_start |-> 2 + imap + inode_blocks,
           data_start |-> 2 + imap + inode_blocks + dmap, data_blocks |-> rest - dmap]
  BY <1>1, <1>2, <1>3 DEF Layout, SUPER_BLOCK_LOC
<1>. HIDE DEF l, imap, rest, dmap
<1>. QED
  BY <1>1, <1>2, <1>3, <1>4 DEF BitmapStart, InodeStart, Metadata

\* A super block is read as it was written.
LEMMA EncodedFields ==
  ASSUME NEW l \in Layouts
  PROVE  Encoded(l) \in Blocks /\ IsValid(Encoded(l)) /\ Decoded(Encoded(l)) = l
<1>. DEFINE e == Encoded(l)
<1>1. l \in [blocks : Int, inode_bmap_start : Int, inode_start : Int, inode_blocks : Int,
             data_bmap_start : Int, data_start : Int, data_blocks : Int]
  BY DEF Layouts
<1>2. {1, 2, 3, 4, 5, 6, 7, 8} \subseteq 1 .. Words
  BY WordsNat
<1>3. /\ e \in Blocks
      /\ e[1] = FsMagic /\ e[2] = l.blocks /\ e[3] = l.inode_bmap_start
      /\ e[4] = l.inode_start /\ e[5] = l.inode_blocks /\ e[6] = l.data_bmap_start
      /\ e[7] = l.data_start /\ e[8] = l.data_blocks
  <2>. DEFINE f == Filled(0)
              e1 == [f EXCEPT ![1] = FsMagic]
              e2 == [e1 EXCEPT ![2] = l.blocks]
              e3 == [e2 EXCEPT ![3] = l.inode_bmap_start]
              e4 == [e3 EXCEPT ![4] = l.inode_start]
              e5 == [e4 EXCEPT ![5] = l.inode_blocks]
              e6 == [e5 EXCEPT ![6] = l.data_bmap_start]
              e7 == [e6 EXCEPT ![7] = l.data_start]
              e8 == [e7 EXCEPT ![8] = l.data_blocks]
  <2>1. \A b \in Blocks, k \in 1 .. Words, v \in Int :
          /\ [b EXCEPT ![k] = v] \in Blocks /\ [b EXCEPT ![k] = v][k] = v
          /\ \A j \in 1 .. Words : j # k => [b EXCEPT ![k] = v][j] = b[j]
    BY DEF Blocks
  <2>2. e1 \in Blocks /\ e1[1] = FsMagic
    BY <1>2, <2>1, FilledIs DEF FsMagic
  <2>. HIDE DEF e1
  <2>3. e2 \in Blocks /\ e2[1] = FsMagic /\ e2[2] = l.blocks
    BY <1>1, <1>2, <2>1, <2>2
  <2>. HIDE DEF e2
  <2>4. e3 \in Blocks /\ e3[1] = FsMagic /\ e3[2] = l.blocks /\ e3[3] = l.inode_bmap_start
    BY <1>1, <1>2, <2>1, <2>3
  <2>. HIDE DEF e3
  <2>5. /\ e4 \in Blocks /\ e4[1] = FsMagic /\ e4[2] = l.blocks
        /\ e4[3] = l.inode_bmap_start /\ e4[4] = l.inode_start
    BY <1>1, <1>2, <2>1, <2>4
  <2>. HIDE DEF e4
  <2>6. /\ e5 \in Blocks /\ e5[1] = FsMagic /\ e5[2] = l.blocks
        /\ e5[3] = l.inode_bmap_start /\ e5[4] = l.inode_start /\ e5[5] = l.inode_blocks
    BY <1>1, <1>2, <2>1, <2>5
  <2>. HIDE DEF e5
  <2>7. /\ e6 \in Blocks /\ e6[1] = FsMagic /\ e6[2] = l.blocks
        /\ e6[3] = l.inode_bmap_start /\ e6[4] = l.inode_start /\ e6[5] = l.inode_blocks
        /\ e6[6] = l.data_bmap_start
    BY <1>1, <1>2, <2>1, <2>6
  <2>. HIDE DEF e6
  <2>8. /\ e7 \in Blocks /\ e7[1] = FsMagic /\ e7[2] = l.blocks
        /\ e7[3] = l.inode_bmap_start /\ e7[4] = l.inode_start /\ e7[5] = l.inode_blocks
        /\ e7[6] = l.data_bmap_start /\ e7[7] = l.data_start
    BY <1>1, <1>2, <2>1, <2>7
  <2>. HIDE DEF e7
  <2>9. /\ e8 \in Blocks /\ e8[1] = FsMagic /\ e8[2] = l.blocks
        /\ e8[3] = l.inode_bmap_start /\ e8[4] = l.inode_start /\ e8[5] = l.inode_blocks
        /\ e8[6] = l.data_bmap_start /\ e8[7] = l.data_start /\ e8[8] = l.data_blocks
    BY <1>1, <1>2, <2>1, <2>8
  <2>. HIDE DEF e8
  <2>10. e = e8
    BY DEF Encoded, e1, e2, e3, e4, e5, e6, e7, e8
  <2>. QED
    BY <2>9, <2>10
<1>. HIDE DEF e
<1>4. IsValid(e)
  BY <1>3 DEF IsValid
<1>5. Decoded(e) = l
  BY <1>1, <1>3 DEF Decoded
<1>. QED
  BY <1>3, <1>4, <1>5 DEF e

\* The super block that init_fs writes.
LEMMA EncodedIs ==
  ASSUME Types, pc # "create"
  PROVE  Encoded(sb) \in Blocks /\ IsValid(Encoded(sb)) /\ Decoded(Encoded(sb)) = sb
<1>1. sb \in Layouts
  BY LayoutIs DEF Layouts
<1>. QED
  BY <1>1, EncodedFields

-----------------------------------------------------------------------------
(* The caches.                                                             *)

\* Cache c keeps its buffers, or writes back the first one and drops it.
Keeps(c, rest) ==
  \/ rest = cache[c] /\ disk' = disk
  \/ /\ cache[c] # <<>> /\ rest = Tail(cache[c])
     /\ disk' = WrittenBack(disk, cache[c][1])

\* The first n buffers of s are buffers of cache c.
Kept(c, s, n) == \A k \in 1 .. n : \E j \in 1 .. Len(cache[c]) : s[k] = cache[c][j]

\* A buffer of cache c that is not one of them is on the disk.
Saved(c, s, n) ==
  \A j \in 1 .. Len(cache[c]) :
    \/ \E k \in 1 .. n : s[k] = cache[c][j]
    \/ cache[c][j].modified /\ cache[c][j].bid \in 0 .. total - 1 =>
         disk'[cache[c][j].bid] = cache[c][j].val

\* The disk changes only by what is modified in cache c.
Saves(c) ==
  \A b \in 0 .. total - 1 :
    \/ disk'[b] = disk[b]
    \/ \E j \in 1 .. Len(cache[c]) :
         cache[c][j].modified /\ cache[c][j].bid = b /\ disk'[b] = cache[c][j].val

\* What is kept was there; what is not is on the disk, and nothing else has changed.
LEMMA KeepsIs ==
  ASSUME Types, NEW c \in Caches, NEW rest, Keeps(c, rest)
  PROVE  /\ rest \in Seq(Buffers) /\ Len(rest) <= Len(cache[c])
         /\ disk' \in [0 .. total - 1 -> Blocks]
         /\ Kept(c, rest, Len(rest)) /\ Saved(c, rest, Len(rest)) /\ Saves(c)
<1>. DEFINE G(s, d) ==
       /\ rest \in Seq(Buffers) /\ Len(rest) <= Len(s)
       /\ disk' \in [0 .. total - 1 -> Blocks]
       /\ \A k \in 1 .. Len(rest) : \E m \in 1 .. Len(s) : rest[k] = s[m]
       /\ \A m \in 1 .. Len(s) :
            \/ \E k \in 1 .. Len(rest) : rest[k] = s[m]
            \/ s[m].modified /\ s[m].bid \in 0 .. total - 1 => disk'[s[m].bid] = s[m].val
       /\ \A b \in 0 .. total - 1 :
            \/ disk'[b] = d[b]
            \/ \E m \in 1 .. Len(s) : s[m].modified /\ s[m].bid = b /\ disk'[b] = s[m].val
<1>1. PICK s, d : s = cache[c] /\ d = disk
  OBVIOUS
<1>2. s \in Seq(Buffers) /\ d \in [0 .. total - 1 -> Blocks]
  BY <1>1 DEF Types
<1>3. ASSUME rest = s /\ disk' = d
      PROVE  G(s, d)
  BY <1>2, <1>3
<1>4. ASSUME s # <<>> /\ rest = Tail(s) /\ disk' = WrittenBack(d, s[1])
      PROVE  G(s, d)
  <2>1. PICK e : e = s[1]
    OBVIOUS
  <2>2. Len(s) \in Nat /\ 1 \in 1 .. Len(s) /\ e \in Buffers
    <3>. HIDE DEF Buffers
    <3>. QED
      BY <1>2, <1>4, <2>1
  <2>3. rest \in Seq(Buffers) /\ Len(rest) = Len(s) - 1 /\ \A k \in 1 .. Len(rest) : rest[k] = s[k + 1]
    <3>. HIDE DEF Buffers
    <3>. QED
      BY <1>2, <1>4
  <2>4. e.val \in Blocks /\ e.modified \in BOOLEAN
    BY <2>2 DEF Buffers
  <2>5. /\ disk' \in [0 .. total - 1 -> Blocks]
        /\ \A b \in 0 .. total - 1 :
             disk'[b] = IF e.modified /\ b = e.bid THEN e.val ELSE d[b]
    <3>1. disk' = IF e.modified THEN [d EXCEPT ![e.bid] = e.val] ELSE d
      BY <1>4, <2>1 DEF WrittenBack
    <3>. QED
      BY <1>2, <2>4, <3>1
  <2>6. ASSUME NEW k \in 1 .. Len(rest)
        PROVE  \E m \in 1 .. Len(s) : rest[k] = s[m]
    <3>1. k + 1 \in 1 .. Len(s)
      BY <2>2, <2>3
    <3>. QED
      BY <2>3, <3>1
  <2>7. ASSUME NEW m \in 1 .. Len(s)
        PROVE  \/ \E k \in 1 .. Len(rest) : rest[k] = s[m]
               \/ s[m].modified /\ s[m].bid \in 0 .. total - 1 => disk'[s[m].bid] = s[m].val
    <3>1. CASE m = 1
      BY <2>1, <2>5, <3>1
    <3>2. CASE m # 1
      <4>1. m - 1 \in 1 .. Len(rest) /\ (m - 1) + 1 = m
        BY <2>2, <2>3, <3>2
      <4>2. rest[m - 1] = s[m]
        BY <2>3, <4>1
      <4>. QED
        BY <4>1, <4>2
    <3>. QED
      BY <3>1, <3>2
  <2>8. ASSUME NEW b \in 0 .. total - 1
        PROVE  \/ disk'[b] = d[b]
               \/ \E m \in 1 .. Len(s) : s[m].modified /\ s[m].bid = b /\ disk'[b] = s[m].val
    BY <2>1, <2>2, <2>5
  <2>9. Len(rest) <= Len(s)
    BY <2>2, <2>3
  <2>10. /\ \A k \in 1 .. Len(rest) : \E m \in 1 .. Len(s) : rest[k] = s[m]
         /\ \A m \in 1 .. Len(s) :
              \/ \E k \in 1 .. Len(rest) : rest[k] = s[m]
              \/ s[m].modified /\ s[m].bid \in 0 .. total - 1 => disk'[s[m].bid] = s[m].val
    BY <2>6, <2>7, Zenon
  <2>11. \A b \in 0 .. total - 1 :
           \/ disk'[b] = d[b]
           \/ \E m \in 1 .. Len(s) : s[m].modified /\ s[m].bid = b /\ disk'[b] = s[m].val
    BY <2>8, Zenon
  <2>. QED
    BY <2>3, <2>5, <2>9, <2>10, <2>11, Zenon
<1>5. (rest = s /\ disk' = d) \/ (s # <<>> /\ rest = Tail(s) /\ disk' = WrittenBack(d, s[1]))
  BY <1>1 DEF Keeps
<1>6. G(s, d)
  BY <1>3, <1>4, <1>5
<1>7. G(cache[c], disk)
  BY <1>1, <1>6
<1>. QED
  BY <1>7, Zenon DEF Kept, Saved, Saves

\* get of a block that is not in the cache.
LEMMA LoadedIs ==
  ASSUME Types, NEW c \in Caches, NEW b \in Nat, ~Waits(c, b)
  PROVE  \E v : \E rest \in Seq(Buffers) :
           /\ Loaded(c, b).buffers = Append(rest, [bid |-> b, val |-> v, modified |-> FALSE])
           /\ Len(rest) < BufferSize
           /\ (b \in 0 .. total - 1 => v \in Blocks)
           /\ \A k \in 1 .. Len(rest) : rest[k].bid # b
           /\ (disk' = Loaded(c, b).disk => Keeps(c, rest))
           /\ ((disk' = Loaded(c, b).disk) => v = disk'[b])
<1>. DEFINE s == cache[c]
            full == Len(s) = BufferSize
            d == IF full THEN WrittenBack(disk, s[1]) ELSE disk
            rest == IF full THEN Tail(s) ELSE s
            new == [bid |-> b, val |-> d[b], modified |-> FALSE]
<1>1. s \in Seq(Buffers) /\ Len(s) <= BufferSize /\ BufferSize \in Nat \ {0} /\ Len(s) \in Nat
  <2>1. s \in Seq(Buffers) /\ Len(s) <= BufferSize
    BY DEF Types
  <2>. QED
    BY <2>1, FormatAssumption
<1>2. Buffer(c, b) = {}
  BY DEF Buffer, Waits
<1>3. Loaded(c, b).buffers = Append(rest, new) /\ Loaded(c, b).disk = d
  BY <1>2 DEF Loaded
<1>4. rest \in Seq(Buffers) /\ Len(rest) < BufferSize
  <2>. HIDE DEF s
  <2>1. CASE full
    <3>1. s # <<>>
      BY <1>1, <2>1
    <3>. HIDE DEF Buffers
    <3>2. Tail(s) \in Seq(Buffers) /\ Len(Tail(s)) = Len(s) - 1
      BY <1>1, <3>1
    <3>. QED
      BY <1>1, <2>1, <3>2
  <2>2. CASE ~full
    BY <1>1, <2>2
  <2>. QED
    BY <2>1, <2>2
<1>5. disk' = d => Keeps(c, rest)
  <2>1. full => s # <<>>
    BY <1>1
  <2>. QED
    BY <2>1 DEF Keeps
<1>6. \A k \in 1 .. Len(rest) : rest[k].bid # b
  <2>1. \A k \in 1 .. Len(s) : s[k].bid # b
    BY DEF Waits
  <2>. HIDE DEF s
  <2>2. CASE full
    <3>1. s # <<>>
      BY <1>1, <2>2
    <3>. HIDE DEF Buffers
    <3>2. Len(Tail(s)) = Len(s) - 1 /\ \A k \in 1 .. Len(s) - 1 : Tail(s)[k] = s[k + 1]
      BY <1>1, <3>1
    <3>3. \A k \in 1 .. Len(s) - 1 : k + 1 \in 1 .. Len(s)
      BY <1>1
    <3>. QED
      BY <2>1, <2>2, <3>2, <3>3
  <2>3. CASE ~full
    BY <2>1, <2>3
  <2>. QED
    BY <2>2, <2>3
<1>7. b \in 0 .. total - 1 => d[b] \in Blocks
  <2>1. CASE full
    <3>1. 1 \in 1 .. Len(s)
      BY <1>1, <2>1
    <3>2. PICK e : e = s[1]
      OBVIOUS
    <3>3. e \in Buffers
      <4>. HIDE DEF Buffers, s
      <4>. QED
        BY <1>1, <3>1, <3>2
    <3>4. d = WrittenBack(disk, e)
      BY <2>1, <3>2
    <3>. HIDE DEF d
    <3>. QED
      BY <3>3, <3>4 DEF WrittenBack, Buffers, Types
  <2>2. CASE ~full
    BY <2>2 DEF Types
  <2>. QED
    BY <2>1, <2>2
<1>8. PICK v : v = d[b]
  OBVIOUS
<1>9. disk' = d => v = disk'[b]
  BY <1>8
<1>. HIDE DEF rest, d
<1>. QED
  BY <1>3, <1>4, <1>5, <1>6, <1>7, <1>8, <1>9

\* Appending a buffer: its elements.
LEMMA AppendIs ==
  ASSUME NEW rest \in Seq(Buffers), NEW e \in Buffers
  PROVE  LET s == Append(rest, e)
         IN  /\ s \in Seq(Buffers) /\ Len(s) = Len(rest) + 1 /\ s[Len(rest) + 1] = e
             /\ Len(rest) \in Nat /\ \A k \in 1 .. Len(rest) : s[k] = rest[k]
<1>. HIDE DEF Buffers
<1>. QED
  OBVIOUS

\* A block that was not in the cache is written.
LEMMA WriteIs ==
  ASSUME Types, NEW c \in Caches, NEW b \in 0 .. total - 1, ~Waits(c, b), NEW val \in Blocks,
         Write(c, b, val)
  PROVE  \E rest \in Seq(Buffers) :
           /\ cache' = [cache EXCEPT ![c] =
                          Append(rest, [bid |-> b, val |-> val, modified |-> TRUE])]
           /\ Len(rest) < BufferSize
           /\ Keeps(c, rest)
<1>1. PICK l : l = Loaded(c, b)
  OBVIOUS
<1>2. disk' = l.disk /\ b \in Nat
      /\ cache' = [cache EXCEPT ![c] =
           [k \in 1 .. Len(l.buffers) |->
              IF l.buffers[k].bid = b THEN [bid |-> b, val |-> val, modified |-> TRUE]
              ELSE l.buffers[k]]]
  BY <1>1 DEF Write
<1>3. PICK v, rest :
        /\ rest \in Seq(Buffers)
        /\ l.buffers = Append(rest, [bid |-> b, val |-> v, modified |-> FALSE])
        /\ Len(rest) < BufferSize /\ v \in Blocks /\ \A k \in 1 .. Len(rest) : rest[k].bid # b
        /\ Keeps(c, rest)
  <2>1. \E v : \E rest \in Seq(Buffers) :
           /\ Loaded(c, b).buffers = Append(rest, [bid |-> b, val |-> v, modified |-> FALSE])
           /\ Len(rest) < BufferSize
           /\ (b \in 0 .. total - 1 => v \in Blocks)
           /\ \A k \in 1 .. Len(rest) : rest[k].bid # b
           /\ (disk' = Loaded(c, b).disk => Keeps(c, rest))
           /\ ((disk' = Loaded(c, b).disk) => v = disk'[b])
    BY <1>2, LoadedIs
  <2>. QED
    BY <1>1, <1>2, <2>1, Zenon
<1>. DEFINE old == [bid |-> b, val |-> v, modified |-> FALSE]
            new == [bid |-> b, val |-> val, modified |-> TRUE]
            f == [k \in 1 .. Len(l.buffers) |->
                    IF l.buffers[k].bid = b THEN new ELSE l.buffers[k]]
<1>4. old \in Buffers /\ new \in Buffers /\ old.bid = b
  BY <1>2, <1>3 DEF Buffers
<1>5. l.buffers = Append(rest, old) /\ cache' = [cache EXCEPT ![c] = f]
  BY <1>2, <1>3
<1>. HIDE DEF old, new, Buffers
<1>6. Len(l.buffers) = Len(rest) + 1 /\ l.buffers[Len(rest) + 1] = old /\ Len(rest) \in Nat
      /\ \A k \in 1 .. Len(rest) : l.buffers[k] = rest[k]
  BY <1>3, <1>4, <1>5
<1>7. f = Append(rest, new)
  <2>1. /\ Append(rest, new) \in [1 .. Len(rest) + 1 -> Buffers]
        /\ \A k \in 1 .. Len(rest) + 1 :
             Append(rest, new)[k] = IF k = Len(rest) + 1 THEN new ELSE rest[k]
    <3>1. Append(rest, new) \in Seq(Buffers) /\ Len(Append(rest, new)) = Len(rest) + 1
      BY <1>3, <1>4, AppendIs
    <3>2. \A u \in Seq(Buffers) : u \in [1 .. Len(u) -> Buffers]
      OBVIOUS
    <3>3. /\ Append(rest, new)[Len(rest) + 1] = new
          /\ \A k \in 1 .. Len(rest) : Append(rest, new)[k] = rest[k]
      BY <1>3, <1>4, AppendIs
    <3>4. \A k \in 1 .. Len(rest) + 1 : k = Len(rest) + 1 \/ k \in 1 .. Len(rest)
      BY <1>6
    <3>5. \A k \in 1 .. Len(rest) : k # Len(rest) + 1
      BY <1>6
    <3>6. Append(rest, new) \in [1 .. Len(rest) + 1 -> Buffers]
      <4>1. PICK u : u = Append(rest, new)
        OBVIOUS
      <4>. QED
        BY <3>1, <3>2, <4>1, Zenon
    <3>. QED
      BY <3>3, <3>4, <3>5, <3>6, Zenon
  <2>2. \A k \in 1 .. Len(rest) + 1 : f[k] = IF k = Len(rest) + 1 THEN new ELSE rest[k]
    BY <1>3, <1>4, <1>6
  <2>3. DOMAIN f = 1 .. Len(rest) + 1 /\ f = [k \in 1 .. Len(rest) + 1 |-> f[k]]
    BY <1>6
  <2>. HIDE DEF f
  <2>. QED
    BY <2>1, <2>2, <2>3
<1>. HIDE DEF f
<1>. QED
  BY <1>3, <1>5, <1>7 DEF new

\* The types are kept when one cache and the disk change.
LEMMA TypesKept ==
  ASSUME Types, pc # "create", NEW c \in Caches, NEW s \in Seq(Buffers), Len(s) <= BufferSize,
         cache' = [cache EXCEPT ![c] = s], disk' \in [0 .. total - 1 -> Blocks],
         UNCHANGED Args, sb' = sb, pc' \in Labels
  PROVE  Types' /\ cache'[c] = s /\ \A o \in Caches \ {c} : cache'[o] = cache[o]
<1>1. cache \in [Caches -> Seq(Buffers)]
  BY DEF Types
<1>2. /\ cache' \in [Caches -> Seq(Buffers)] /\ cache'[c] = s
      /\ \A o \in Caches \ {c} : cache'[o] = cache[o]
  BY <1>1
<1>3. \A o \in Caches : Len(cache'[o]) <= BufferSize
  BY <1>2 DEF Types
<1>4. total' = total /\ inode_blocks' = inode_blocks /\ before' = before
  BY DEF Args
<1>5. Types'
  BY <1>2, <1>3, <1>4 DEF Types, HasRoom, Layout
<1>. QED
  BY <1>2, <1>5

\* What a cache and the disk are after a block that was not in the cache is written.
Written(c, new) ==
  LET n == Len(cache'[c])
  IN  /\ n \in Nat \ {0} /\ cache'[c][n] = new
      /\ Kept(c, cache'[c], n - 1) /\ Saved(c, cache'[c], n - 1) /\ Saves(c)
      /\ \A o \in Caches \ {c} : cache'[o] = cache[o]

LEMMA WriteEffect ==
  ASSUME Types, pc # "create", NEW c \in Caches, NEW b \in 0 .. total - 1, ~Waits(c, b),
         NEW val \in Blocks, Write(c, b, val), UNCHANGED Args, sb' = sb, pc' \in Labels
  PROVE  Types' /\ Written(c, [bid |-> b, val |-> val, modified |-> TRUE])
<1>. DEFINE new == [bid |-> b, val |-> val, modified |-> TRUE]
<1>1. PICK rest \in Seq(Buffers) :
        cache' = [cache EXCEPT ![c] = Append(rest, new)] /\ Len(rest) < BufferSize /\ Keeps(c, rest)
  BY WriteIs
<1>2. new \in Buffers
  <2>1. b \in Nat
    OBVIOUS
  <2>. QED
    BY <2>1 DEF Buffers
<1>. HIDE DEF new
<1>3. PICK s : s = Append(rest, new)
  OBVIOUS
<1>4. /\ s \in Seq(Buffers) /\ Len(s) = Len(rest) + 1 /\ s[Len(rest) + 1] = new
      /\ Len(rest) \in Nat /\ \A k \in 1 .. Len(rest) : s[k] = rest[k]
  BY <1>2, <1>3, AppendIs
<1>5. Len(s) <= BufferSize /\ Len(s) - 1 = Len(rest) /\ Len(s) \in Nat \ {0}
  BY <1>1, <1>4, FormatAssumption
<1>6. /\ disk' \in [0 .. total - 1 -> Blocks]
      /\ Kept(c, rest, Len(rest)) /\ Saved(c, rest, Len(rest)) /\ Saves(c)
  BY <1>1, KeepsIs
<1>7. Types' /\ cache'[c] = s /\ \A o \in Caches \ {c} : cache'[o] = cache[o]
  BY <1>1, <1>3, <1>4, <1>5, <1>6, TypesKept
<1>8. Kept(c, s, Len(s) - 1) /\ Saved(c, s, Len(s) - 1)
  <2>1. Kept(c, s, Len(rest))
    BY <1>4, <1>6 DEF Kept
  <2>2. Saved(c, s, Len(rest))
    <3>1. SUFFICES ASSUME NEW j \in 1 .. Len(cache[c]),
                          NEW k \in 1 .. Len(rest), rest[k] = cache[c][j]
                   PROVE  \E m \in 1 .. Len(rest) : s[m] = cache[c][j]
      BY <1>6 DEF Saved
    <3>. QED
      BY <1>4, <3>1
  <2>. QED
    BY <1>5, <2>1, <2>2
<1>9. s[Len(s)] = new
  BY <1>4
<1>10. Written(c, new)
  BY <1>5, <1>6, <1>7, <1>8, <1>9 DEF Written
<1>. QED
  BY <1>7, <1>10 DEF new

-----------------------------------------------------------------------------
(* The steps of create and init_fs.                                        *)

\* The arguments and the areas do not change.
LEMMA Fixed ==
  ASSUME UNCHANGED Args, sb' = sb
  PROVE  /\ total' = total /\ before' = before /\ BitmapStart' = BitmapStart
         /\ InodeStart' = InodeStart /\ Metadata' = Metadata
         /\ Encoded(sb)' = Encoded(sb) /\ Filled(0)' = Filled(0)
         /\ RootBit' = RootBit /\ RootInode' = RootInode
<1>1. total' = total /\ before' = before
  BY DEF Args
<1>. QED
  BY <1>1 DEF BitmapStart, InodeStart, Metadata, Encoded, RootBit, RootInode, Filled

\* Nothing is cached, and the device holds what it held.
LEMMA InitKept ==
  ASSUME FormatInit
  PROVE  Invariant
<1>1. total \in Nat /\ 1 \in 0 .. total - 1
  BY FormatAssumption DEF FormatInit
<1>2. Filled(0) \in Blocks /\ Filled(Old) \in Blocks /\ Filled(1) \in Blocks
  BY DEF Filled, Blocks, Old
<1>3. Encoded(Layout(total, 1)) \in Blocks
  <2>. DEFINE imap == 1 \div BlockSize + 1
              rest == total - 2 - (imap + 1)
              dmap == (rest \div BlockSize) \div ByteBits + 1
  <2>1. BlockSize \in Nat \ {0} /\ ByteBits \in Nat \ {0}
    BY FormatAssumption
  <2>2. \A a \in Int, b \in Nat \ {0} : a \div b \in Int
    OBVIOUS
  <2>3. imap \in Int /\ rest \in Int
    BY <1>1, <2>1, <2>2
  <2>. HIDE DEF rest
  <2>4. dmap \in Int
    BY <2>1, <2>2, <2>3
  <2>5. Layout(total, 1) = [blocks |-> total, inode_bmap_start |-> 1 + 1, inode_start |-> 1 + 1 + imap,
           inode_blocks |-> 1, data_bmap_start |-> 1 + 1 + imap + 1,
           data_start |-> 1 + 1 + imap + 1 + dmap, data_blocks |-> rest - dmap]
    BY DEF Layout, SUPER_BLOCK_LOC, rest
  <2>. HIDE DEF imap, dmap
  <2>6. Layout(total, 1) \in Layouts
    BY <1>1, <2>3, <2>4, <2>5 DEF Layouts
  <2>. QED
    BY <2>6, EncodedFields
<1>4. Content(before, total) \in [0 .. total - 1 -> Blocks]
  BY <1>2, <1>3 DEF Content, FormatInit
<1>5. disk = Content(before, total) /\ before \in {"blank", "garbage", "formatted"}
      /\ pc = "create" /\ \A c \in Caches : cache[c] = <<>>
  BY DEF FormatInit, Caches
<1>6. NotYetValid
  <2>1. SUFFICES ASSUME before # "formatted" PROVE disk[1][1] # FsMagic
    BY DEF NotYetValid, IsValid, SUPER_BLOCK_LOC
  <2>2. disk[1] = Filled(0) \/ disk[1] = Filled(Old)
    BY <1>1, <1>5, <2>1 DEF Content
  <2>3. 1 \in 1 .. Words
    BY WordsNat
  <2>4. Filled(0)[1] = 0 /\ Filled(Old)[1] = 7
    BY <2>3 DEF Filled, Old
  <2>5. disk[1][1] = 0 \/ disk[1][1] = 7
    BY <2>2, <2>4, Zenon
  <2>. QED
    BY <2>5 DEF FsMagic
<1>7. Types
  <2>1. cache \in [Caches -> Seq(Buffers)]
    BY DEF FormatInit, Caches
  <2>2. \A c \in Caches : Len(cache[c]) <= BufferSize
    BY <1>5, FormatAssumption
  <2>. QED
    BY <1>4, <1>5, <2>1, <2>2 DEF Types, FormatInit, Labels
<1>8. Phases
  BY <1>5, <1>6 DEF Phases, Caches
<1>. QED
  BY <1>7, <1>8 DEF Invariant

\* create computes the layout, or gives up.
LEMMA CreateKept ==
  ASSUME Invariant, Create
  PROVE  Invariant'
<1>1. /\ UNCHANGED Args /\ disk' = disk /\ cache' = cache /\ pc = "create"
      /\ total' = total /\ inode_blocks' = inode_blocks /\ before' = before
  BY DEF Create, At, Args
<1>2. \A c \in Caches : cache[c] = <<>>
  BY <1>1 DEF Invariant, Phases, Caches
<1>3. NotYetValid'
  BY <1>1 DEF Invariant, Phases, NotYetValid
<1>4. CASE HasRoom(total, inode_blocks)
  <2>1. sb' = Layout(total, inode_blocks) /\ pc' = "clear" /\ i' = sb'.inode_bmap_start
    BY <1>4 DEF Create, Goto
  <2>2. Types'
    BY <1>1, <1>4, <2>1 DEF Invariant, Types, Labels, HasRoom, Layout
  <2>3. (BitmapStart = 2 /\ sb.data_start \in Nat /\ 2 <= sb.data_start)'
    <3>1. (pc # "create")'
      BY <2>1
    <3>2. (BitmapStart = 2 /\ InodeStart \in Nat /\ 2 < InodeStart
           /\ InodeStart < sb.data_start /\ sb.data_start \in Nat)'
      BY <2>2, <3>1, LayoutIs, PTL
    <3>. QED
      BY <3>2
  <2>4. i' = 2 /\ i' \in 2 .. sb'.data_start
    BY <2>1, <2>3 DEF BitmapStart
  <2>5. ClearedTo(2)'
    BY <1>1, <1>2 DEF ClearedTo, Caches
  <2>6. Phases'
    BY <1>1, <1>2, <1>3, <2>1, <2>4, <2>5 DEF Phases, Caches
  <2>. QED
    BY <2>2, <2>6 DEF Invariant
<1>5. CASE ~HasRoom(total, inode_blocks)
  <2>1. pc' = "create"
    BY <1>1, <1>5 DEF Create, Panic
  <2>2. Types'
    BY <1>1, <2>1 DEF Invariant, Types
  <2>3. Phases'
    BY <1>1, <1>2, <1>3, <2>1 DEF Phases, Caches
  <2>. QED
    BY <2>2, <2>3 DEF Invariant
<1>. QED
  BY <1>4, <1>5

\* The loop that clears the bitmaps and the inodes.
LEMMA ClearBlockKept ==
  ASSUME Invariant, ClearBlock
  PROVE  Invariant'
<1>1. pc = "clear" /\ UNCHANGED Args /\ sb' = sb /\ Types
  BY DEF ClearBlock, At, Invariant
<1>2. /\ total \in Nat /\ 2 <= total /\ sb.data_start \in Nat /\ sb.data_start <= total
  BY <1>1, LayoutIs
<1>3. /\ i \in 2 .. sb.data_start /\ ClearedTo(i) /\ NotYetValid
      /\ cache["root"] = <<>> /\ cache["fs"] = <<>>
  BY <1>1 DEF Invariant, Phases
<1>4. CASE i < sb.data_start
  <2>1. Write("init_fs", i, Filled(0)) /\ pc' = "clear" /\ i' = i + 1
    BY <1>4 DEF ClearBlock, Goto
  <2>2. i \in 0 .. total - 1 /\ i \in Nat /\ i' \in 2 .. sb.data_start
    BY <1>2, <1>3, <1>4, <2>1
  <2>3. ~Waits("init_fs", i)
    BY <1>3, <2>2 DEF ClearedTo, Waits
  <2>4. PICK c, b, new : c = "init_fs" /\ b = i /\ new = [bid |-> i, val |-> Filled(0), modified |-> TRUE]
    OBVIOUS
  <2>5. Types' /\ Written(c, new)
    <3>1. c \in Caches /\ ~Waits(c, b) /\ Write(c, b, Filled(0)) /\ Filled(0) \in Blocks
          /\ b \in 0 .. total - 1 /\ pc' \in Labels /\ pc # "create"
      BY <1>1, <2>1, <2>2, <2>3, <2>4, FilledIs DEF Caches, Labels
    <3>. QED
      BY <1>1, <2>4, <3>1, WriteEffect
  <2>6. NotYetValid'
    <3>1. 1 \in 0 .. total - 1
      BY <1>2
    <3>2. disk'[1] = disk[1]
      BY <1>3, <2>4, <2>5, <3>1 DEF Written, Saves, ClearedTo
    <3>. QED
      BY <1>1, <1>3, <3>2 DEF NotYetValid, Args, SUPER_BLOCK_LOC
  <2>7. ClearedTo(i)'
    <3>. DEFINE s == cache'[c]
                n == Len(s)
    <3>1. /\ n \in Nat \ {0} /\ s[n] = new
          /\ \A k \in 1 .. n - 1 : \E j \in 1 .. Len(cache[c]) : s[k] = cache[c][j]
          /\ \A j \in 1 .. Len(cache[c]) :
               \/ \E k \in 1 .. n - 1 : s[k] = cache[c][j]
               \/ cache[c][j].modified /\ cache[c][j].bid \in 0 .. total - 1 =>
                    disk'[cache[c][j].bid] = cache[c][j].val
          /\ \A x \in 0 .. total - 1 :
               \/ disk'[x] = disk[x]
               \/ \E j \in 1 .. Len(cache[c]) :
                    cache[c][j].modified /\ cache[c][j].bid = x /\ disk'[x] = cache[c][j].val
      BY <2>5, Zenon DEF Written, Kept, Saved, Saves
    <3>. HIDE DEF n
    <3>2. \A j \in 1 .. Len(cache[c]) : /\ cache[c][j].bid \in 2 .. i - 1
                                        /\ cache[c][j].val = Filled(0) /\ cache[c][j].modified
      BY <1>3, <2>4 DEF ClearedTo
    <3>3. ASSUME NEW k \in 1 .. n
          PROVE  s[k].bid \in 2 .. (i + 1) - 1 /\ s[k].val = Filled(0) /\ s[k].modified
      <4>1. CASE k = n
        BY <1>3, <2>2, <2>4, <3>1, <4>1
      <4>2. CASE k # n
        <5>1. k \in 1 .. n - 1
          BY <3>1, <4>2
        <5>2. PICK j \in 1 .. Len(cache[c]) : s[k] = cache[c][j]
          BY <3>1, <5>1
        <5>. QED
          BY <2>2, <3>2, <5>2
      <4>. QED
        BY <4>1, <4>2
    <3>4. ASSUME NEW b2 \in 2 .. (i + 1) - 1
          PROVE  disk'[b2] = Filled(0) \/ \E k \in 1 .. n : s[k].bid = b2
      <4>1. CASE b2 = i
        <5>1. n \in 1 .. n /\ s[n].bid = b2
          BY <2>4, <3>1, <4>1
        <5>. QED
          BY <5>1
      <4>2. CASE b2 # i
        <5>1. b2 \in 2 .. i - 1 /\ b2 \in 0 .. total - 1
          BY <1>2, <2>2, <4>2
        <5>2. CASE disk[b2] = Filled(0)
          BY <3>1, <3>2, <5>1, <5>2
        <5>3. CASE disk[b2] # Filled(0)
          <6>1. PICK j \in 1 .. Len(cache[c]) : cache[c][j].bid = b2
            BY <1>3, <2>4, <5>1, <5>3 DEF ClearedTo, Waits
          <6>2. CASE \E k \in 1 .. n - 1 : s[k] = cache[c][j]
            <7>1. PICK k \in 1 .. n - 1 : s[k] = cache[c][j]
              BY <6>2
            <7>2. k \in 1 .. n
              BY <3>1
            <7>. QED
              BY <6>1, <7>1, <7>2
          <6>3. CASE ~\E k \in 1 .. n - 1 : s[k] = cache[c][j]
            <7>1. cache[c][j].modified /\ cache[c][j].bid \in 0 .. total - 1 =>
                    disk'[cache[c][j].bid] = cache[c][j].val
              BY <3>1, <6>3
            <7>2. cache[c][j].modified /\ cache[c][j].val = Filled(0)
              BY <3>2
            <7>. QED
              BY <5>1, <6>1, <7>1, <7>2
          <6>. QED
            BY <6>2, <6>3
        <5>. QED
          BY <5>2, <5>3
      <4>. QED
        BY <4>1, <4>2
    <3>5. Filled(0)' = Filled(0) /\ i' = i + 1
      BY <2>1 DEF Filled
    <3>. QED
      BY <2>4, <3>3, <3>4, <3>5 DEF ClearedTo, Waits, n
  <2>8. cache'["root"] = <<>> /\ cache'["fs"] = <<>>
    <3>1. cache'["root"] = cache["root"] /\ cache'["fs"] = cache["fs"]
      BY <2>4, <2>5 DEF Written, Caches
    <3>. QED
      BY <1>3, <3>1
  <2>9. Phases'
    BY <1>1, <2>1, <2>2, <2>6, <2>7, <2>8 DEF Phases
  <2>. QED
    BY <2>5, <2>9 DEF Invariant
<1>5. CASE ~(i < sb.data_start)
  <2>1. pc' = "super" /\ disk' = disk /\ cache' = cache
    BY <1>5 DEF ClearBlock, Goto
  <2>2. i = sb.data_start
    BY <1>2, <1>3, <1>5
  <2>3. Types'
    BY <1>1, <2>1 DEF Types, Args, Labels, HasRoom, Layout
  <2>4. ClearedTo(sb.data_start)'
    BY <1>1, <1>3, <2>1, <2>2 DEF ClearedTo, Waits, Filled
  <2>5. NotYetValid'
    BY <1>1, <1>3, <2>1 DEF NotYetValid, Args
  <2>6. Phases'
    BY <1>3, <2>1, <2>4, <2>5 DEF Phases
  <2>. QED
    BY <2>3, <2>6 DEF Invariant
<1>. QED
  BY <1>4, <1>5

\* The super block is put at the end of the cache.
LEMMA WriteSuperKept ==
  ASSUME Invariant, WriteSuper
  PROVE  Invariant'
<1>1. pc = "super" /\ UNCHANGED Args /\ sb' = sb /\ Types /\ pc' = "flush" /\ i' = 1
      /\ Write("init_fs", 1, Encoded(sb))
  BY DEF WriteSuper, At, Goto, Invariant, SUPER_BLOCK_LOC
<1>2. /\ total \in Nat /\ 2 <= total /\ sb.data_start \in Nat /\ sb.data_start <= total
      /\ Metadata = 2 .. sb.data_start - 1
  BY <1>1, LayoutIs
<1>3. /\ ClearedTo(sb.data_start) /\ NotYetValid
      /\ cache["root"] = <<>> /\ cache["fs"] = <<>>
  BY <1>1 DEF Invariant, Phases
<1>4. 1 \in 0 .. total - 1 /\ ~Waits("init_fs", 1)
  BY <1>2, <1>3 DEF ClearedTo, Waits
<1>5. PICK c, new : c = "init_fs" /\ new = [bid |-> 1, val |-> Encoded(sb), modified |-> TRUE]
  OBVIOUS
<1>6. Types' /\ Written(c, new)
  <2>1. c \in Caches /\ ~Waits(c, 1) /\ Write(c, 1, Encoded(sb)) /\ Encoded(sb) \in Blocks
        /\ pc' \in Labels /\ pc # "create"
    BY <1>1, <1>4, <1>5, EncodedIs DEF Caches, Labels
  <2>. QED
    BY <1>1, <1>4, <1>5, <2>1, WriteEffect
<1>. DEFINE s == cache'[c]
            n == Len(s)
<1>7. /\ n \in Nat \ {0} /\ s[n] = new
      /\ \A k \in 1 .. n - 1 : \E j \in 1 .. Len(cache[c]) : s[k] = cache[c][j]
      /\ \A j \in 1 .. Len(cache[c]) :
           \/ \E k \in 1 .. n - 1 : s[k] = cache[c][j]
           \/ cache[c][j].modified /\ cache[c][j].bid \in 0 .. total - 1 =>
                disk'[cache[c][j].bid] = cache[c][j].val
      /\ \A x \in 0 .. total - 1 :
           \/ disk'[x] = disk[x]
           \/ \E j \in 1 .. Len(cache[c]) :
                cache[c][j].modified /\ cache[c][j].bid = x /\ disk'[x] = cache[c][j].val
      /\ \A o \in Caches \ {c} : cache'[o] = cache[o]
  BY <1>6, Zenon DEF Written, Kept, Saved, Saves
<1>. HIDE DEF n
<1>8. \A j \in 1 .. Len(cache[c]) : /\ cache[c][j].bid \in Metadata
                                    /\ cache[c][j].val = Filled(0) /\ cache[c][j].modified
  BY <1>2, <1>3, <1>5 DEF ClearedTo
<1>9. ASSUME NEW k \in 1 .. n - 1
      PROVE  s[k].bid \in Metadata /\ s[k].val = Filled(0) /\ s[k].modified
  <2>1. PICK j \in 1 .. Len(cache[c]) : s[k] = cache[c][j]
    BY <1>7
  <2>. QED
    BY <1>8, <2>1
<1>10. ASSUME NEW b \in Metadata
       PROVE  disk'[b] = Filled(0) \/ \E k \in 1 .. n - 1 : s[k].bid = b
  <2>1. b \in 0 .. total - 1 /\ (disk[b] = Filled(0) \/ Waits(c, b))
    BY <1>2, <1>3, <1>5 DEF ClearedTo
  <2>2. CASE disk[b] = Filled(0)
    BY <1>7, <1>8, <2>1, <2>2
  <2>3. CASE Waits(c, b)
    <3>1. PICK j \in 1 .. Len(cache[c]) : cache[c][j].bid = b
      BY <2>3 DEF Waits
    <3>2. cache[c][j].modified /\ cache[c][j].val = Filled(0) /\ cache[c][j].bid \in 0 .. total - 1
      BY <1>8, <2>1, <3>1
    <3>. HIDE DEF s, n
    <3>3. \/ \E k \in 1 .. n - 1 : s[k] = cache[c][j]
          \/ disk'[cache[c][j].bid] = cache[c][j].val
      BY <1>7, <3>2
    <3>. QED
      BY <3>1, <3>2, <3>3
  <2>. QED
    BY <2>1, <2>2, <2>3
<1>11. disk'[1] = disk[1]
  BY <1>2, <1>4, <1>7, <1>8
<1>12. NotYetValid'
  BY <1>1, <1>3, <1>11 DEF NotYetValid, Args, SUPER_BLOCK_LOC
<1>13. \A k \in 1 .. n : s[k].modified
  <2>1. new.modified
    BY <1>5
  <2>2. \A k \in 1 .. n : k = n \/ k \in 1 .. n - 1
    BY <1>7
  <2>. QED
    BY <1>7, <1>9, <2>1, <2>2, Zenon
<1>14. SuperLast'
  <2>1. s[n].bid = 1 /\ s[n].val = Encoded(sb) /\ n >= 1
    BY <1>5, <1>7
  <2>2. Metadata' = Metadata /\ Encoded(sb)' = Encoded(sb) /\ Filled(0)' = Filled(0)
    BY <1>1, Fixed
  <2>3. cache'["init_fs"] = s
    BY <1>5
  <2>. HIDE DEF s
  <2>. QED
    BY <1>9, <2>1, <2>2, <2>3 DEF SuperLast, SUPER_BLOCK_LOC, n
<1>15. FlushedTo'
  <2>1. 1 \in 1 .. n + 1 /\ 1 # n + 1 /\ \A k \in 1 .. n : k >= 1
    BY <1>7
  <2>2. Metadata' = Metadata /\ Filled(0)' = Filled(0)
    BY <1>1, Fixed
  <2>3. cache'["init_fs"] = s /\ i' = 1
    BY <1>1, <1>5
  <2>4. \A k \in 1 .. n : s[k].modified <=> k >= 1
    BY <1>13, <2>1
  <2>. HIDE DEF s
  <2>. QED
    BY <1>10, <1>12, <2>1, <2>2, <2>3, <2>4 DEF FlushedTo, n
<1>16. Phases'
  <2>1. cache'["root"] = cache["root"] /\ cache'["fs"] = cache["fs"]
    BY <1>5, <1>7 DEF Caches
  <2>. QED
    BY <1>1, <1>3, <1>14, <1>15, <2>1 DEF Phases
<1>. QED
  BY <1>6, <1>16 DEF Invariant

\* flush writes the buffers in their order, the super block after all others.
LEMMA FlushKept ==
  ASSUME Invariant, Flush
  PROVE  Invariant'
<1>1. pc = "flush" /\ UNCHANGED Args /\ sb' = sb /\ Types
  BY DEF Flush, At, Invariant
<1>2. /\ total \in Nat /\ 2 <= total /\ sb.data_start \in Nat /\ sb.data_start <= total
      /\ Metadata = 2 .. sb.data_start - 1
  BY <1>1, LayoutIs
<1>3. SuperLast /\ FlushedTo /\ cache["root"] = <<>> /\ cache["fs"] = <<>>
  BY <1>1 DEF Invariant, Phases
<1>4. PICK s, n : s = cache["init_fs"] /\ n = Len(s)
  OBVIOUS
<1>5. s \in Seq(Buffers) /\ n \in Nat /\ n <= BufferSize
  BY <1>1, <1>4 DEF Types, Caches
<1>6. /\ n >= 1 /\ s[n].bid = 1 /\ s[n].val = Encoded(sb)
      /\ \A k \in 1 .. n - 1 : s[k].bid \in Metadata /\ s[k].val = Filled(0)
  BY <1>3, <1>4 DEF SuperLast, SUPER_BLOCK_LOC
<1>7. /\ i \in 1 .. n + 1
      /\ \A k \in 1 .. n : s[k].modified <=> k >= i
      /\ \A b \in Metadata : disk[b] = Filled(0) \/ \E k \in i .. n - 1 : s[k].bid = b
      /\ IF i = n + 1 THEN disk[1] = Encoded(sb) ELSE NotYetValid
  BY <1>3, <1>4 DEF FlushedTo, SUPER_BLOCK_LOC
<1>8. Metadata' = Metadata /\ Encoded(sb)' = Encoded(sb) /\ Filled(0)' = Filled(0) /\ before' = before
  BY <1>1, Fixed
<1>9. CASE i <= n
  <2>1. PICK e : e = s[i]
    OBVIOUS
  <2>2. i \in 1 .. n /\ e \in Buffers
    <3>. HIDE DEF Buffers
    <3>1. i \in 1 .. n
      BY <1>5, <1>7, <1>9
    <3>. QED
      BY <1>4, <1>5, <2>1, <3>1
  <2>3. e.modified /\ e.bid \in Nat /\ e.val \in Blocks
    <3>1. e.modified
      BY <1>5, <1>7, <2>1, <2>2
    <3>. QED
      BY <2>2, <3>1 DEF Buffers
  <2>4. PICK f : f = [e EXCEPT !.modified = FALSE]
    OBVIOUS
  <2>5. f \in Buffers /\ f.bid = e.bid /\ f.val = e.val /\ ~f.modified
    BY <2>2, <2>4 DEF Buffers
  <2>6. PICK u : u = [s EXCEPT ![i] = f]
    OBVIOUS
  <2>7. u \in Seq(Buffers) /\ Len(u) = n /\ \A k \in 1 .. n : u[k] = IF k = i THEN f ELSE s[k]
    <3>. HIDE DEF Buffers
    <3>. QED
      BY <1>4, <1>5, <2>2, <2>5, <2>6
  <2>8. /\ disk' = WrittenBack(disk, s[i]) /\ pc' = "flush" /\ i' = i + 1
        /\ cache' = [cache EXCEPT !["init_fs"][i] = Synced(@)]
    BY <1>4, <1>9 DEF Flush, Goto, Flushed
  <2>9. cache' = [cache EXCEPT !["init_fs"] = u]
    <3>1. Synced(s[i]) = f
      BY <2>1, <2>4 DEF Synced
    <3>2. [cache EXCEPT !["init_fs"][i] = Synced(@)]
            = [cache EXCEPT !["init_fs"] = [cache["init_fs"] EXCEPT ![i] = Synced(cache["init_fs"][i])]]
      OBVIOUS
    <3>. QED
      BY <1>4, <2>6, <2>8, <3>1, <3>2
  <2>10. disk' = [disk EXCEPT ![e.bid] = e.val] /\ disk \in [0 .. total - 1 -> Blocks]
    BY <1>1, <2>1, <2>3, <2>8 DEF WrittenBack, Types
  <2>11. /\ disk' \in [0 .. total - 1 -> Blocks]
         /\ \A b \in 0 .. total - 1 : disk'[b] = IF b = e.bid THEN e.val ELSE disk[b]
    BY <2>3, <2>10
  <2>12. Types' /\ cache'["init_fs"] = u /\ \A o \in Caches \ {"init_fs"} : cache'[o] = cache[o]
    <3>1. PICK c : c = "init_fs"
      OBVIOUS
    <3>2. c \in Caches /\ pc # "create" /\ pc' \in Labels /\ cache' = [cache EXCEPT ![c] = u]
          /\ Len(u) <= BufferSize
      BY <1>1, <1>5, <2>7, <2>8, <2>9, <3>1 DEF Caches, Labels
    <3>. QED
      BY <1>1, <2>7, <2>11, <3>1, <3>2, TypesKept
  <2>13. SuperLast'
    <3>1. n \in 1 .. n /\ \A k \in 1 .. n - 1 : k \in 1 .. n
      BY <1>5, <1>6
    <3>2. \A k \in 1 .. n : u[k].bid = s[k].bid /\ u[k].val = s[k].val
      BY <2>1, <2>5, <2>7
    <3>. QED
      BY <1>6, <1>8, <2>7, <2>12, <3>1, <3>2 DEF SuperLast, SUPER_BLOCK_LOC
  <2>14. \A k \in 1 .. n : u[k].modified <=> k >= i + 1
    <3>1. SUFFICES ASSUME NEW k \in 1 .. n PROVE u[k].modified <=> k >= i + 1
      OBVIOUS
    <3>2. CASE k = i
      <4>1. u[k] = f /\ ~(k >= i + 1)
        BY <2>2, <2>7, <3>2
      <4>. QED
        BY <2>5, <4>1
    <3>3. CASE k # i
      <4>1. u[k] = s[k] /\ (k >= i + 1 <=> k >= i)
        BY <2>2, <2>7, <3>3
      <4>. QED
        BY <1>7, <4>1
    <3>. QED
      BY <3>2, <3>3
  <2>15. ASSUME NEW b \in Metadata
         PROVE  disk'[b] = Filled(0) \/ \E k \in i + 1 .. n - 1 : u[k].bid = b
    <3>1. b \in 0 .. total - 1 /\ b # 1
      BY <1>2
    <3>2. CASE e.bid = b
      <4>1. i # n /\ i \in 1 .. n - 1
        BY <1>5, <1>6, <2>1, <2>2, <3>1, <3>2
      <4>2. e.val = Filled(0)
        BY <1>6, <2>1, <4>1
      <4>. QED
        BY <2>11, <3>1, <3>2, <4>2
    <3>3. CASE e.bid # b
      <4>1. disk'[b] = disk[b]
        BY <2>11, <3>1, <3>3
      <4>2. ASSUME NEW k \in i .. n - 1, s[k].bid = b
            PROVE  k \in i + 1 .. n - 1 /\ u[k].bid = b
        <5>1. k # i
          BY <2>1, <3>3, <4>2
        <5>2. k \in 1 .. n /\ k \in i + 1 .. n - 1
          BY <1>5, <2>2, <5>1
        <5>. QED
          BY <2>7, <4>2, <5>1, <5>2
      <4>. QED
        BY <1>7, <4>1, <4>2
    <3>. QED
      BY <3>2, <3>3
  <2>16. IF i + 1 = n + 1 THEN disk'[1] = Encoded(sb) ELSE NotYetValid'
    <3>1. 1 \in 0 .. total - 1 /\ i # n + 1
      BY <1>2, <1>5, <2>2
    <3>2. CASE i = n
      BY <1>6, <2>1, <2>11, <3>1, <3>2
    <3>3. CASE i # n
      <4>1. i \in 1 .. n - 1 /\ i + 1 # n + 1
        BY <1>5, <2>2, <3>3
      <4>2. e.bid # 1
        BY <1>2, <1>6, <2>1, <4>1
      <4>3. disk'[1] = disk[1]
        BY <2>11, <3>1, <4>2
      <4>. QED
        BY <1>7, <1>8, <3>1, <4>1, <4>3 DEF NotYetValid, SUPER_BLOCK_LOC
    <3>. QED
      BY <3>2, <3>3
  <2>17. FlushedTo'
    <3>1. i + 1 \in 1 .. n + 1
      BY <1>5, <2>2
    <3>. QED
      BY <1>8, <2>7, <2>8, <2>12, <2>14, <2>15, <2>16, <3>1 DEF FlushedTo, SUPER_BLOCK_LOC
  <2>18. cache'["root"] = <<>> /\ cache'["fs"] = <<>>
    BY <1>3, <2>12 DEF Caches
  <2>. QED
    BY <2>8, <2>12, <2>13, <2>17, <2>18 DEF Invariant, Phases
<1>10. CASE ~(i <= n)
  <2>1. pc' = "check" /\ disk' = disk /\ cache' = cache
    BY <1>4, <1>10 DEF Flush, Goto
  <2>2. i = n + 1
    BY <1>5, <1>7, <1>10
  <2>3. Types'
    BY <1>1, <2>1 DEF Types, Args, Labels, HasRoom, Layout
  <2>4. Clean("init_fs")
    <3>1. \A k \in 1 .. n : ~(k >= i)
      BY <1>5, <2>2
    <3>. QED
      BY <1>4, <1>7, <3>1 DEF Clean
  <2>5. Cleared({})
    <3>1. i .. n - 1 = {}
      BY <1>5, <2>2
    <3>. QED
      BY <1>7, <2>2, <3>1 DEF Cleared, SUPER_BLOCK_LOC
  <2>6. (SuperLast /\ Clean("init_fs") /\ Cleared({}))'
    BY <1>3, <1>8, <2>1, <2>4, <2>5 DEF SuperLast, Clean, Cleared
  <2>. QED
    BY <1>3, <2>1, <2>3, <2>6 DEF Invariant, Phases
<1>. QED
  BY <1>4, <1>9, <1>10

\* The super block is found in the cache as it was written.
LEMMA CheckSuperKept ==
  ASSUME Invariant, CheckSuper
  PROVE  Invariant'
<1>1. pc = "check" /\ UNCHANGED Args /\ sb' = sb /\ Types /\ Read("init_fs", 1)
  BY DEF CheckSuper, At, Invariant, SUPER_BLOCK_LOC
<1>2. /\ SuperLast /\ Clean("init_fs") /\ Cleared({})
      /\ cache["root"] = <<>> /\ cache["fs"] = <<>>
  BY <1>1 DEF Invariant, Phases
<1>3. PICK c, n : c = "init_fs" /\ n = Len(cache[c])
  OBVIOUS
<1>4. /\ n \in Nat /\ n >= 1 /\ cache[c][n].bid = 1 /\ cache[c][n].val = Encoded(sb)
      /\ \A k \in 1 .. n - 1 : cache[c][k].bid \in Metadata
  BY <1>1, <1>2, <1>3 DEF SuperLast, SUPER_BLOCK_LOC, Types, Caches
<1>5. Buffer(c, 1) = {n}
  <2>1. ~(1 \in Metadata)
    BY <1>1, LayoutIs
  <2>2. \A k \in 1 .. n : k = n \/ k \in 1 .. n - 1
    BY <1>4
  <2>3. n \in 1 .. n
    BY <1>4
  <2>. QED
    BY <1>3, <1>4, <2>1, <2>2, <2>3 DEF Buffer
<1>6. Shown(c, 1) = Encoded(sb)
  BY <1>4, <1>5 DEF Shown
<1>7. Loaded(c, 1) = [buffers |-> cache[c], disk |-> disk]
  BY <1>5 DEF Loaded
<1>8. disk' = disk /\ cache' = cache
  <2>1. Loaded(c, 1).buffers = cache[c] /\ Loaded(c, 1).disk = disk
    BY <1>7
  <2>2. cache' = [cache EXCEPT ![c] = Loaded(c, 1).buffers] /\ disk' = Loaded(c, 1).disk
    BY <1>1, <1>3, Zenon DEF Read
  <2>3. cache' = [cache EXCEPT ![c] = cache[c]] /\ disk' = disk
    BY <2>1, <2>2, Zenon
  <2>. QED
    BY <1>1, <2>3 DEF Types
<1>9. pc' = "open_root"
  BY <1>3, <1>6 DEF CheckSuper, Goto, SUPER_BLOCK_LOC
<1>10. Types'
  BY <1>1, <1>8, <1>9 DEF Types, Args, Labels, HasRoom, Layout
<1>11. (Clean("init_fs") /\ Cleared({}))'
  BY <1>1, <1>2, <1>8, Fixed DEF Clean, Cleared
<1>. QED
  BY <1>2, <1>8, <1>9, <1>10, <1>11 DEF Invariant, Phases

\* open with an empty cache: the super block that is on the disk is read.
LEMMA OpenEffect ==
  ASSUME Types, pc # "create", disk[1] = Encoded(sb), NEW c \in Caches, cache[c] = <<>>,
         NEW label, NEW next \in Labels, NEW n, Open(c, label, next, n)
  PROVE  /\ Types' /\ UNCHANGED Args /\ sb' = sb /\ disk' = disk /\ pc' = next /\ i' = n
         /\ tool' = tool
         /\ Len(cache'[c]) = 1 /\ cache'[c][1].bid = 1 /\ ~cache'[c][1].modified
         /\ \A o \in Caches \ {c} : cache'[o] = cache[o]
<1>1. UNCHANGED Args /\ Read(c, 1)
  BY DEF Open, SUPER_BLOCK_LOC
<1>2. 1 \in 0 .. total - 1 /\ BufferSize \in Nat \ {0} /\ disk \in [0 .. total - 1 -> Blocks]
  BY LayoutIs, FormatAssumption DEF Types
<1>3. PICK e : e = [bid |-> 1, val |-> disk[1], modified |-> FALSE]
  OBVIOUS
<1>4. e \in Buffers /\ e.bid = 1 /\ ~e.modified
  BY <1>2, <1>3 DEF Buffers
<1>5. Buffer(c, 1) = {} /\ Len(cache[c]) = 0 /\ Len(cache[c]) # BufferSize
  BY <1>2 DEF Buffer
<1>6. Loaded(c, 1) = [buffers |-> Append(cache[c], e), disk |-> disk]
  BY <1>3, <1>5 DEF Loaded
<1>7. Shown(c, 1) = Encoded(sb)
  BY <1>5 DEF Shown
<1>8. sb' = sb /\ pc' = next /\ i' = n /\ tool' = tool
  BY <1>7, EncodedIs DEF Open, Goto, SUPER_BLOCK_LOC
<1>9. PICK s : s = Append(cache[c], e)
  OBVIOUS
<1>10. s \in Seq(Buffers) /\ Len(s) = 1 /\ s[1] = e
  <2>1. cache[c] \in Seq(Buffers)
    BY DEF Types
  <2>. QED
    BY <1>4, <1>5, <1>9, <2>1, AppendIs
<1>11. cache' = [cache EXCEPT ![c] = s] /\ disk' = disk
  <2>1. Loaded(c, 1).buffers = s /\ Loaded(c, 1).disk = disk
    BY <1>6, <1>9
  <2>2. cache' = [cache EXCEPT ![c] = Loaded(c, 1).buffers] /\ disk' = Loaded(c, 1).disk
    BY <1>1, Zenon DEF Read
  <2>. QED
    BY <2>1, <2>2, Zenon
<1>12. Len(s) <= BufferSize /\ disk' \in [0 .. total - 1 -> Blocks]
  BY <1>2, <1>10, <1>11
<1>13. Types' /\ cache'[c] = s /\ \A o \in Caches \ {c} : cache'[o] = cache[o]
  BY <1>1, <1>8, <1>10, <1>11, <1>12, TypesKept
<1>. QED
  BY <1>1, <1>4, <1>8, <1>10, <1>11, <1>13

\* init_fs opens the file system it has made.
LEMMA OpenRootKept ==
  ASSUME Invariant, Open("root", "open_root", "allocate_root", SUPER_BLOCK_LOC + 1)
  PROVE  Invariant'
<1>1. pc = "open_root" /\ Types
  BY DEF Open, At, Invariant
<1>2. Clean("init_fs") /\ Cleared({}) /\ cache["root"] = <<>> /\ cache["fs"] = <<>>
  BY <1>1 DEF Invariant, Phases
<1>3. PICK c, label, next, n : /\ c = "root" /\ label = "open_root" /\ next = "allocate_root"
                               /\ n = SUPER_BLOCK_LOC + 1
  OBVIOUS
<1>4. c \in Caches /\ next \in Labels /\ pc # "create" /\ disk[1] = Encoded(sb)
  BY <1>1, <1>2, <1>3 DEF Caches, Labels, Cleared, SUPER_BLOCK_LOC
<1>5. /\ Types' /\ UNCHANGED Args /\ sb' = sb /\ disk' = disk /\ pc' = next /\ i' = n
      /\ Len(cache'[c]) = 1 /\ cache'[c][1].bid = 1 /\ ~cache'[c][1].modified
      /\ \A o \in Caches \ {c} : cache'[o] = cache[o]
  BY <1>1, <1>2, <1>3, <1>4, OpenEffect
<1>6. cache'["init_fs"] = cache["init_fs"] /\ cache'["fs"] = <<>>
  BY <1>2, <1>3, <1>5 DEF Caches
<1>7. i' = BitmapStart'
  BY <1>1, <1>3, <1>5, Fixed, LayoutIs DEF SUPER_BLOCK_LOC
<1>8. (Clean("init_fs") /\ Cleared({}))'
  BY <1>2, <1>5, <1>6, Fixed DEF Clean, Cleared
<1>9. \A k \in 1 .. Len(cache'["root"]) :
        cache'["root"][k].bid = SUPER_BLOCK_LOC /\ ~cache'["root"][k].modified
  <2>1. \A k \in 1 .. Len(cache'[c]) : k = 1
    BY <1>5
  <2>. QED
    BY <1>3, <1>5, <2>1 DEF SUPER_BLOCK_LOC
<1>. QED
  BY <1>3, <1>5, <1>6, <1>7, <1>8, <1>9 DEF Invariant, Phases

\* create opens the file system it returns.
LEMMA OpenKept ==
  ASSUME Invariant, Open("fs", "open", "created", 0)
  PROVE  Invariant'
<1>1. pc = "open" /\ Types
  BY DEF Open, At, Invariant
<1>2. /\ Cleared({BitmapStart, InodeStart})
      /\ disk[BitmapStart] = RootBit /\ disk[InodeStart] = RootInode
      /\ cache["root"] = <<>> /\ cache["init_fs"] = <<>> /\ cache["fs"] = <<>>
  BY <1>1 DEF Invariant, Phases
<1>3. PICK c, label, next, n : c = "fs" /\ label = "open" /\ next = "created" /\ n = 0
  OBVIOUS
<1>4. c \in Caches /\ next \in Labels /\ pc # "create" /\ disk[1] = Encoded(sb)
  BY <1>1, <1>2, <1>3 DEF Caches, Labels, Cleared, SUPER_BLOCK_LOC
<1>5. /\ Types' /\ UNCHANGED Args /\ sb' = sb /\ disk' = disk /\ pc' = next
      /\ Len(cache'[c]) = 1 /\ ~cache'[c][1].modified
      /\ \A o \in Caches \ {c} : cache'[o] = cache[o]
  BY <1>1, <1>2, <1>3, <1>4, OpenEffect
<1>6. cache'["init_fs"] = <<>> /\ cache'["root"] = <<>>
  BY <1>2, <1>3, <1>5 DEF Caches
<1>7. Clean("init_fs")' /\ Clean("fs")'
  <2>1. \A k \in 1 .. Len(cache'[c]) : k = 1
    BY <1>5
  <2>. QED
    BY <1>3, <1>5, <1>6, <2>1 DEF Clean
<1>8. /\ Cleared({BitmapStart, InodeStart})'
      /\ (disk[BitmapStart] = RootBit /\ disk[InodeStart] = RootInode)'
  BY <1>2, <1>5, Fixed DEF Cleared
<1>. QED
  BY <1>3, <1>5, <1>6, <1>7, <1>8 DEF Invariant, Phases

\* allocate_inode finds the first bit of a cleared bitmap; if there is no inode at all
\* it fails, and nothing is written.
LEMMA AllocateRootKept ==
  ASSUME Invariant, AllocateRoot
  PROVE  Invariant'
<1>1. pc = "allocate_root" /\ tool = "running" /\ UNCHANGED Args /\ sb' = sb /\ Types
  BY DEF AllocateRoot, At, Invariant
<1>2. /\ Clean("init_fs") /\ Cleared({}) /\ cache["fs"] = <<>> /\ i = BitmapStart
      /\ \A k \in 1 .. Len(cache["root"]) :
           cache["root"][k].bid = 1 /\ ~cache["root"][k].modified
  BY <1>1 DEF Invariant, Phases, SUPER_BLOCK_LOC
<1>3. /\ total \in Nat /\ BitmapStart = 2 /\ InodeStart \in Nat /\ 2 < InodeStart
      /\ InodeStart < sb.data_start /\ sb.data_start \in Nat /\ sb.data_start <= total
      /\ Metadata = 2 .. sb.data_start - 1
  BY <1>1, LayoutIs
<1>4. PICK c, new : c = "root" /\ new = [bid |-> 2, val |-> RootBit, modified |-> TRUE]
  OBVIOUS
<1>5. i = 2 /\ ~Waits(c, 2) /\ Buffer(c, 2) = {} /\ disk[2] = Filled(0)
  BY <1>2, <1>3, <1>4 DEF Waits, Buffer, Cleared
<1>6. Shown(c, 2) = Filled(0)
  BY <1>5 DEF Shown
<1>7. ClearWords(Filled(0)) # {} /\ LeastWord(ClearWords(Filled(0))) = 1
  <2>1. ClearWords(Filled(0)) = 1 .. Words
    BY FilledIs DEF ClearWords
  <2>2. 1 \in 1 .. Words /\ \A j \in 1 .. Words : 1 <= j
    BY WordsNat
  <2>3. \A x \in 1 .. Words : (\A j \in 1 .. Words : x <= j) => x = 1
    BY WordsNat
  <2>. QED
    BY <2>1, <2>2, <2>3 DEF LeastWord
<1>8. /\ Write(c, 2, RootBit)
      /\ \/ Panic
         \/ Goto("init_root", 0)
  <2>1. i # sb.inode_start /\ Shown("root", i) = Filled(0) /\ (i - sb.inode_bmap_start) = 0
    BY <1>3, <1>4, <1>5, <1>6 DEF InodeStart, BitmapStart
  <2>2. LeastWord(ClearWords(Shown("root", i))) - 1 = 0 /\ 0 * Words + 0 = 0 /\ 0 + 1 = 1
    BY <1>7, <2>1, WordsNat
  <2>. HIDE DEF BitmapStart
  <2>3. /\ Write("root", i, [Filled(0) EXCEPT ![0 + 1] = 1])
        /\ (Panic \/ Goto("init_root", 0))
    BY <1>7, <2>1, <2>2 DEF AllocateRoot
  <2>. QED
    BY <1>4, <1>5, <2>2, <2>3 DEF RootBit
<1>9. pc' \in {"allocate_root", "init_root"}
  BY <1>1, <1>8 DEF Panic, Goto
<1>10. Types' /\ Written(c, new)
  <2>1. c \in Caches /\ RootBit \in Blocks /\ pc' \in Labels /\ pc # "create" /\ 2 \in 0 .. total - 1
    BY <1>1, <1>3, <1>4, <1>9, FilledIs DEF Caches, Labels
  <2>. QED
    BY <1>1, <1>4, <1>5, <1>8, <2>1, WriteEffect
<1>11. /\ Len(cache'[c]) \in Nat \ {0} /\ cache'[c][Len(cache'[c])] = new
       /\ \A k \in 1 .. Len(cache'[c]) - 1 :
            \E j \in 1 .. Len(cache[c]) : cache'[c][k] = cache[c][j]
       /\ \A x \in 0 .. total - 1 :
            \/ disk'[x] = disk[x]
            \/ \E j \in 1 .. Len(cache[c]) :
                 cache[c][j].modified /\ cache[c][j].bid = x /\ disk'[x] = cache[c][j].val
       /\ \A o \in Caches \ {c} : cache'[o] = cache[o]
  BY <1>10, Zenon DEF Written, Kept, Saved, Saves
<1>12. \A x \in 0 .. total - 1 : disk'[x] = disk[x]
  BY <1>2, <1>4, <1>11
<1>13. cache'["init_fs"] = cache["init_fs"] /\ cache'["fs"] = <<>>
  BY <1>2, <1>4, <1>11 DEF Caches
<1>14. Clean("init_fs")' /\ Cleared({})' /\ Cleared({BitmapStart})'
  <2>1. Clean("init_fs")'
    BY <1>2, <1>13 DEF Clean
  <2>2. 1 \in 0 .. total - 1 /\ Metadata \subseteq 0 .. total - 1
    BY <1>3
  <2>3. disk'[1] = Encoded(sb) /\ \A b \in Metadata : disk'[b] = Filled(0)
    BY <1>2, <1>12, <2>2 DEF Cleared, SUPER_BLOCK_LOC
  <2>. QED
    BY <1>1, <2>1, <2>3, Fixed DEF Cleared, SUPER_BLOCK_LOC
<1>15. CASE Panic
  <2>1. pc' = "allocate_root" /\ tool' # "running"
    BY <1>1, <1>15 DEF Panic
  <2>. QED
    BY <1>10, <1>13, <1>14, <2>1 DEF Invariant, Phases
<1>16. CASE Goto("init_root", 0)
  <2>1. pc' = "init_root" /\ i' = 0
    BY <1>16 DEF Goto
  <2>2. \A k \in 1 .. Len(cache'[c]) :
          cache'[c][k] = new \/ (cache'[c][k].bid = 1 /\ ~cache'[c][k].modified)
    <3>1. SUFFICES ASSUME NEW k \in 1 .. Len(cache'[c]) - 1
                   PROVE  cache'[c][k].bid = 1 /\ ~cache'[c][k].modified
      BY <1>11
    <3>2. PICK j \in 1 .. Len(cache[c]) : cache'[c][k] = cache[c][j]
      BY <1>11
    <3>. QED
      BY <1>2, <1>4, <3>2
  <2>3. /\ RootBuffers' /\ ~Waits("root", InodeStart)'
    <3>1. new.bid = 2 /\ new.val = RootBit /\ new.modified
      BY <1>4
    <3>2. BitmapStart' = 2 /\ InodeStart' = InodeStart /\ RootBit' = RootBit
          /\ InodeStart # 1 /\ InodeStart # 2
      BY <1>1, <1>3, Fixed
    <3>. QED
      BY <1>4, <2>2, <3>1, <3>2 DEF RootBuffers, Waits, SUPER_BLOCK_LOC
  <2>4. Settles(BitmapStart, RootBit)'
    <3>1. new.bid = 2 /\ Len(cache'[c]) \in 1 .. Len(cache'[c]) /\ 2 \in 0 .. total - 1
      BY <1>3, <1>4, <1>11
    <3>2. Waits(c, 2)'
      BY <1>11, <3>1 DEF Waits
    <3>3. disk'[2] = Filled(0)
      BY <1>5, <1>12, <3>1
    <3>4. BitmapStart' = 2 /\ Filled(0)' = Filled(0)
      BY <1>1, <1>3, Fixed
    <3>. QED
      BY <1>4, <3>2, <3>3, <3>4 DEF Settles, Waits
  <2>. QED
    BY <1>10, <1>13, <1>14, <2>1, <2>3, <2>4 DEF Invariant, Phases
<1>. QED
  BY <1>8, <1>15, <1>16

\* A bit or inode of the root that has settled, or waits, still does so after a write
\* to another block, or after a buffer was dropped.
LEMMA SettlesKept ==
  ASSUME NEW b \in 0 .. total - 1, NEW val, Settles(b, val), Saves("root"),
         NEW n \in 0 .. Len(cache'["root"]), Saved("root", cache'["root"], n),
         \A k \in 1 .. Len(cache["root"]) :
           cache["root"][k].bid = b => cache["root"][k].val = val /\ cache["root"][k].modified
  PROVE  disk'[b] = val \/ (disk'[b] = Filled(0) /\ Waits("root", b)')
<1>1. CASE disk'[b] # disk[b]
  BY <1>1 DEF Saves
<1>2. CASE disk'[b] = disk[b] /\ disk[b] = val
  BY <1>2
<1>3. CASE disk'[b] = disk[b] /\ disk[b] # val
  <2>1. disk[b] = Filled(0) /\ Waits("root", b)
    BY <1>3 DEF Settles
  <2>2. PICK j \in 1 .. Len(cache["root"]) : cache["root"][j].bid = b
    BY <2>1 DEF Waits
  <2>3. cache["root"][j].val = val /\ cache["root"][j].modified
    BY <2>2
  <2>4. CASE \E k \in 1 .. n : cache'["root"][k] = cache["root"][j]
    <3>1. \A k \in 1 .. n : k \in 1 .. Len(cache'["root"])
      OBVIOUS
    <3>. QED
      BY <1>3, <2>1, <2>2, <2>4, <3>1 DEF Waits
  <2>5. CASE disk'[cache["root"][j].bid] = cache["root"][j].val
    BY <2>2, <2>3, <2>5
  <2>. QED
    BY <2>2, <2>3, <2>4, <2>5 DEF Saved
<1>. QED
  BY <1>1, <1>2, <1>3

\* The root inode is the first of the inode area.
LEMMA InitRootKept ==
  ASSUME Invariant, InitRoot
  PROVE  Invariant'
<1>1. pc = "init_root" /\ UNCHANGED Args /\ sb' = sb /\ Types
  BY DEF InitRoot, At, Invariant
<1>2. /\ Clean("init_fs") /\ Cleared({BitmapStart}) /\ Settles(BitmapStart, RootBit)
      /\ i = 0 /\ RootBuffers /\ ~Waits("root", InodeStart) /\ cache["fs"] = <<>>
  BY <1>1 DEF Invariant, Phases
<1>3. /\ total \in Nat /\ BitmapStart = 2 /\ InodeStart \in Nat /\ 2 < InodeStart
      /\ InodeStart < sb.data_start /\ sb.data_start \in Nat /\ sb.data_start <= total
      /\ Metadata = 2 .. sb.data_start - 1
  BY <1>1, LayoutIs
<1>4. PICK c, a, new : /\ c = "root" /\ a = InodeStart
                       /\ new = [bid |-> a, val |-> RootInode, modified |-> TRUE]
  OBVIOUS
<1>5. a \in 0 .. total - 1 /\ a \in Metadata /\ a # 2 /\ a # 1 /\ ~Waits(c, a) /\ disk[a] = Filled(0)
      /\ Metadata \subseteq 0 .. total - 1 /\ 2 \in 0 .. total - 1 /\ 1 \in 0 .. total - 1
  BY <1>2, <1>3, <1>4 DEF Cleared
<1>6. Shown(c, a) = Filled(0)
  <2>1. Buffer(c, a) = {}
    BY <1>5 DEF Waits, Buffer
  <2>. QED
    BY <1>5, <2>1 DEF Shown
<1>7. Write(c, a, RootInode) /\ pc' = "drop_root"
  <2>1. 0 \div InodesPerBlock = 0 /\ 0 % InodesPerBlock = 0
    BY FormatAssumption
  <2>2. FindInode(sb, 0).block = a /\ FindInode(sb, 0).word = 1
    BY <1>3, <1>4, <2>1 DEF FindInode, InodeStart
  <2>3. Write("root", a, [Shown("root", a) EXCEPT ![1] = Directory]) /\ pc' = "drop_root"
    BY <1>2, <2>2 DEF InitRoot, Goto
  <2>. QED
    BY <1>4, <1>6, <2>3 DEF RootInode
<1>8. Types' /\ Written(c, new)
  <2>1. c \in Caches /\ RootInode \in Blocks /\ pc' \in Labels /\ pc # "create"
    BY <1>1, <1>4, <1>7, FilledIs DEF Caches, Labels
  <2>. QED
    BY <1>1, <1>4, <1>5, <1>7, <2>1, WriteEffect
<1>. DEFINE s == cache'[c]
            n == Len(s)
<1>9. /\ n \in Nat \ {0} /\ s[n] = new
      /\ \A k \in 1 .. n - 1 : \E j \in 1 .. Len(cache[c]) : s[k] = cache[c][j]
      /\ \A j \in 1 .. Len(cache[c]) :
           \/ \E k \in 1 .. n - 1 : s[k] = cache[c][j]
           \/ cache[c][j].modified /\ cache[c][j].bid \in 0 .. total - 1 =>
                disk'[cache[c][j].bid] = cache[c][j].val
      /\ \A x \in 0 .. total - 1 :
           \/ disk'[x] = disk[x]
           \/ \E j \in 1 .. Len(cache[c]) :
                cache[c][j].modified /\ cache[c][j].bid = x /\ disk'[x] = cache[c][j].val
      /\ \A o \in Caches \ {c} : cache'[o] = cache[o]
  BY <1>8, Zenon DEF Written, Kept, Saved, Saves
<1>. HIDE DEF n
<1>10. cache'["init_fs"] = cache["init_fs"] /\ cache'["fs"] = <<>>
  BY <1>2, <1>4, <1>9 DEF Caches
<1>11. \A j \in 1 .. Len(cache[c]) :
         \/ cache[c][j].bid = 1 /\ ~cache[c][j].modified
         \/ cache[c][j].bid = 2 /\ cache[c][j].val = RootBit /\ cache[c][j].modified
  BY <1>2, <1>3, <1>4 DEF RootBuffers, Waits, SUPER_BLOCK_LOC
<1>12. \A x \in 0 .. total - 1 : x # 2 => disk'[x] = disk[x]
  <2>. SUFFICES ASSUME NEW x \in 0 .. total - 1, x # 2, disk'[x] # disk[x] PROVE FALSE
    OBVIOUS
  <2>1. PICK j \in 1 .. Len(cache[c]) : cache[c][j].modified /\ cache[c][j].bid = x
    BY <1>9
  <2>. QED
    BY <1>11, <2>1
<1>13. Clean("init_fs")' /\ Cleared({BitmapStart, InodeStart})'
  <2>1. Clean("init_fs")'
    BY <1>2, <1>10 DEF Clean
  <2>2. disk'[1] = Encoded(sb) /\ \A b \in Metadata \ {2, a} : disk'[b] = Filled(0)
    BY <1>2, <1>3, <1>5, <1>12 DEF Cleared, SUPER_BLOCK_LOC
  <2>. QED
    BY <1>1, <1>3, <1>4, <2>1, <2>2, Fixed DEF Cleared, SUPER_BLOCK_LOC
<1>14. RootBuffers'
  <2>1. \A k \in 1 .. n : \/ s[k] = new
                          \/ s[k].bid = 1 /\ ~s[k].modified
                          \/ s[k].bid = 2 /\ s[k].val = RootBit /\ s[k].modified
    <3>1. SUFFICES ASSUME NEW k \in 1 .. n - 1
                   PROVE  \/ s[k].bid = 1 /\ ~s[k].modified
                          \/ s[k].bid = 2 /\ s[k].val = RootBit /\ s[k].modified
      BY <1>9
    <3>2. PICK j \in 1 .. Len(cache[c]) : s[k] = cache[c][j]
      BY <1>9
    <3>. QED
      BY <1>11, <3>2
  <2>2. new.bid = a /\ new.val = RootInode /\ new.modified
    BY <1>4
  <2>3. /\ BitmapStart' = 2 /\ InodeStart' = a /\ RootBit' = RootBit
        /\ RootInode' = RootInode
    BY <1>1, <1>3, <1>4, Fixed
  <2>. QED
    BY <1>4, <2>1, <2>2, <2>3 DEF RootBuffers, SUPER_BLOCK_LOC, n
<1>15. Settles(BitmapStart, RootBit)'
  <2>1. PICK m : m = n - 1
    OBVIOUS
  <2>2. Saved("root", cache'["root"], m) /\ Saves("root") /\ m \in 0 .. Len(cache'["root"])
    <3>1. Saved(c, s, m) /\ Saves(c)
      BY <1>8, <2>1, Zenon DEF Written, n
    <3>2. m \in 0 .. n
      <4>1. n \in Nat \ {0}
        BY <1>9
      <4>. QED
        BY <2>1, <4>1
    <3>3. c = "root"
      BY <1>4
    <3>. QED
      BY <3>1, <3>2, <3>3, Zenon DEF n
  <2>3. \A k \in 1 .. Len(cache["root"]) :
          cache["root"][k].bid = 2 => cache["root"][k].val = RootBit /\ cache["root"][k].modified
    <3>1. \A k \in 1 .. Len(cache[c]) :
            cache[c][k].bid = 2 => cache[c][k].val = RootBit /\ cache[c][k].modified
      BY <1>11
    <3>2. c = "root"
      BY <1>4
    <3>. QED
      BY <3>1, <3>2, Zenon
  <2>4. Settles(2, RootBit)
    BY <1>2, <1>3
  <2>5. disk'[2] = RootBit \/ (disk'[2] = Filled(0) /\ Waits("root", 2)')
    BY <1>5, <2>2, <2>3, <2>4, SettlesKept
  <2>6. BitmapStart' = 2 /\ RootBit' = RootBit /\ Filled(0)' = Filled(0)
    BY <1>1, <1>3, Fixed
  <2>. QED
    BY <2>5, <2>6 DEF Settles, Waits
<1>16. Settles(InodeStart, RootInode)'
  <2>1. n \in 1 .. n
    <3>1. n \in Nat \ {0}
      BY <1>9
    <3>. QED
      BY <3>1
  <2>2. InodeStart' = a /\ Filled(0)' = Filled(0)
    BY <1>1, <1>4, Fixed
  <2>3. s[n].bid = a
    <3>1. s[n] = new
      BY <1>9
    <3>. QED
      BY <1>4, <3>1
  <2>4. disk'[a] = Filled(0)
    BY <1>5, <1>12
  <2>5. s = cache'["root"]
    BY <1>4
  <2>6. Waits("root", a)'
    BY <2>1, <2>3, <2>5 DEF Waits, n
  <2>. QED
    BY <2>2, <2>4, <2>6 DEF Settles, Waits
<1>. QED
  BY <1>7, <1>8, <1>10, <1>13, <1>14, <1>15, <1>16 DEF Invariant, Phases

\* A buffer is dropped from a cache.
LEMMA DropEffect ==
  ASSUME Types, pc # "create", NEW c \in Caches, NEW label, NEW next, Drop(c, label, next),
         cache[c] # <<>>
  PROVE  /\ Types' /\ pc' = pc /\ Len(cache'[c]) \in Nat
         /\ Kept(c, cache'[c], Len(cache'[c])) /\ Saved(c, cache'[c], Len(cache'[c])) /\ Saves(c)
         /\ \A o \in Caches \ {c} : cache'[o] = cache[o]
<1>1. PICK rest : rest = Tail(cache[c])
  OBVIOUS
<1>2. /\ UNCHANGED Args /\ sb' = sb /\ pc' = pc /\ disk' = WrittenBack(disk, cache[c][1])
      /\ cache' = [cache EXCEPT ![c] = rest]
  BY <1>1 DEF Drop
<1>3. Keeps(c, rest)
  BY <1>1, <1>2 DEF Keeps
<1>4. /\ rest \in Seq(Buffers) /\ Len(rest) <= Len(cache[c])
      /\ disk' \in [0 .. total - 1 -> Blocks]
      /\ Kept(c, rest, Len(rest)) /\ Saved(c, rest, Len(rest)) /\ Saves(c)
  BY <1>3, KeepsIs
<1>5. Len(rest) \in Nat /\ Len(rest) <= BufferSize
  <2>1. cache[c] \in Seq(Buffers) /\ Len(cache[c]) <= BufferSize
    BY DEF Types
  <2>2. Len(cache[c]) \in Nat /\ Len(rest) \in Nat
    <3>. HIDE DEF Buffers
    <3>1. \A u \in Seq(Buffers) : Len(u) \in Nat
      OBVIOUS
    <3>. QED
      BY <1>4, <2>1, <3>1, Zenon
  <2>. QED
    BY <1>4, <2>1, <2>2, FormatAssumption
<1>6. pc' \in Labels
  BY <1>2 DEF Types
<1>7. Types' /\ cache'[c] = rest /\ \A o \in Caches \ {c} : cache'[o] = cache[o]
  BY <1>2, <1>4, <1>5, <1>6, TypesKept
<1>. QED
  BY <1>2, <1>4, <1>5, <1>7

\* The cache of the root's file system goes out of scope.
LEMMA DropRootKept ==
  ASSUME Invariant, Drop("root", "drop_root", "drop_init_fs")
  PROVE  Invariant'
<1>1. pc = "drop_root" /\ UNCHANGED Args /\ sb' = sb /\ Types
  BY DEF Drop, At, Invariant
<1>2. /\ Clean("init_fs") /\ Cleared({BitmapStart, InodeStart}) /\ RootBuffers
      /\ Settles(BitmapStart, RootBit) /\ Settles(InodeStart, RootInode)
      /\ cache["fs"] = <<>>
  BY <1>1 DEF Invariant, Phases
<1>3. /\ total \in Nat /\ BitmapStart = 2 /\ InodeStart \in Nat /\ 2 < InodeStart
      /\ InodeStart < sb.data_start /\ sb.data_start \in Nat /\ sb.data_start <= total
      /\ Metadata = 2 .. sb.data_start - 1
  BY <1>1, LayoutIs
<1>4. CASE cache["root"] = <<>>
  <2>1. pc' = "drop_init_fs" /\ disk' = disk /\ cache' = cache
    BY <1>4 DEF Drop, Goto
  <2>2. Types'
    BY <1>1, <2>1 DEF Types, Args, Labels, HasRoom, Layout
  <2>3. disk[BitmapStart] = RootBit /\ disk[InodeStart] = RootInode
    <3>1. ~Waits("root", BitmapStart) /\ ~Waits("root", InodeStart)
      BY <1>4 DEF Waits
    <3>. QED
      BY <1>2, <3>1, Zenon DEF Settles
  <2>4. /\ (Clean("init_fs") /\ Cleared({BitmapStart, InodeStart}))'
        /\ (disk[BitmapStart] = RootBit /\ disk[InodeStart] = RootInode)'
    BY <1>1, <1>2, <2>1, <2>3, Fixed DEF Clean, Cleared
  <2>. QED
    BY <1>2, <1>4, <2>1, <2>2, <2>4 DEF Invariant, Phases
<1>5. CASE cache["root"] # <<>>
  <2>1. PICK c, label, next : c = "root" /\ label = "drop_root" /\ next = "drop_init_fs"
    OBVIOUS
  <2>2. c \in Caches /\ pc # "create" /\ Drop(c, label, next) /\ cache[c] # <<>>
    BY <1>1, <1>5, <2>1 DEF Caches
  <2>3. /\ Types' /\ pc' = pc /\ Len(cache'[c]) \in Nat
        /\ Kept(c, cache'[c], Len(cache'[c])) /\ Saved(c, cache'[c], Len(cache'[c])) /\ Saves(c)
        /\ \A o \in Caches \ {c} : cache'[o] = cache[o]
    BY <1>1, <2>2, DropEffect
  <2>4. cache'["init_fs"] = cache["init_fs"] /\ cache'["fs"] = <<>>
    BY <1>2, <2>1, <2>3 DEF Caches
  <2>5. PICK a : a = InodeStart
    OBVIOUS
  <2>6. \A j \in 1 .. Len(cache[c]) :
          \/ cache[c][j].bid = 1 /\ ~cache[c][j].modified
          \/ cache[c][j].bid = 2 /\ cache[c][j].val = RootBit /\ cache[c][j].modified
          \/ cache[c][j].bid = a /\ cache[c][j].val = RootInode /\ cache[c][j].modified
    BY <1>2, <1>3, <2>1, <2>5 DEF RootBuffers, SUPER_BLOCK_LOC
  <2>7. /\ a \in 0 .. total - 1 /\ 2 \in 0 .. total - 1 /\ 1 \in 0 .. total - 1 /\ a # 2 /\ a # 1
        /\ Metadata \subseteq 0 .. total - 1
    BY <1>3, <2>5
  <2>8. /\ BitmapStart' = 2 /\ InodeStart' = a /\ RootBit' = RootBit
        /\ RootInode' = RootInode /\ Filled(0)' = Filled(0)
    BY <1>1, <1>3, <2>5, Fixed
  <2>9. RootBuffers'
    <3>1. \A k \in 1 .. Len(cache'[c]) :
            \/ cache'[c][k].bid = 1 /\ ~cache'[c][k].modified
            \/ cache'[c][k].bid = 2 /\ cache'[c][k].val = RootBit /\ cache'[c][k].modified
            \/ cache'[c][k].bid = a /\ cache'[c][k].val = RootInode /\ cache'[c][k].modified
      <4>1. SUFFICES ASSUME NEW k \in 1 .. Len(cache'[c])
                     PROVE  \/ cache'[c][k].bid = 1 /\ ~cache'[c][k].modified
                            \/ cache'[c][k].bid = 2 /\ cache'[c][k].val = RootBit /\ cache'[c][k].modified
                            \/ cache'[c][k].bid = a /\ cache'[c][k].val = RootInode /\ cache'[c][k].modified
        OBVIOUS
      <4>2. PICK j \in 1 .. Len(cache[c]) : cache'[c][k] = cache[c][j]
        BY <2>3 DEF Kept
      <4>. QED
        BY <2>6, <4>2
    <3>. QED
      BY <2>1, <2>8, <3>1 DEF RootBuffers, SUPER_BLOCK_LOC
  <2>10. Clean("init_fs")' /\ Cleared({BitmapStart, InodeStart})'
    <3>1. Clean("init_fs")'
      BY <1>2, <2>4 DEF Clean
    <3>2. \A x \in 0 .. total - 1 : x # 2 /\ x # a => disk'[x] = disk[x]
      BY <2>3, <2>6 DEF Saves
    <3>3. disk'[1] = Encoded(sb) /\ \A b \in Metadata \ {2, a} : disk'[b] = Filled(0)
      BY <1>2, <1>3, <2>5, <2>7, <3>2 DEF Cleared, SUPER_BLOCK_LOC
    <3>. QED
      BY <1>1, <2>8, <3>1, <3>3, Fixed DEF Cleared, SUPER_BLOCK_LOC
  <2>11. PICK m : m = Len(cache'["root"])
    OBVIOUS
  <2>12. m \in 0 .. Len(cache'["root"]) /\ Saved("root", cache'["root"], m) /\ Saves("root")
    BY <2>1, <2>3, <2>11
  <2>13. Settles(BitmapStart, RootBit)'
    <3>1. \A k \in 1 .. Len(cache["root"]) :
            cache["root"][k].bid = 2 => cache["root"][k].val = RootBit /\ cache["root"][k].modified
      BY <2>1, <2>6, <2>7
    <3>2. Settles(2, RootBit)
      BY <1>2, <1>3
    <3>3. disk'[2] = RootBit \/ (disk'[2] = Filled(0) /\ Waits("root", 2)')
      BY <2>7, <2>12, <3>1, <3>2, SettlesKept
    <3>. QED
      BY <2>8, <3>3 DEF Settles, Waits
  <2>14. Settles(InodeStart, RootInode)'
    <3>1. \A k \in 1 .. Len(cache["root"]) :
            cache["root"][k].bid = a => cache["root"][k].val = RootInode /\ cache["root"][k].modified
      BY <2>1, <2>6, <2>7
    <3>2. Settles(a, RootInode)
      BY <1>2, <2>5
    <3>3. disk'[a] = RootInode \/ (disk'[a] = Filled(0) /\ Waits("root", a)')
      BY <2>7, <2>12, <3>1, <3>2, SettlesKept
    <3>. QED
      BY <2>8, <3>3 DEF Settles, Waits
  <2>. QED
    BY <1>1, <2>3, <2>4, <2>9, <2>10, <2>13, <2>14 DEF Invariant, Phases
<1>. QED
  BY <1>4, <1>5

\* The cache of init_fs goes out of scope: it has nothing to write.
LEMMA DropInitKept ==
  ASSUME Invariant, Drop("init_fs", "drop_init_fs", "open")
  PROVE  Invariant'
<1>1. pc = "drop_init_fs" /\ UNCHANGED Args /\ sb' = sb /\ Types
  BY DEF Drop, At, Invariant
<1>2. /\ Clean("init_fs") /\ Cleared({BitmapStart, InodeStart})
      /\ disk[BitmapStart] = RootBit /\ disk[InodeStart] = RootInode
      /\ cache["root"] = <<>> /\ cache["fs"] = <<>>
  BY <1>1 DEF Invariant, Phases
<1>3. CASE cache["init_fs"] = <<>>
  <2>1. pc' = "open" /\ disk' = disk /\ cache' = cache
    BY <1>3 DEF Drop, Goto
  <2>2. Types'
    BY <1>1, <2>1 DEF Types, Args, Labels, HasRoom, Layout
  <2>3. /\ (Clean("init_fs") /\ Cleared({BitmapStart, InodeStart}))'
        /\ (disk[BitmapStart] = RootBit /\ disk[InodeStart] = RootInode)'
    BY <1>1, <1>2, <2>1, Fixed DEF Clean, Cleared
  <2>. QED
    BY <1>2, <1>3, <2>1, <2>2, <2>3 DEF Invariant, Phases
<1>4. CASE cache["init_fs"] # <<>>
  <2>1. PICK c, label, next : c = "init_fs" /\ label = "drop_init_fs" /\ next = "open"
    OBVIOUS
  <2>2. c \in Caches /\ pc # "create" /\ Drop(c, label, next) /\ cache[c] # <<>>
    BY <1>1, <1>4, <2>1 DEF Caches
  <2>3. /\ Types' /\ pc' = pc /\ Len(cache'[c]) \in Nat
        /\ Kept(c, cache'[c], Len(cache'[c])) /\ Saved(c, cache'[c], Len(cache'[c])) /\ Saves(c)
        /\ \A o \in Caches \ {c} : cache'[o] = cache[o]
    BY <1>1, <2>2, DropEffect
  <2>4. \A j \in 1 .. Len(cache[c]) : ~cache[c][j].modified
    BY <1>2, <2>1 DEF Clean
  <2>5. \A x \in 0 .. total - 1 : disk'[x] = disk[x]
    BY <2>3, <2>4 DEF Saves
  <2>6. Clean("init_fs")'
    <3>1. \A k \in 1 .. Len(cache'[c]) : ~cache'[c][k].modified
      BY <2>3, <2>4 DEF Kept
    <3>. QED
      BY <2>1, <3>1 DEF Clean
  <2>7. /\ 1 \in 0 .. total - 1 /\ Metadata \subseteq 0 .. total - 1
        /\ BitmapStart \in Metadata /\ InodeStart \in Metadata
    BY <1>1, LayoutIs
  <2>8. /\ Cleared({BitmapStart, InodeStart})'
        /\ (disk[BitmapStart] = RootBit /\ disk[InodeStart] = RootInode)'
    BY <1>1, <1>2, <2>5, <2>7, Fixed DEF Cleared, SUPER_BLOCK_LOC
  <2>9. cache'["root"] = <<>> /\ cache'["fs"] = <<>>
    BY <1>2, <2>1, <2>3 DEF Caches
  <2>. QED
    BY <1>1, <2>3, <2>6, <2>8, <2>9 DEF Invariant, Phases
<1>. QED
  BY <1>3, <1>4

\* The invariant is inductive.
LEMMA FormatStepKept ==
  ASSUME Invariant, [DoFormat]_formatVars
  PROVE  Invariant'
<1>1. CASE UNCHANGED formatVars
  <2>1. /\ UNCHANGED Args /\ sb' = sb /\ disk' = disk /\ cache' = cache /\ pc' = pc /\ i' = i
        /\ tool' = tool /\ total' = total /\ inode_blocks' = inode_blocks /\ before' = before
    BY <1>1 DEF formatVars, Args
  <2>2. Types'
    BY <2>1 DEF Invariant, Types, HasRoom, Layout
  <2>3. /\ NotYetValid' = NotYetValid /\ SuperLast' = SuperLast /\ FlushedTo' = FlushedTo
        /\ RootBuffers' = RootBuffers
    BY <2>1, Fixed DEF NotYetValid, SuperLast, FlushedTo, RootBuffers
  <2>4. /\ ClearedTo(i)' = ClearedTo(i) /\ ClearedTo(sb.data_start)' = ClearedTo(sb.data_start)
        /\ Clean("init_fs")' = Clean("init_fs") /\ Clean("fs")' = Clean("fs")
        /\ Waits("root", InodeStart)' = Waits("root", InodeStart)
    BY <2>1, Fixed DEF ClearedTo, Clean, Waits
  <2>5. /\ Cleared({})' = Cleared({}) /\ Cleared({BitmapStart})' = Cleared({BitmapStart})
        /\ Cleared({BitmapStart, InodeStart})' = Cleared({BitmapStart, InodeStart})
        /\ Settles(BitmapStart, RootBit)' = Settles(BitmapStart, RootBit)
        /\ Settles(InodeStart, RootInode)' = Settles(InodeStart, RootInode)
    <3>1. /\ BitmapStart' = BitmapStart /\ InodeStart' = InodeStart /\ RootBit' = RootBit
          /\ RootInode' = RootInode /\ Filled(0)' = Filled(0) /\ Metadata' = Metadata
          /\ Encoded(sb)' = Encoded(sb)
      BY <2>1, Fixed
    <3>2. /\ Cleared({})' = Cleared({}) /\ Cleared({BitmapStart})' = Cleared({BitmapStart})
          /\ Cleared({BitmapStart, InodeStart})' = Cleared({BitmapStart, InodeStart})
      BY <2>1, <3>1 DEF Cleared
    <3>3. /\ Waits("root", BitmapStart)' = Waits("root", BitmapStart)
          /\ Waits("root", InodeStart)' = Waits("root", InodeStart)
      BY <2>1, <3>1 DEF Waits
    <3>4. Settles(BitmapStart, RootBit)' = Settles(BitmapStart, RootBit)
      BY <2>1, <3>1, <3>3 DEF Settles
    <3>5. Settles(InodeStart, RootInode)' = Settles(InodeStart, RootInode)
      BY <2>1, <3>1, <3>3 DEF Settles
    <3>. QED
      BY <3>2, <3>4, <3>5
  <2>6. Phases'
    <3>1. Phases
      BY DEF Invariant
    <3>2. /\ BitmapStart' = BitmapStart /\ InodeStart' = InodeStart /\ RootBit' = RootBit
          /\ RootInode' = RootInode
      BY <2>1, Fixed
    <3>3. disk'[BitmapStart'] = disk[BitmapStart] /\ disk'[InodeStart'] = disk[InodeStart]
      BY <2>1, <3>2
    <3>4. /\ (pc = "create")' => (cache["init_fs"] = <<>> /\ NotYetValid)'
          /\ (pc = "clear")' => (i \in 2 .. sb.data_start /\ ClearedTo(i) /\ NotYetValid)'
          /\ (pc = "super")' => (ClearedTo(sb.data_start) /\ NotYetValid)'
          /\ (pc = "flush")' => (SuperLast /\ FlushedTo)'
      BY <2>1, <2>3, <2>4, <3>1 DEF Phases
    <3>5. /\ (pc = "check")' => (SuperLast /\ Clean("init_fs") /\ Cleared({}))'
          /\ (pc = "open_root")' => (Clean("init_fs") /\ Cleared({}))'
          /\ (pc = "allocate_root")' =>
               (/\ Clean("init_fs") /\ Cleared({})
                /\ tool = "running" =>
                     /\ i = BitmapStart
                     /\ \A k \in 1 .. Len(cache["root"]) :
                          cache["root"][k].bid = SUPER_BLOCK_LOC /\ ~cache["root"][k].modified)'
      BY <2>1, <2>3, <2>4, <2>5, <3>1, <3>2 DEF Phases, SUPER_BLOCK_LOC
    <3>6. /\ (pc = "init_root")' =>
               (/\ Clean("init_fs") /\ Cleared({BitmapStart}) /\ Settles(BitmapStart, RootBit)
                /\ i = 0 /\ RootBuffers /\ ~Waits("root", InodeStart))'
          /\ (pc = "drop_root")' =>
               (/\ Clean("init_fs") /\ Cleared({BitmapStart, InodeStart}) /\ RootBuffers
                /\ Settles(BitmapStart, RootBit) /\ Settles(InodeStart, RootInode))'
      BY <2>1, <2>3, <2>4, <2>5, <3>1 DEF Phases
    <3>7. (pc \in {"drop_init_fs", "open", "created"})' =>
            (/\ Clean("init_fs") /\ Cleared({BitmapStart, InodeStart})
             /\ disk[BitmapStart] = RootBit /\ disk[InodeStart] = RootInode
             /\ cache["root"] = <<>>)'
      BY <2>1, <2>4, <2>5, <3>1, <3>2, <3>3 DEF Phases
    <3>8. /\ (pc \in {"open", "created"})' => (cache["init_fs"] = <<>>)'
          /\ (pc \in {"create", "clear", "super", "flush", "check", "open_root"})' =>
               (cache["root"] = <<>>)'
          /\ (IF pc = "created" THEN Clean("fs") ELSE cache["fs"] = <<>>)'
      BY <2>1, <2>4, <3>1 DEF Phases
    <3>. QED
      BY <3>4, <3>5, <3>6, <3>7, <3>8, Zenon DEF Phases
  <2>. QED
    BY <2>2, <2>6 DEF Invariant
<1>2. CASE DoFormat
  BY <1>2, CreateKept, ClearBlockKept, WriteSuperKept, FlushKept, CheckSuperKept, OpenRootKept,
     AllocateRootKept, InitRootKept, DropRootKept, DropInitKept, OpenKept DEF DoFormat
<1>. QED
  BY <1>1, <1>2

\* Once a valid super block is on a device that held no file system, so are the
\* bitmaps and inodes.
LEMMA InvariantValid ==
  ASSUME Invariant
  PROVE  ValidMeansFormatted
<1>. SUFFICES ASSUME before # "formatted", IsValid(disk[1])
              PROVE  /\ disk[1] = Encoded(sb)
                     /\ \A b \in Metadata, k \in 1 .. Words : disk[b][k] \in {0, RootWord(b, k)}
  BY DEF ValidMeansFormatted, SUPER_BLOCK_LOC
<1>1. pc \notin {"create", "clear", "super"} /\ pc \in Labels /\ Types /\ ~NotYetValid
  BY DEF Invariant, Types, Phases, NotYetValid, SUPER_BLOCK_LOC
<1>2. /\ BitmapStart = 2 /\ InodeStart # 2
  BY <1>1, LayoutIs
<1>3. \A v : \A b \in Metadata, k \in 1 .. Words :
        \/ v = Filled(0)
        \/ b = BitmapStart /\ v = RootBit
        \/ b = InodeStart /\ v = RootInode
        => v[k] \in {0, RootWord(b, k)}
  BY <1>2, FilledIs DEF RootWord, BitmapStart, InodeStart
<1>4. /\ disk[1] = Encoded(sb)
      /\ \A b \in Metadata :
           \/ disk[b] = Filled(0)
           \/ b = BitmapStart /\ disk[b] = RootBit
           \/ b = InodeStart /\ disk[b] = RootInode
  <2>1. CASE pc = "flush"
    <3>1. FlushedTo
      BY <2>1 DEF Invariant, Phases
    <3>2. PICK n : n = Len(cache["init_fs"])
      OBVIOUS
    <3>3. n \in Nat
      BY <1>1, <3>2 DEF Types, Caches
    <3>4. i = n + 1 /\ disk[1] = Encoded(sb)
          /\ \A b \in Metadata :
               disk[b] = Filled(0) \/ \E k \in i .. n - 1 : cache["init_fs"][k].bid = b
      BY <1>1, <3>1, <3>2 DEF FlushedTo, SUPER_BLOCK_LOC
    <3>5. i .. n - 1 = {}
      BY <3>3, <3>4
    <3>. QED
      BY <3>4, <3>5
  <2>2. CASE pc \in {"check", "open_root", "allocate_root"}
    BY <2>2 DEF Invariant, Phases, Cleared, SUPER_BLOCK_LOC
  <2>3. CASE pc = "init_root"
    BY <2>3 DEF Invariant, Phases, Cleared, Settles, SUPER_BLOCK_LOC
  <2>4. CASE pc = "drop_root"
    BY <2>4 DEF Invariant, Phases, Cleared, Settles, SUPER_BLOCK_LOC
  <2>5. CASE pc \in {"drop_init_fs", "open", "created"}
    BY <2>5 DEF Invariant, Phases, Cleared, SUPER_BLOCK_LOC
  <2>. QED
    BY <1>1, <2>1, <2>2, <2>3, <2>4, <2>5 DEF Labels
<1>5. ASSUME NEW b \in Metadata, NEW k \in 1 .. Words
      PROVE  disk[b][k] \in {0, RootWord(b, k)}
  <2>1. PICK v : v = disk[b]
    OBVIOUS
  <2>2. \/ v = Filled(0)
        \/ b = BitmapStart /\ v = RootBit
        \/ b = InodeStart /\ v = RootInode
    BY <1>4, <2>1
  <2>. QED
    BY <1>3, <2>1, <2>2
<1>. QED
  BY <1>4, <1>5

\* What create returns.
LEMMA InvariantFresh ==
  ASSUME Invariant
  PROVE  FreshFileSystem
<1>. SUFFICES ASSUME pc = "created"
              PROVE  /\ disk[1] = Encoded(Layout(total, inode_blocks))
                     /\ \A b \in Metadata, k \in 1 .. Words : disk[b][k] = RootWord(b, k)
                     /\ \A c \in DOMAIN cache : \A k \in 1 .. Len(cache[c]) : ~cache[c][k].modified
  BY DEF FreshFileSystem, SUPER_BLOCK_LOC
<1>1. /\ Types /\ Cleared({BitmapStart, InodeStart})
      /\ disk[BitmapStart] = RootBit /\ disk[InodeStart] = RootInode
      /\ cache["root"] = <<>> /\ Clean("init_fs") /\ Clean("fs")
  BY DEF Invariant, Phases
<1>2. disk[1] = Encoded(Layout(total, inode_blocks))
  BY <1>1 DEF Types, Cleared, SUPER_BLOCK_LOC
<1>3. BitmapStart = 2 /\ InodeStart # 2
  BY <1>1, LayoutIs
<1>4. ASSUME NEW b \in Metadata, NEW k \in 1 .. Words
      PROVE  disk[b][k] = RootWord(b, k)
  <2>1. CASE b = BitmapStart
    BY <1>1, <1>3, <2>1, FilledIs DEF RootWord, BitmapStart, InodeStart
  <2>2. CASE b = InodeStart
    BY <1>1, <1>3, <2>2, FilledIs DEF RootWord, BitmapStart, InodeStart
  <2>3. CASE b # BitmapStart /\ b # InodeStart
    <3>1. disk[b] = Filled(0)
      BY <1>1, <2>3 DEF Cleared
    <3>. QED
      BY <2>3, <3>1, FilledIs DEF RootWord, BitmapStart, InodeStart
  <2>. QED
    BY <2>1, <2>2, <2>3
<1>5. ASSUME NEW c \in DOMAIN cache, NEW k \in 1 .. Len(cache[c])
      PROVE  ~cache[c][k].modified
  <2>1. c \in {"init_fs", "root", "fs"}
    BY <1>1 DEF Types, Caches
  <2>2. c # "root"
    BY <1>1
  <2>. QED
    BY <1>1, <2>1, <2>2 DEF Clean
<1>. QED
  BY <1>2, <1>4, <1>5

\* Whatever was on the device and however small the block caches of init_fs are, the
\* layout that create computes fits the device; a super block that open accepts is on a
\* device that held no file system only once the bitmaps and inodes are, so that a
\* power cut never leaves one that open takes for whole; and the device create returns
\* holds an empty file system.
THEOREM FormatIsSafe ==
  /\ FormatSpec => []LayoutFits
  /\ FormatSpec => []ValidMeansFormatted
  /\ FormatSpec => []FreshFileSystem
<1>1. FormatInit => Invariant
  BY InitKept
<1>2. Invariant /\ [DoFormat]_formatVars => Invariant'
  BY FormatStepKept
<1>3. Invariant => LayoutFits
  <2>1. SUFFICES ASSUME Invariant, pc # "create" PROVE Fits(sb, total)
    BY DEF LayoutFits
  <2>2. /\ total \in Nat /\ inode_blocks \in Nat /\ HasRoom(total, inode_blocks)
        /\ sb = Layout(total, inode_blocks)
    BY <2>1, FormatAssumption DEF Invariant, Types
  <2>3. PICK n, m : n = total /\ m = inode_blocks
    OBVIOUS
  <2>. QED
    BY <2>2, <2>3, EveryLayoutFits
<1>4. Invariant => ValidMeansFormatted /\ FreshFileSystem
  BY InvariantValid, InvariantFresh
<1>. QED
  BY <1>1, <1>2, <1>3, <1>4, PTL DEF FormatSpec
=============================================================================
