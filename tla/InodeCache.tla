----------------------------- MODULE InodeCache -----------------------------
(***************************************************************************)
(* The cache of in-memory inodes (fs/src/inode.rs) and the way the file    *)
(* system uses it: a thread gets an inode, locks the copy, reads its size, *)
(* and writes a new size computed from it to the disk inode and the copy   *)
(* (resize_inode with set_inode_size and update_dinode, fs/src/lib.rs).    *)
(*                                                                         *)
(* A copy is an Arc<Mutex<Inode>>: it lives while the cache or a thread    *)
(* refers to it.  Only the size of an inode is kept.  `get` runs under the *)
(* lock of the cache, hence one step; on a miss it copies the disk inode   *)
(* under the lock of its block, as update_dinode writes it.                *)
(***************************************************************************)
EXTENDS Naturals, Sequences, FiniteSets

CONSTANTS Threads,   \* the threads that use the file system
          Inodes,    \* the inode numbers in use
          Copies,    \* identities of in-memory copies, numbers; a new copy takes the
                     \* least one that is free
          Capacity,  \* INODE_BUFFER_SIZE
          Growing,   \* bound: the inodes that are resized
          MaxSize,   \* bound: how often an inode grows
          None

ASSUME InodeCacheAssumption ==
  /\ Copies \subseteq Nat /\ Capacity \in Nat \ {0} /\ MaxSize \in Nat
  /\ Growing \subseteq Inodes
  /\ None \notin Threads \cup Inodes \cup Nat

VARIABLES cache,   \* the cache list, most recently used first
          heap,    \* each copy: the inode it is of, and its size
          dinode,  \* the size in each disk inode
          holds,   \* the copy a thread refers to, or None
          lock,    \* the thread that has locked a copy, or None
          old,     \* the size a thread has read from its copy, or None
          grown,   \* history: how often each inode was made larger
          evicted  \* history: an inode was evicted while a thread used it

vars == <<cache, heap, dinode, holds, lock, old, grown, evicted>>

NoInode == [inum |-> None, size |-> 0]

Init ==
  /\ cache = <<>>
  /\ heap = [c \in Copies |-> NoInode]
  /\ dinode = [i \in Inodes |-> 0]
  /\ holds = [t \in Threads |-> None]
  /\ lock = [c \in Copies |-> None]
  /\ old = [t \in Threads |-> None]
  /\ grown = [i \in Inodes |-> 0]
  /\ evicted = FALSE

InUse(c) == \E t \in Threads : holds[t] = c
Cached(c) == \E k \in 1..Len(cache) : cache[k] = c
Free == {c \in Copies : ~InUse(c) /\ ~Cached(c)}

\* (Mutant) only the first entry is looked at.
FirstPosition(s, i) == {k \in 1..Len(s) : k = 1 /\ heap[s[k]].inum = i}

Positions(s, i) == {k \in 1..Len(s) : heap[s[k]].inum = i}

\* The copies after reference counting, when the cache is s and threads hold hs.
Counted(h, s, hs) ==
  [c \in Copies |->
     IF (\E k \in 1..Len(s) : s[k] = c) \/ (\E t \in Threads : hs[t] = c)
     THEN h[c] ELSE NoInode]

RemoveAt(s, k) == SubSeq(s, 1, k - 1) \o SubSeq(s, k + 1, Len(s))

\* A full cache loses its last entry, before the lookup and whoever uses it.
Room(s) == IF Len(s) = Capacity THEN SubSeq(s, 1, Capacity - 1) ELSE s

\* cache.remove(pos), before the entry is inserted at the front.
TakenOut(s, k) == RemoveAt(s, k)

\* get(inum): a hit moves the entry to the front, a miss copies the disk inode.
Get(t, i) ==
  /\ holds[t] = None
  /\ LET s == Room(cache) IN
     \/ \E k \in Positions(s, i) :
          /\ \A j \in Positions(s, i) : k <= j
          /\ cache' = <<s[k]>> \o TakenOut(s, k)
          /\ holds' = [holds EXCEPT ![t] = s[k]]
          /\ heap' = Counted(heap, cache', holds')
     \/ /\ Positions(s, i) = {}
        /\ \E c \in Free :
             /\ \A d \in Free : c <= d
             /\ cache' = <<c>> \o s
             /\ holds' = [holds EXCEPT ![t] = c]
             /\ heap' = Counted([heap EXCEPT ![c] = [inum |-> i, size |-> dinode[i]]],
                                cache', holds')
  /\ evicted' = (evicted \/ (Len(cache) = Capacity /\ InUse(cache[Capacity])))
  /\ UNCHANGED <<dinode, lock, old, grown>>

\* resize_inode: the caller has locked the inode; its old size is read.
LockInode(t) ==
  /\ holds[t] # None /\ lock[holds[t]] = None /\ old[t] = None
  /\ heap[holds[t]].inum \in Growing /\ grown[heap[holds[t]].inum] < MaxSize
  /\ lock' = [lock EXCEPT ![holds[t]] = t]
  /\ old' = [old EXCEPT ![t] = heap[holds[t]].size]
  /\ UNCHANGED <<cache, heap, dinode, holds, grown, evicted>>

\* (Mutant) the in-memory copy is not brought up to date.
UpdatedNot(h, c, size) == h

\* Inode::update
Updated(h, c, size) == [h EXCEPT ![c].size = size]

\* set_inode_size: update_dinode writes the disk inode and then the copy.
Grow(t) ==
  /\ old[t] # None
  /\ LET c == holds[t]  i == heap[c].inum IN
     /\ dinode' = [dinode EXCEPT ![i] = old[t] + 1]
     /\ heap' = Updated(heap, c, old[t] + 1)
     /\ grown' = [grown EXCEPT ![i] = @ + 1]
     /\ lock' = [lock EXCEPT ![c] = None]
  /\ old' = [old EXCEPT ![t] = None]
  /\ UNCHANGED <<cache, holds, evicted>>

\* The thread drops its Arc.
DropInode(t) ==
  /\ holds[t] # None /\ old[t] = None
  /\ holds' = [holds EXCEPT ![t] = None]
  /\ heap' = Counted(heap, cache, holds')
  /\ UNCHANGED <<cache, dinode, lock, old, grown, evicted>>

Next ==
  \E t \in Threads :
    \/ \E i \in Inodes : Get(t, i)
    \/ LockInode(t) \/ Grow(t) \/ DropInode(t)

Spec == Init /\ [][Next]_vars

-----------------------------------------------------------------------------
\* Until the cache evicts an inode somebody uses, all references to an inode, of
\* threads and of the cache, are to one copy, so that its lock synchronizes
\* everybody who uses the inode.
OneCopyUntilEvicted ==
  ~evicted =>
    \A c, d \in Copies :
      (c \notin Free /\ d \notin Free /\ heap[c].inum = heap[d].inum) => c = d

\* Until then no growth is lost: a disk inode has grown as often as a thread has
\* grown it, which needs the copy the new size is computed from to be current.
NoLostGrowthUntilEvicted == ~evicted => \A i \in Inodes : dinode[i] = grown[i]

\* The cache is a place for synchronizing access to inodes used by several
\* processes, as the comment on InodeCacheBuffer says: no growth is ever lost.
NoLostGrowth == \A i \in Inodes : dinode[i] = grown[i]
=============================================================================
