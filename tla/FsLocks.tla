------------------------------ MODULE FsLocks ------------------------------
(***************************************************************************)
(* The locks of the file system: the mutex of the inode cache, that of the *)
(* block cache, one per cached block and one per in-memory inode (spin     *)
(* locks).  An operation is the sequence of lock and unlock instructions   *)
(* that the code goes through; a guard that is a temporary of an           *)
(* expression is held to the end of the statement.                         *)
(*                                                                         *)
(* Blocks: the two bitmaps, the block the inodes are in, the index block   *)
(* (block 0) and one data block per inode.  FileSystem says what the       *)
(* operations do with what they lock.                                      *)
(***************************************************************************)
EXTENDS Naturals, Sequences

CONSTANTS Threads, None,
          Dir,       \* a directory
          Files,     \* the inodes in it
          NewFiles,  \* the inodes created in it
          NDirect,   \* N_DIRECT
          Indices,   \* the indices of the blocks that operations touch
          Kinds,     \* the operations that are called
          MaxOps     \* bound: how many operations a thread calls

ASSUME FsLocksAssumption ==
  /\ NDirect \in Nat /\ Indices \subseteq Nat /\ MaxOps \in Nat
  /\ Kinds \subseteq {"create", "resize", "read", "write", "path"}
  /\ None \notin Threads /\ Dir \notin Files \cup NewFiles
  /\ Files \cap NewFiles = {}

Inodes == {Dir} \cup Files \cup NewFiles
Locks == {<<"inode_cache">>, <<"block_cache">>} \cup
         {<<"block", b>> : b \in {"imap", "dmap", "inodes", "index"}} \cup
         {<<"data", f>> : f \in Inodes} \cup {<<"inode", f>> : f \in Inodes}

BlockCacheLock == <<"block_cache">>
InodeCacheLock == <<"inode_cache">>
InodeBlock == <<"block", "inodes">>
IndexBlock == <<"block", "index">>

Lock(l) == <<[do |-> "lock", what |-> l]>>
Unlock(l) == <<[do |-> "unlock", what |-> l]>>
With(l, body) == Lock(l) \o body \o Unlock(l)

-----------------------------------------------------------------------------
\* block_cache.lock().get(b, dev).lock().read(...) or .write(...)
Access(b) == With(BlockCacheLock, With(b, <<>>))

\* (Mutant) every index is looked up in the index block.
GetBidIndexed(idx) == Access(IndexBlock)

\* get_bid and set_bid: the index block is only needed beyond N_DIRECT.
GetBid(idx) == IF idx < NDirect THEN <<>> ELSE Access(IndexBlock)

\* update_dinode: the block cache is unlocked before the block is locked, and
\* the block stays locked while the callback runs.
UpdateDinode(callback) ==
  With(BlockCacheLock, <<>>) \o With(InodeBlock, callback)

\* InodeCacheBuffer::get, when the inode is cached and when it is not.
GetInode(cached) ==
  With(InodeCacheLock, IF cached THEN <<>> ELSE Access(InodeBlock))

\* clear_block
ClearBlock(b) == With(BlockCacheLock, <<>>) \o With(b, <<>>)

\* One turn of the loop of read_data: get_bid is an argument of `get`, evaluated
\* when the block cache is locked already.
ReadData(f, idx) ==
  With(BlockCacheLock, GetBid(idx) \o With(<<"data", f>>, <<>>))

\* One turn of the loop of write_data: get_bid comes first.
WriteData(f, idx) == GetBid(idx) \o Access(<<"data", f>>)

\* allocate_inode: the guard of the inode cache is a temporary of the `match` and
\* is held while the new inode is locked and initialized.
AllocateInode(f) ==
  Access(<<"block", "imap">>) \o
  With(InodeCacheLock,
       Access(InodeBlock) \o With(<<"inode", f>>, UpdateDinode(<<>>)))

\* resize_inode by one block.
ResizeInode(f, idx) ==
  Access(<<"block", "dmap">>) \o ClearBlock(<<"data", f>>) \o
  UpdateDinode(GetBid(idx)) \o UpdateDinode(<<>>)

\* look_up of an entry that is there, and of one that is not.
LookUp(idx, cached) == ReadData(Dir, idx) \o GetInode(cached)

\* create_inode; the caller holds the lock of the directory.
CreateInode(f, idx) ==
  With(<<"inode", Dir>>,
       ReadData(Dir, idx) \o AllocateInode(f) \o ResizeInode(Dir, idx) \o
       With(<<"inode", f>>, WriteData(Dir, idx) \o UpdateDinode(<<>>)))

\* get_inode_from_path: the directory stays locked in the recursive call.
Path(f, idx, cached) ==
  With(<<"inode", Dir>>, LookUp(idx, cached) \o With(<<"inode", f>>, <<>>))

Operations ==
  {o \in
     [kind : {"create"}, f : NewFiles, idx : Indices, cached : {TRUE}] \cup
     [kind : {"resize", "read", "write"}, f : Files, idx : Indices, cached : {TRUE}] \cup
     [kind : {"path"}, f : Files, idx : Indices, cached : BOOLEAN] : o.kind \in Kinds}

Program(o) ==
  CASE o.kind = "create" -> CreateInode(o.f, o.idx)
    [] o.kind = "resize" -> With(<<"inode", o.f>>, ResizeInode(o.f, o.idx))
    [] o.kind = "read" -> With(<<"inode", o.f>>, ReadData(o.f, o.idx))
    [] o.kind = "write" -> With(<<"inode", o.f>>, WriteData(o.f, o.idx))
    [] o.kind = "path" -> Path(o.f, o.idx, o.cached)

-----------------------------------------------------------------------------
VARIABLES todo,     \* the instructions a thread still has to execute
          left,     \* how many operations a thread may still call
          holder,   \* the thread that holds a lock, or None
          created   \* the inodes that have been created: a number is used once

vars == <<todo, left, holder, created>>

Init ==
  /\ todo = [t \in Threads |-> <<>>]
  /\ left = [t \in Threads |-> MaxOps]
  /\ holder = [l \in Locks |-> None]
  /\ created = {}

Call(t, o) ==
  /\ todo[t] = <<>> /\ left[t] > 0 /\ o.f \notin created
  /\ todo' = [todo EXCEPT ![t] = Program(o)]
  /\ left' = [left EXCEPT ![t] = @ - 1]
  /\ created' = IF o.kind = "create" THEN created \cup {o.f} ELSE created
  /\ UNCHANGED holder

Step(t) ==
  /\ todo[t] # <<>>
  /\ LET l == Head(todo[t]).what IN
     \/ /\ Head(todo[t]).do = "lock" /\ holder[l] = None
        /\ holder' = [holder EXCEPT ![l] = t]
     \/ /\ Head(todo[t]).do = "unlock"
        /\ holder' = [holder EXCEPT ![l] = None]
  /\ todo' = [todo EXCEPT ![t] = Tail(@)]
  /\ UNCHANGED <<left, created>>

Next == \E t \in Threads : Step(t) \/ \E o \in Operations : Call(t, o)

\* A thread that can take its next step is scheduled.
Spec == Init /\ [][Next]_vars /\ \A t \in Threads : WF_vars(Step(t))

-----------------------------------------------------------------------------
\* Every operation that was called returns: no thread waits for itself, and no
\* threads wait in a circle each for a lock the next one holds.
Returns == \A t \in Threads : (todo[t] # <<>>) ~> (todo[t] = <<>>)
=============================================================================
