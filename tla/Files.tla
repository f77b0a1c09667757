------------------------------- MODULE Files -------------------------------
(***************************************************************************)
(* What the file system promises of the contents of its inodes, files and  *)
(* directories alike: an inode is a sequence of units of its own; it grows *)
(* by zeros at the end, a write puts part of the data it was given where   *)
(* it was told to, and nothing else ever changes it.                       *)
(***************************************************************************)
EXTENDS Naturals, Sequences

CONSTANTS Threads, Inodes, Zero, None

VARIABLES content,  \* the units of each inode
          writing   \* the write a thread is carrying out: inode, offset, data
                    \* and how much of the data has been written; or None

filesVars == <<content, writing>>

FilesInit ==
  /\ content = [f \in Inodes |-> <<>>]
  /\ writing = [t \in Threads |-> None]

Begins(t) ==
  /\ writing[t] = None /\ writing'[t] # None /\ writing'[t].done = 0
  /\ \A u \in Threads \ {t} : writing'[u] = writing[u]

\* A write ends when all its data is written that lies within the inode.
Ends(t) ==
  LET w == writing[t] IN
  /\ w # None
  /\ w.done = Len(w.data) \/ w.off + w.done = Len(content[w.ino])
  /\ writing' = [writing EXCEPT ![t] = None]

Extend(f) ==
  /\ Len(content'[f]) > Len(content[f])
  /\ content' = [content EXCEPT ![f] =
       @ \o [k \in 1..(Len(content'[f]) - Len(@)) |-> Zero]]
  /\ UNCHANGED writing \/ \E t \in Threads : Begins(t)

\* The data is written up to unit n.
Overwrite(t, n) ==
  LET w == writing[t] IN
  /\ n > w.done /\ n <= Len(w.data) /\ w.off + n <= Len(content[w.ino])
  /\ content' = [content EXCEPT ![w.ino] =
       [k \in 1..Len(@) |-> IF k \in (w.off + w.done + 1)..(w.off + n)
                            THEN w.data[k - w.off] ELSE @[k]]]
  /\ writing' = [writing EXCEPT ![t].done = n]

FilesNext ==
  \/ \E f \in Inodes : Extend(f)
  \/ \E t \in Threads :
       \/ (Begins(t) \/ Ends(t)) /\ UNCHANGED content
       \/ writing[t] # None /\ writing'[t] # None /\ Overwrite(t, writing'[t].done)

FilesSpec == FilesInit /\ [][FilesNext]_filesVars
=============================================================================
