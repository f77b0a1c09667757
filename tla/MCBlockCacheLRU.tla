--------------------------- MODULE MCBlockCacheLRU ---------------------------
(***************************************************************************)
(* BlockCache with a history variable that records the order in which the  *)
(* cached objects were last handed out by get.                             *)
(***************************************************************************)
EXTENDS BlockCache, SequencesExt

VARIABLE used   \* the cached objects, least recently used first

HandedOut == {o \in Objs : \E f \in Frames :
                /\ pc[f] \in {"get", "load"}
                /\ pc'[f] = "got"
                /\ handle'[f] = o}

UsedInit == Init /\ used = <<>>

UsedNext ==
  /\ Next
  /\ LET kept == SelectSeq(used, LAMBDA o : heap'[o] # None /\ o \notin HandedOut)
     IN  used' = kept \o SetToSeq(HandedOut)

UsedSpec == UsedInit /\ [][UsedNext]_<<vars, used>>

\* "Linked list of all buffers. Sorted by how recently the buffer used."
SortedByUse == buffer = used
=============================================================================
