----------------------------- MODULE BlockStore -----------------------------
(***************************************************************************)
(* What the block cache promises its callers: a store of blocks in which a *)
(* write takes effect at once for every client and a read returns the last *)
(* value written.  The promise has one exception, made explicit here: a    *)
(* block the device refuses (its Result is ignored by BlockCache::new and  *)
(* BlockCache::sync) may at any time fall back to zeros.                   *)
(***************************************************************************)
CONSTANTS Clients,   \* who accesses blocks, one at a time each
          Blocks,    \* block ids
          Values,    \* contents a block can have
          Zero,      \* the content of a cleared block
          Refused,   \* blocks for which the device returns an error
          None

VARIABLES store,     \* the content every client sees
          request,   \* the block each client is accessing, or None
          ret        \* what the access in progress has read, or None

storeVars == <<store, request, ret>>

StoreInit ==
  /\ store \in [Blocks -> Values]
  /\ \A b \in Refused : store[b] = Zero
  /\ request = [t \in Clients |-> None]
  /\ ret = [t \in Clients |-> None]

Begin(t, b) ==
  /\ request[t] = None
  /\ request' = [request EXCEPT ![t] = b]
  /\ UNCHANGED <<store, ret>>

ReadBlock(t) ==
  /\ request[t] # None
  /\ ret' = [ret EXCEPT ![t] = store[request[t]]]
  /\ UNCHANGED <<store, request>>

WriteBlock(t, v) ==
  /\ request[t] # None
  /\ store' = [store EXCEPT ![request[t]] = v]
  /\ UNCHANGED <<request, ret>>

End(t) ==
  /\ request[t] # None
  /\ request' = [request EXCEPT ![t] = None]
  /\ ret' = [ret EXCEPT ![t] = None]
  /\ UNCHANGED store

LoseBlock(b) ==
  /\ b \in Refused
  /\ store' = [store EXCEPT ![b] = Zero]
  /\ UNCHANGED <<request, ret>>

StoreNext ==
  \/ \E t \in Clients :
       \/ \E b \in Blocks : Begin(t, b)
       \/ ReadBlock(t)
       \/ \E v \in Values : WriteBlock(t, v)
       \/ End(t)
  \/ \E b \in Blocks : LoseBlock(b)

StoreSpec == StoreInit /\ [][StoreNext]_storeVars
=============================================================================
