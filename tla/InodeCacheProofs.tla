-------------------------- MODULE InodeCacheProofs --------------------------
(***************************************************************************)
(* Proofs about InodeCache, for any number of threads, inodes and places   *)
(* in the cache.                                                           *)
(***************************************************************************)
EXTENDS InodeCache, SequenceTheorems, TLAPS

Has(s, c) == \E k \in 1 .. Len(s) : s[k] = c

Types ==
  /\ cache \in Seq(Copies)
  /\ heap \in [Copies -> [inum : Inodes \cup {None}, size : Nat]]
  /\ dinode \in [Inodes -> Nat]
  /\ holds \in [Threads -> Copies \cup {None}]
  /\ lock \in [Copies -> Threads \cup {None}]
  /\ old \in [Threads -> Nat \cup {None}]
  /\ grown \in [Inodes -> Nat]

Live(c) == InUse(c) \/ Has(cache, c)

\* What holds until an inode in use is evicted.  A copy in use is in the cache, where
\* `get` finds it; copies that are referred to are of different inodes and up to date;
\* a thread that has read a size has locked the copy it is of, and it is still the size.
InUseCached == \A c \in Copies : InUse(c) => Has(cache, c)
OneCopy == \A c, d \in Copies : Live(c) /\ Live(d) /\ heap[c].inum = heap[d].inum => c = d
UpToDate ==
  \A c \in Copies : Live(c) => /\ heap[c].inum \in Inodes
                               /\ heap[c].size = dinode[heap[c].inum]
OldIsLocked ==
  \A t \in Threads :
    old[t] # None => /\ holds[t] \in Copies /\ lock[holds[t]] = t
                     /\ old[t] = heap[holds[t]].size
AllCounted == \A i \in Inodes : dinode[i] = grown[i]

Synchronized == InUseCached /\ OneCopy /\ UpToDate /\ OldIsLocked /\ AllCounted
Invariant == Types /\ (~evicted => Synchronized)

-----------------------------------------------------------------------------
(* The list *)

\* Making room takes away the last entry of a full cache, and nothing else.
LEMMA RoomKeeps ==
  ASSUME NEW s \in Seq(Copies)
  PROVE  /\ Room(s) \in Seq(Copies)
         /\ \A c : Has(Room(s), c) => Has(s, c)
         /\ \A c : Has(s, c) /\ ~(Len(s) = Capacity /\ s[Capacity] = c) => Has(Room(s), c)
<1>. DEFINE S == Copies
            n == Len(s)
            r == SubSeq(s, 1, Capacity - 1)
<1>1. n \in Nat /\ \A k \in 1 .. n : s[k] \in S
  BY ElementOfSeq, LenProperties
<1>2. CASE n = Capacity
  <2>1. Capacity \in Nat \ {0} /\ \A k \in 1 .. Capacity - 1 : s[k] \in S
    BY <1>1, <1>2, InodeCacheAssumption
  <2>2. /\ r \in Seq(S) /\ Len(r) = Capacity - 1
        /\ \A k \in 1 .. Capacity - 1 : r[k] = s[k]
    <3>. HIDE DEF S, n
    <3>1. /\ r \in Seq(S) /\ Len(r) = IF 1 <= Capacity - 1 THEN Capacity - 1 - 1 + 1 ELSE 0
          /\ \A k \in 1 .. Capacity - 1 - 1 + 1 : r[k] = s[1 + k - 1]
      BY <2>1, SubSeqProperties
    <3>. QED
      BY <2>1, <3>1
  <2>3. Room(s) = r
    BY <1>2 DEF Room
  <2>. HIDE DEF S, r
  <2>. QED
    <3>1. \A k \in 1 .. n : k = Capacity \/ k \in 1 .. Capacity - 1
      BY <2>1, <1>2
    <3>2. \A k \in 1 .. Capacity - 1 : k \in 1 .. n
      BY <2>1, <1>2
    <3>. HIDE DEF n
    <3>. QED
      BY <1>2, <2>2, <2>3, <3>1, <3>2 DEF Has, S, n
<1>3. CASE n # Capacity
  BY <1>3 DEF Room
<1>. QED
  BY <1>2, <1>3

\* A hit only changes the order of the list.
LEMMA MovedToFront ==
  ASSUME NEW s \in Seq(Copies), NEW k \in 1 .. Len(s)
  PROVE  /\ <<s[k]>> \o TakenOut(s, k) \in Seq(Copies)
         /\ \A c : Has(<<s[k]>> \o TakenOut(s, k), c) <=> Has(s, c)
<1>. DEFINE S == Copies
            n == Len(s)
            a == SubSeq(s, 1, k - 1)
            b == SubSeq(s, k + 1, n)
            r == a \o b
            f == <<s[k]>> \o r
<1>1. n \in Nat /\ k \in 1 .. n /\ \A j \in 1 .. n : s[j] \in S
  BY ElementOfSeq, LenProperties
<1>. HIDE DEF S, n
<1>2. /\ a \in Seq(S) /\ Len(a) = k - 1
      /\ \A j \in 1 .. k - 1 : a[j] = s[j]
  <2>1. \A j \in 1 .. k - 1 : s[j] \in S
    BY <1>1
  <2>2. /\ a \in Seq(S) /\ Len(a) = IF 1 <= k - 1 THEN k - 1 - 1 + 1 ELSE 0
        /\ \A j \in 1 .. k - 1 - 1 + 1 : a[j] = s[1 + j - 1]
    BY <1>1, <2>1, SubSeqProperties
  <2>. QED
    BY <1>1, <2>2
<1>3. /\ b \in Seq(S) /\ Len(b) = n - k
      /\ \A j \in 1 .. n - k : b[j] = s[k + j]
  <2>1. \A j \in k + 1 .. n : s[j] \in S
    BY <1>1
  <2>2. /\ b \in Seq(S) /\ Len(b) = IF k + 1 <= n THEN n - (k + 1) + 1 ELSE 0
        /\ \A j \in 1 .. n - (k + 1) + 1 : b[j] = s[k + 1 + j - 1]
    BY <1>1, <2>1, SubSeqProperties
  <2>. QED
    BY <1>1, <2>2
<1>. HIDE DEF a, b
<1>4. /\ r \in Seq(S) /\ Len(r) = n - 1
      /\ \A j \in 1 .. n - 1 : r[j] = IF j <= k - 1 THEN s[j] ELSE s[j + 1]
  <2>1. /\ r \in Seq(S) /\ Len(r) = Len(a) + Len(b)
        /\ \A j \in 1 .. Len(a) + Len(b) : r[j] = IF j <= Len(a) THEN a[j] ELSE b[j - Len(a)]
    BY <1>2, <1>3, ConcatProperties
  <2>. HIDE DEF r
  <2>. QED
    BY <1>1, <1>2, <1>3, <2>1
<1>. HIDE DEF r
<1>5. /\ f \in Seq(S) /\ Len(f) = n
      /\ \A j \in 1 .. n : f[j] = IF j = 1 THEN s[k] ELSE r[j - 1]
  <2>1. <<s[k]>> \in Seq(S) /\ Len(<<s[k]>>) = 1 /\ <<s[k]>>[1] = s[k]
    BY <1>1
  <2>. DEFINE g == <<s[k]>>
  <2>. HIDE DEF g
  <2>2. /\ g \o r \in Seq(S) /\ Len(g \o r) = Len(g) + Len(r)
        /\ \A j \in 1 .. Len(g) + Len(r) : (g \o r)[j] = IF j <= Len(g) THEN g[j] ELSE r[j - Len(g)]
    BY <1>4, <2>1, ConcatProperties DEF g
  <2>3. f = g \o r /\ g \in Seq(S) /\ Len(g) = 1 /\ g[1] = s[k]
    BY <2>1 DEF g
  <2>. HIDE DEF f
  <2>. QED
    BY <1>1, <1>4, <2>2, <2>3
<1>6. f = <<s[k]>> \o TakenOut(s, k)
  BY DEF f, r, a, b, n, TakenOut, RemoveAt
<1>. HIDE DEF f
<1>7. ASSUME NEW c, Has(f, c) PROVE Has(s, c)
  <2>1. PICK j \in 1 .. n : f[j] = c
    BY <1>5, <1>7 DEF Has
  <2>2. CASE j = 1
    BY <1>1, <1>5, <2>1, <2>2 DEF Has, n
  <2>3. CASE j # 1
    <3>1. j - 1 \in 1 .. n - 1 /\ c = r[j - 1]
      BY <1>1, <1>5, <2>1, <2>3
    <3>2. (j - 1 \in 1 .. n /\ c = s[j - 1]) \/ (j \in 1 .. n /\ c = s[j])
      BY <1>1, <1>4, <3>1
    <3>. QED
      BY <3>2 DEF Has, n
  <2>. QED
    BY <2>2, <2>3
<1>8. ASSUME NEW c, Has(s, c) PROVE Has(f, c)
  <2>1. PICK j \in 1 .. n : s[j] = c
    BY <1>8 DEF Has, n
  <2>2. \E i \in 1 .. n : f[i] = c
    <3>1. CASE j = k
      BY <1>1, <1>5, <2>1, <3>1
    <3>2. CASE j < k
      <4>1. r[j] = c /\ j \in 1 .. n - 1
        BY <1>1, <1>4, <2>1, <3>2
      <4>2. f[j + 1] = r[j] /\ j + 1 \in 1 .. n
        BY <1>1, <1>5, <4>1
      <4>. QED
        BY <4>1, <4>2
    <3>3. CASE j > k
      <4>1. r[j - 1] = c /\ j - 1 \in 1 .. n - 1
        BY <1>1, <1>4, <2>1, <3>3
      <4>2. f[j] = r[j - 1]
        BY <1>1, <1>5, <4>1
      <4>. QED
        BY <2>1, <4>1, <4>2
    <3>. QED
      BY <1>1, <2>1, <3>1, <3>2, <3>3
  <2>. QED
    BY <1>5, <2>2 DEF Has
<1>. QED
  BY <1>5, <1>6, <1>7, <1>8 DEF S

\* A miss adds one entry.
LEMMA PutInFront ==
  ASSUME NEW s \in Seq(Copies), NEW c \in Copies
  PROVE  /\ <<c>> \o s \in Seq(Copies)
         /\ \A d : Has(<<c>> \o s, d) <=> d = c \/ Has(s, d)
<1>. DEFINE S == Copies
            n == Len(s)
            g == <<c>>
            f == g \o s
<1>1. n \in Nat /\ g \in Seq(S) /\ Len(g) = 1 /\ g[1] = c
  BY LenProperties
<1>. HIDE DEF S, n, g
<1>2. /\ f \in Seq(S) /\ Len(f) = Len(g) + Len(s)
      /\ \A j \in 1 .. Len(g) + Len(s) : f[j] = IF j <= Len(g) THEN g[j] ELSE s[j - Len(g)]
  BY <1>1, ConcatProperties DEF S
<1>. HIDE DEF f
<1>3. Len(f) = n + 1 /\ \A j \in 1 .. n + 1 : f[j] = IF j = 1 THEN c ELSE s[j - 1]
  BY <1>1, <1>2 DEF n
<1>4. ASSUME NEW d, Has(f, d) PROVE d = c \/ Has(s, d)
  <2>1. PICK j \in 1 .. n + 1 : f[j] = d
    BY <1>3, <1>4 DEF Has
  <2>2. d = c \/ (j - 1 \in 1 .. n /\ s[j - 1] = d)
    BY <1>1, <1>3, <2>1
  <2>. QED
    BY <2>2 DEF Has, n
<1>5. ASSUME NEW d, d = c \/ Has(s, d) PROVE Has(f, d)
  <2>1. CASE d = c
    <3>1. 1 \in 1 .. n + 1 /\ f[1] = d
      BY <1>1, <1>3, <2>1
    <3>. QED
      BY <1>3, <3>1 DEF Has
  <2>2. CASE Has(s, d)
    <3>1. PICK j \in 1 .. n : s[j] = d
      BY <2>2 DEF Has, n
    <3>2. j + 1 \in 1 .. n + 1 /\ f[j + 1] = d
      BY <1>1, <1>3, <3>1
    <3>. QED
      BY <1>3, <3>2 DEF Has
  <2>. QED
    BY <1>5, <2>1, <2>2
<1>. QED
  BY <1>2, <1>4, <1>5 DEF f, g, S

-----------------------------------------------------------------------------
(* The steps *)

\* A copy that is still referred to keeps what it holds.
LEMMA CountedKeeps ==
  ASSUME NEW h \in [Copies -> [inum : Inodes \cup {None}, size : Nat]],
         heap' = Counted(h, cache', holds')
  PROVE  /\ heap' \in [Copies -> [inum : Inodes \cup {None}, size : Nat]]
         /\ \A c \in Copies : Live(c)' => heap'[c] = h[c]
<1>1. NoInode \in [inum : Inodes \cup {None}, size : Nat]
  BY DEF NoInode
<1>. QED
  BY <1>1 DEF Counted, Live, InUse, Has

LEMMA InitInvariant == Init => Invariant
<1>. SUFFICES ASSUME Init PROVE Invariant
  OBVIOUS
<1>1. Types
  <2>1. <<>> \in Seq(Copies)
    OBVIOUS
  <2>. QED
    BY <2>1 DEF Init, Types, NoInode
<1>2. \A c \in Copies : ~Live(c)
  <2>1. cache = <<>> /\ \A t \in Threads : holds[t] = None
    BY DEF Init
  <2>. QED
    BY <2>1, InodeCacheAssumption DEF Live, InUse, Has
<1>3. OldIsLocked /\ AllCounted
  BY DEF Init, OldIsLocked, AllCounted
<1>. QED
  BY <1>1, <1>2, <1>3 DEF Invariant, Synchronized, InUseCached, OneCopy, UpToDate, Live

\* A step that makes no copy and changes no size leaves everything synchronized.
LEMMA NothingNew ==
  ASSUME Types, Synchronized, UNCHANGED <<dinode, lock, old, grown>>,
         \A c \in Copies : Live(c)' => Live(c) /\ heap'[c] = heap[c],
         \A t \in Threads : old[t] # None => holds'[t] = holds[t],
         InUseCached'
  PROVE  Synchronized'
<1>1. OneCopy'
  BY DEF Synchronized, OneCopy
<1>2. UpToDate'
  BY DEF Synchronized, UpToDate
<1>3. OldIsLocked'
  <2>. SUFFICES ASSUME NEW t \in Threads, old[t] # None
                PROVE  /\ holds'[t] \in Copies /\ lock[holds'[t]] = t
                       /\ old[t] = heap'[holds'[t]].size
    BY DEF OldIsLocked
  <2>1. holds'[t] = holds[t] /\ holds[t] \in Copies /\ lock[holds[t]] = t
        /\ old[t] = heap[holds[t]].size
    BY DEF Synchronized, OldIsLocked
  <2>2. Live(holds[t])'
    BY <2>1 DEF Live, InUse
  <2>. QED
    BY <2>1, <2>2
<1>4. AllCounted'
  BY DEF Synchronized, AllCounted
<1>. QED
  BY <1>1, <1>2, <1>3, <1>4 DEF Synchronized

\* get, when the inode is in the cache and no inode in use is evicted.
LEMMA HitKeeps ==
  ASSUME Types, NEW t \in Threads, holds[t] = None,
         NEW k \in 1 .. Len(Room(cache)),
         cache' = <<Room(cache)[k]>> \o TakenOut(Room(cache), k),
         holds' = [holds EXCEPT ![t] = Room(cache)[k]],
         heap' = Counted(heap, cache', holds'),
         UNCHANGED <<dinode, lock, old, grown>>
  PROVE  /\ Types'
         /\ Synchronized /\ ~(Len(cache) = Capacity /\ InUse(cache[Capacity])) => Synchronized'
<1>. DEFINE s == Room(cache)
            c == s[k]
<1>0. cache \in Seq(Copies)
  BY DEF Types
<1>1. /\ s \in Seq(Copies) /\ \A d : Has(s, d) => Has(cache, d)
      /\ \A d : Has(cache, d) /\ ~(Len(cache) = Capacity /\ cache[Capacity] = d) => Has(s, d)
  BY <1>0, RoomKeeps
<1>2. c \in Copies
  BY <1>1, ElementOfSeq
<1>3. cache' \in Seq(Copies) /\ \A d : Has(cache', d) <=> Has(s, d)
  BY <1>1, MovedToFront
<1>4. Has(s, c)
  BY DEF Has
<1>. HIDE DEF s, c
<1>5. holds' = [holds EXCEPT ![t] = c]
  BY DEF s, c
<1>6. /\ heap' \in [Copies -> [inum : Inodes \cup {None}, size : Nat]]
      /\ \A d \in Copies : Live(d)' => heap'[d] = heap[d]
  BY CountedKeeps DEF Types
<1>7. Types'
  <2>1. holds' \in [Threads -> Copies \cup {None}]
    BY <1>2, <1>5 DEF Types
  <2>. QED
    BY <1>3, <1>6, <2>1 DEF Types
<1>8. ASSUME Synchronized, ~(Len(cache) = Capacity /\ InUse(cache[Capacity]))
      PROVE  Synchronized'
  <2>1. \A d \in Copies : InUse(d)' => InUse(d) \/ d = c
    BY <1>5 DEF InUse, Types
  <2>2. \A d \in Copies : InUse(d) => Has(s, d)
    BY <1>1, <1>8 DEF Synchronized, InUseCached
  <2>3. InUseCached'
    BY <1>3, <1>4, <2>1, <2>2 DEF InUseCached
  <2>4. \A d \in Copies : Live(d)' => Live(d)
    BY <1>1, <1>3, <1>4, <2>1 DEF Live
  <2>5. \A u \in Threads : old[u] # None => holds'[u] = holds[u]
    <3>1. \A u \in Threads : old[u] # None => u # t
      BY <1>8, InodeCacheAssumption DEF Synchronized, OldIsLocked
    <3>. QED
      BY <1>5, <3>1 DEF Types
  <2>. QED
    BY <1>6, <1>8, <2>3, <2>4, <2>5, NothingNew
<1>. QED
  BY <1>7, <1>8

\* get, when it is not.
LEMMA MissKeeps ==
  ASSUME Types, NEW t \in Threads, holds[t] = None, NEW i \in Inodes,
         Positions(Room(cache), i) = {}, NEW c \in Free,
         cache' = <<c>> \o Room(cache),
         holds' = [holds EXCEPT ![t] = c],
         heap' = Counted([heap EXCEPT ![c] = [inum |-> i, size |-> dinode[i]]], cache', holds'),
         UNCHANGED <<dinode, lock, old, grown>>
  PROVE  /\ Types'
         /\ Synchronized /\ ~(Len(cache) = Capacity /\ InUse(cache[Capacity])) => Synchronized'
<1>. DEFINE s == Room(cache)
            h == [heap EXCEPT ![c] = [inum |-> i, size |-> dinode[i]]]
<1>0. cache \in Seq(Copies)
  BY DEF Types
<1>1. /\ s \in Seq(Copies) /\ \A d : Has(s, d) => Has(cache, d)
      /\ \A d : Has(cache, d) /\ ~(Len(cache) = Capacity /\ cache[Capacity] = d) => Has(s, d)
  BY <1>0, RoomKeeps
<1>2. c \in Copies /\ ~Live(c)
  BY DEF Free, Cached, Live, Has
<1>3. cache' \in Seq(Copies) /\ \A d : Has(cache', d) <=> d = c \/ Has(s, d)
  BY <1>1, <1>2, PutInFront
<1>4. \A d : Has(s, d) => heap[d].inum # i
  BY DEF Positions, Has
<1>. HIDE DEF s
<1>5. /\ h \in [Copies -> [inum : Inodes \cup {None}, size : Nat]]
      /\ h[c] = [inum |-> i, size |-> dinode[i]]
      /\ \A d \in Copies : d # c => h[d] = heap[d]
  BY <1>2 DEF Types
<1>. HIDE DEF h
<1>6. heap' = Counted(h, cache', holds')
  BY DEF h
<1>7. /\ heap' \in [Copies -> [inum : Inodes \cup {None}, size : Nat]]
      /\ \A d \in Copies : Live(d)' => heap'[d] = h[d]
  BY <1>5, <1>6, CountedKeeps
<1>8. Types'
  BY <1>2, <1>3, <1>7 DEF Types
<1>9. ASSUME Synchronized, ~(Len(cache) = Capacity /\ InUse(cache[Capacity]))
      PROVE  Synchronized'
  <2>1. \A d \in Copies : InUse(d)' => InUse(d) \/ d = c
    BY DEF InUse, Types
  <2>2. \A d \in Copies : InUse(d) => Has(s, d)
    BY <1>1, <1>9 DEF Synchronized, InUseCached
  <2>3. InUseCached'
    BY <1>3, <2>1, <2>2 DEF InUseCached
  <2>4. \A d \in Copies : Live(d)' => d = c \/ (Live(d) /\ d # c /\ heap[d].inum # i)
    BY <1>1, <1>2, <1>3, <1>4, <2>1, <2>2 DEF Live
  <2>5. /\ Live(c)' => heap'[c].inum = i /\ heap'[c].size = dinode[i]
        /\ \A d \in Copies : Live(d)' /\ d # c => heap'[d] = heap[d]
    <3>1. ASSUME Live(c)' PROVE heap'[c].inum = i /\ heap'[c].size = dinode[i]
      <4>1. heap'[c] = h[c]
        BY <1>2, <1>7, <3>1
      <4>. QED
        BY <1>5, <4>1
    <3>2. \A d \in Copies : Live(d)' /\ d # c => heap'[d] = heap[d]
      BY <1>5, <1>7
    <3>. QED
      BY <3>1, <3>2
  <2>6. OneCopy'
    <3>. SUFFICES ASSUME NEW d \in Copies, NEW e \in Copies, Live(d)', Live(e)',
                         heap'[d].inum = heap'[e].inum
                  PROVE  d = e
      BY DEF OneCopy
    <3>1. CASE d = c \/ e = c
      <4>1. ASSUME NEW x \in Copies, Live(x)', x # c PROVE heap'[x].inum # i
        BY <2>4, <2>5, <4>1
      <4>2. Live(c)' => heap'[c].inum = i
        BY <2>5
      <4>. QED
        BY <3>1, <4>1, <4>2
    <3>2. CASE d # c /\ e # c
      <4>1. Live(d) /\ Live(e) /\ heap[d].inum = heap[e].inum
        BY <2>4, <2>5, <3>2
      <4>. QED
        BY <1>9, <4>1 DEF Synchronized, OneCopy
    <3>. QED
      BY <3>1, <3>2
  <2>7. UpToDate'
    <3>. SUFFICES ASSUME NEW d \in Copies, Live(d)'
                  PROVE  heap'[d].inum \in Inodes /\ heap'[d].size = dinode[heap'[d].inum]
      BY DEF UpToDate
    <3>1. CASE d = c
      BY <2>5, <3>1
    <3>2. CASE d # c
      BY <1>9, <2>4, <2>5, <3>2 DEF Synchronized, UpToDate
    <3>. QED
      BY <3>1, <3>2
  <2>8. OldIsLocked'
    <3>. SUFFICES ASSUME NEW u \in Threads, old[u] # None
                  PROVE  /\ holds'[u] \in Copies /\ lock[holds'[u]] = u
                         /\ old[u] = heap'[holds'[u]].size
      BY DEF OldIsLocked
    <3>1. /\ holds[u] \in Copies /\ lock[holds[u]] = u /\ old[u] = heap[holds[u]].size
      BY <1>9 DEF Synchronized, OldIsLocked
    <3>2. u # t /\ holds'[u] = holds[u]
      BY <3>1, InodeCacheAssumption DEF Types
    <3>3. Live(holds[u])' /\ holds[u] # c
      BY <1>2, <3>1, <3>2 DEF Live, InUse
    <3>. QED
      BY <2>5, <3>1, <3>2, <3>3
  <2>9. AllCounted'
    BY <1>9 DEF Synchronized, AllCounted
  <2>. QED
    BY <2>3, <2>6, <2>7, <2>8, <2>9 DEF Synchronized
<1>. QED
  BY <1>8, <1>9

LEMMA GetKeepsInvariant ==
  ASSUME Invariant, NEW t \in Threads, NEW i \in Inodes, Get(t, i)
  PROVE  Invariant'
<1>1. /\ Types /\ holds[t] = None /\ UNCHANGED <<dinode, lock, old, grown>>
  BY DEF Invariant, Get
<1>2. /\ ~evicted => Synchronized
      /\ ~evicted' => ~evicted /\ ~(Len(cache) = Capacity /\ InUse(cache[Capacity]))
  BY Zenon DEF Invariant, Get
<1>3. /\ Types'
      /\ Synchronized /\ ~(Len(cache) = Capacity /\ InUse(cache[Capacity])) => Synchronized'
  <2>. DEFINE s == Room(cache)
  <2>1. CASE \E k \in Positions(s, i) :
               /\ cache' = <<s[k]>> \o TakenOut(s, k)
               /\ holds' = [holds EXCEPT ![t] = s[k]]
               /\ heap' = Counted(heap, cache', holds')
    <3>1. PICK k \in 1 .. Len(s) :
               /\ cache' = <<s[k]>> \o TakenOut(s, k)
               /\ holds' = [holds EXCEPT ![t] = s[k]]
               /\ heap' = Counted(heap, cache', holds')
      BY <2>1, Zenon DEF Positions
    <3>. QED
      BY <1>1, <3>1, HitKeeps
  <2>2. CASE /\ Positions(s, i) = {}
             /\ \E c \in Free :
                  /\ cache' = <<c>> \o s
                  /\ holds' = [holds EXCEPT ![t] = c]
                  /\ heap' = Counted([heap EXCEPT ![c] = [inum |-> i, size |-> dinode[i]]],
                                     cache', holds')
    BY <1>1, <2>2, MissKeeps
  <2>. QED
    BY <2>1, <2>2, Zenon DEF Get
<1>. QED
  BY <1>2, <1>3, Zenon DEF Invariant

LEMMA LockKeepsInvariant ==
  ASSUME Invariant, NEW t \in Threads, LockInode(t)
  PROVE  Invariant'
<1>. DEFINE c == holds[t]
<1>1. /\ Types /\ c \in Copies /\ lock[c] = None
      /\ lock' = [lock EXCEPT ![c] = t] /\ old' = [old EXCEPT ![t] = heap[c].size]
      /\ UNCHANGED <<cache, heap, dinode, holds, grown>>
  BY DEF Invariant, Types, LockInode
<1>2. /\ ~evicted => Synchronized
      /\ evicted' = evicted
  BY Zenon DEF Invariant, LockInode
<1>3. Types'
  BY <1>1 DEF Types
<1>4. ASSUME Synchronized PROVE Synchronized'
  <2>1. InUseCached' /\ OneCopy' /\ UpToDate' /\ AllCounted'
    BY <1>1, <1>4
    DEF Synchronized, InUseCached, OneCopy, UpToDate, AllCounted, Live, InUse, Has
  <2>2. OldIsLocked'
    <3>. SUFFICES ASSUME NEW u \in Threads, old'[u] # None
                  PROVE  /\ holds[u] \in Copies /\ lock'[holds[u]] = u
                         /\ old'[u] = heap[holds[u]].size
      BY <1>1 DEF OldIsLocked
    <3>1. CASE u = t
      BY <1>1, <3>1 DEF Types
    <3>2. CASE u # t
      <4>1. holds[u] \in Copies /\ lock[holds[u]] = u /\ old[u] = heap[holds[u]].size
            /\ old'[u] = old[u]
        BY <1>1, <1>4, <3>2 DEF Synchronized, OldIsLocked, Types
      <4>2. holds[u] # c
        BY <1>1, <4>1, InodeCacheAssumption
      <4>. QED
        BY <1>1, <4>1, <4>2 DEF Types
    <3>. QED
      BY <3>1, <3>2
  <2>. QED
    BY <2>1, <2>2 DEF Synchronized
<1>. QED
  BY <1>2, <1>3, <1>4, Zenon DEF Invariant

\* The new size is computed from one that is current, since the copy is the only one of
\* its inode and was locked when its size was read.
LEMMA GrowKeepsInvariant ==
  ASSUME Invariant, NEW t \in Threads, Grow(t)
  PROVE  Invariant'
<1>. DEFINE c == holds[t]
            i == heap[c].inum
<1>1. /\ Types /\ old[t] \in Nat
      /\ dinode' = [dinode EXCEPT ![i] = old[t] + 1]
      /\ heap' = [heap EXCEPT ![c].size = old[t] + 1]
      /\ grown' = [grown EXCEPT ![i] = @ + 1]
      /\ lock' = [lock EXCEPT ![c] = None]
      /\ old' = [old EXCEPT ![t] = None]
      /\ UNCHANGED <<cache, holds>>
  BY DEF Invariant, Types, Grow, Updated
<1>2. /\ ~evicted => Synchronized
      /\ evicted' = evicted
  BY Zenon DEF Invariant, Grow
<1>3. Types'
  <2>1. heap' \in [Copies -> [inum : Inodes \cup {None}, size : Nat]]
    <3>1. \A d \in Copies : /\ heap[d] \in [inum : Inodes \cup {None}, size : Nat]
                            /\ [heap[d] EXCEPT !.size = old[t] + 1]
                                 \in [inum : Inodes \cup {None}, size : Nat]
      <4>. TAKE d \in Copies
      <4>1. heap[d] \in [inum : Inodes \cup {None}, size : Nat] /\ old[t] + 1 \in Nat
        BY <1>1 DEF Types
      <4>. QED
        BY <4>1
    <3>. HIDE DEF c
    <3>. QED
      BY <1>1, <3>1 DEF Types
  <2>2. dinode' \in [Inodes -> Nat] /\ grown' \in [Inodes -> Nat]
    <3>. HIDE DEF i
    <3>1. old[t] + 1 \in Nat /\ \A j \in Inodes : grown[j] + 1 \in Nat
      BY <1>1 DEF Types
    <3>. QED
      BY <1>1, <3>1 DEF Types
  <2>. QED
    BY <1>1, <2>1, <2>2 DEF Types
<1>4. ASSUME Synchronized PROVE Synchronized'
  <2>1. c \in Copies /\ lock[c] = t /\ old[t] = heap[c].size /\ Live(c)
    <3>1. c \in Copies /\ lock[c] = t /\ old[t] = heap[c].size
      BY <1>1, <1>4, InodeCacheAssumption DEF Synchronized, OldIsLocked
    <3>. QED
      BY <3>1 DEF Live, InUse
  <2>2. i \in Inodes /\ old[t] = dinode[i]
    BY <1>4, <2>1 DEF Synchronized, UpToDate
  <2>3. /\ heap'[c].inum = i /\ heap'[c].size = old[t] + 1
        /\ \A d \in Copies : d # c => heap'[d] = heap[d]
    BY <1>1, <2>1 DEF Types
  <2>4. /\ dinode'[i] = old[t] + 1 /\ grown'[i] = grown[i] + 1
        /\ \A j \in Inodes : j # i => dinode'[j] = dinode[j] /\ grown'[j] = grown[j]
    BY <1>1, <2>2 DEF Types
  <2>5. \A d \in Copies : (Live(d)' <=> Live(d)) /\ heap'[d].inum = heap[d].inum
    <3>1. \A d \in Copies : Live(d)' <=> Live(d)
      BY <1>1 DEF Live, InUse, Has
    <3>. QED
      BY <2>3, <3>1
  <2>. HIDE DEF c, i
  <2>6. InUseCached'
    BY <1>1, <1>4 DEF Synchronized, InUseCached, InUse, Has
  <2>7. OneCopy'
    BY <1>4, <2>5 DEF Synchronized, OneCopy
  <2>8. UpToDate'
    <3>. SUFFICES ASSUME NEW d \in Copies, Live(d)'
                  PROVE  heap'[d].inum \in Inodes /\ heap'[d].size = dinode'[heap'[d].inum]
      BY DEF UpToDate
    <3>1. Live(d) /\ heap[d].inum \in Inodes /\ heap[d].size = dinode[heap[d].inum]
      BY <1>4, <2>5 DEF Synchronized, UpToDate
    <3>2. CASE d = c
      BY <2>2, <2>3, <2>4, <3>2
    <3>3. CASE d # c
      <4>1. heap[d].inum # i
        BY <1>4, <2>1, <3>1, <3>3 DEF Synchronized, OneCopy, i
      <4>. QED
        BY <2>3, <2>4, <3>1, <3>3, <4>1
    <3>. QED
      BY <3>2, <3>3
  <2>9. OldIsLocked'
    <3>. SUFFICES ASSUME NEW u \in Threads, old'[u] # None
                  PROVE  /\ holds[u] \in Copies /\ lock'[holds[u]] = u
                         /\ old'[u] = heap'[holds[u]].size
      BY <1>1 DEF OldIsLocked
    <3>1. u # t /\ old'[u] = old[u]
      BY <1>1 DEF Types
    <3>2. holds[u] \in Copies /\ lock[holds[u]] = u /\ old[u] = heap[holds[u]].size
      BY <1>4, <3>1 DEF Synchronized, OldIsLocked
    <3>3. holds[u] # c
      BY <2>1, <3>1, <3>2
    <3>. QED
      BY <1>1, <2>3, <3>1, <3>2, <3>3 DEF Types
  <2>10. AllCounted'
    BY <1>4, <2>2, <2>4 DEF Synchronized, AllCounted
  <2>. QED
    BY <2>6, <2>7, <2>8, <2>9, <2>10 DEF Synchronized
<1>. QED
  BY <1>2, <1>3, <1>4, Zenon DEF Invariant

LEMMA DropKeepsInvariant ==
  ASSUME Invariant, NEW t \in Threads, DropInode(t)
  PROVE  Invariant'
<1>1. /\ Types /\ old[t] = None
      /\ holds' = [holds EXCEPT ![t] = None]
      /\ heap' = Counted(heap, cache', holds')
      /\ UNCHANGED <<cache, dinode, lock, old, grown>>
  BY DEF Invariant, DropInode
<1>2. /\ ~evicted => Synchronized
      /\ evicted' = evicted
  BY Zenon DEF Invariant, DropInode
<1>3. /\ heap' \in [Copies -> [inum : Inodes \cup {None}, size : Nat]]
      /\ \A c \in Copies : Live(c)' => heap'[c] = heap[c]
  BY <1>1, CountedKeeps DEF Types
<1>4. Types'
  BY <1>1, <1>3 DEF Types
<1>5. ASSUME Synchronized PROVE Synchronized'
  <2>1. \A c \in Copies : InUse(c)' => InUse(c)
    BY <1>1, InodeCacheAssumption DEF InUse, Types
  <2>3. InUseCached'
    BY <1>1, <1>5, <2>1 DEF Synchronized, InUseCached, Has
  <2>4. \A c \in Copies : Live(c)' => Live(c)
    BY <1>1, <2>1 DEF Live, Has
  <2>5. \A u \in Threads : old[u] # None => holds'[u] = holds[u]
    BY <1>1 DEF Types
  <2>. QED
    BY <1>1, <1>3, <1>5, <2>3, <2>4, <2>5, NothingNew
<1>. QED
  BY <1>2, <1>4, <1>5, Zenon DEF Invariant

-----------------------------------------------------------------------------
\* The invariant holds whatever the threads do with the file system.
LEMMA CacheInvariant == Spec => []Invariant
<1>1. Invariant /\ [Next]_vars => Invariant'
  <2>1. ASSUME Invariant, UNCHANGED vars PROVE Invariant'
    BY <2>1 DEF vars, Invariant, Types, Synchronized, InUseCached, OneCopy, UpToDate, OldIsLocked,
                AllCounted, Live, InUse, Has
  <2>. QED
    BY <2>1, GetKeepsInvariant, LockKeepsInvariant, GrowKeepsInvariant, DropKeepsInvariant
    DEF Next
<1>. QED
  BY <1>1, InitInvariant, PTL DEF Spec

\* Until an inode in use is evicted, all references to an inode are to one copy.
THEOREM OneCopyOfAnInode == Spec => []OneCopyUntilEvicted
<1>1. Invariant => OneCopyUntilEvicted
  <2>. SUFFICES ASSUME Invariant, ~evicted PROVE OneCopy => OneCopyUntilEvicted
    BY Zenon DEF Invariant, Synchronized, OneCopyUntilEvicted
  <2>1. \A c \in Copies : c \notin Free <=> Live(c)
    BY DEF Free, Cached, Live, Has
  <2>. QED
    BY <2>1 DEF OneCopy, OneCopyUntilEvicted
<1>. QED
  BY <1>1, CacheInvariant, PTL

\* Until an inode in use is evicted, no resize computes a size from a stale copy.
THEOREM NoGrowthIsLost == Spec => []NoLostGrowthUntilEvicted
<1>1. Invariant => NoLostGrowthUntilEvicted
  BY Zenon DEF Invariant, Synchronized, AllCounted, NoLostGrowthUntilEvicted
<1>. QED
  BY <1>1, CacheInvariant, PTL
=============================================================================
