-------------------------- MODULE PageTableProofs --------------------------
(***************************************************************************)
(* Proofs about PageTable and AddressSpaces, for any number of entries in  *)
(* a table, any size of a page and any calls of `map`: the tables form a   *)
(* tree of three levels, a translation never changes once it is there, and *)
(* a call of `map` that returned has mapped all its pages.                 *)
(***************************************************************************)
EXTENDS AddressSpaces, TLAPS

-----------------------------------------------------------------------------
(* Arithmetic.                                                             *)

\* The constants are positive.
LEMMA Constants ==
  /\ Fanout \in Nat \ {0} /\ PageSize \in Nat \ {0} /\ Fanout >= 2
  /\ Fanout * Fanout \in Nat \ {0} /\ PageSize * Fanout \in Nat \ {0}
<1>1. Fanout \in Nat \ {0} /\ PageSize \in Nat \ {0} /\ Fanout >= 2
  BY PageTableAssumption
<1>. QED
  BY <1>1

\* Quotient and remainder.
LEMMA Quotient ==
  ASSUME NEW a \in Nat, NEW b \in Nat \ {0}
  PROVE  /\ a \div b \in Nat /\ (a \div b) * b <= a /\ a < (a \div b + 1) * b
         /\ a % b \in 0 .. b - 1 /\ a = (a \div b) * b + (a % b)
  OBVIOUS

\* Multiplying keeps the order.
LEMMA ProductOrder ==
  ASSUME NEW a \in Nat, NEW b \in Nat, NEW c \in Nat, a <= b
  PROVE  a * c <= b * c
  OBVIOUS

\* There is one quotient.
LEMMA QuotientUnique ==
  ASSUME NEW a \in Nat, NEW b \in Nat \ {0}, NEW q \in Nat, q * b <= a, a < (q + 1) * b
  PROVE  a \div b = q
<1>. DEFINE p == a \div b
<1>1. p \in Nat /\ p * b <= a /\ a < (p + 1) * b
  BY Quotient
<1>. HIDE DEF p
<1>2. ~(p + 1 <= q)
  <2>1. SUFFICES ASSUME p + 1 <= q PROVE FALSE
    OBVIOUS
  <2>2. (p + 1) * b <= q * b
    BY <1>1, <2>1, ProductOrder
  <2>. QED
    BY <1>1, <2>2
<1>3. ~(q + 1 <= p)
  <2>1. SUFFICES ASSUME q + 1 <= p PROVE FALSE
    OBVIOUS
  <2>2. (q + 1) * b <= p * b
    BY <1>1, <2>1, ProductOrder
  <2>. QED
    BY <1>1, <2>2
<1>4. p = q
  BY <1>1, <1>2, <1>3
<1>. QED
  BY <1>4 DEF p

\* Dividing twice is dividing by the product.
LEMMA DivideTwice ==
  ASSUME NEW a \in Nat, NEW b \in Nat \ {0}, NEW c \in Nat \ {0}
  PROVE  (a \div b) \div c = a \div (b * c)
<1>. DEFINE p == a \div b
            q == p \div c
<1>1. p \in Nat /\ p * b <= a /\ a < (p + 1) * b
  BY Quotient
<1>. HIDE DEF p
<1>2. q \in Nat /\ q * c <= p /\ p < (q + 1) * c
  BY <1>1, Quotient
<1>. HIDE DEF q
<1>3. q * c \in Nat /\ (q + 1) * c \in Nat /\ p + 1 <= (q + 1) * c
  BY <1>1, <1>2
<1>4. (q * c) * b <= p * b /\ (p + 1) * b <= ((q + 1) * c) * b
  BY <1>1, <1>3, <1>2, ProductOrder
<1>5. (q * c) * b = q * (b * c) /\ ((q + 1) * c) * b = (q + 1) * (b * c)
  BY <1>2
<1>6. b * c \in Nat \ {0}
  OBVIOUS
<1>7. p * b \in Nat /\ (p + 1) * b \in Nat /\ q * (b * c) \in Nat /\ (q + 1) * (b * c) \in Nat
  BY <1>1, <1>2, <1>6
<1>8. q * (b * c) <= a /\ a < (q + 1) * (b * c)
  BY <1>1, <1>4, <1>5, <1>7
<1>9. a \div (b * c) = q
  BY <1>2, <1>6, <1>8, QuotientUnique
<1>. QED
  BY <1>9 DEF p, q

\* Adding whole pages to an address adds to its page number.
LEMMA AddPages ==
  ASSUME NEW a \in Nat, NEW b \in Nat \ {0}, NEW q \in Nat
  PROVE  (a + q * b) \div b = a \div b + q /\ (a + q * b) % b = a % b
<1>. DEFINE p == a \div b
<1>1. p \in Nat /\ p * b <= a /\ a < (p + 1) * b /\ a = p * b + (a % b)
  BY Quotient
<1>. HIDE DEF p
<1>2. p + q \in Nat /\ (p + q) * b = p * b + q * b /\ (p + q + 1) * b = (p + 1) * b + q * b
  BY <1>1
<1>3. p * b \in Nat /\ q * b \in Nat /\ (p + 1) * b \in Nat /\ a + q * b \in Nat
  BY <1>1
<1>4. (p + q) * b <= a + q * b /\ a + q * b < (p + q + 1) * b
  BY <1>1, <1>2, <1>3
<1>5. (a + q * b) \div b = p + q
  BY <1>2, <1>3, <1>4, QuotientUnique
<1>6. (a + q * b) = ((a + q * b) \div b) * b + ((a + q * b) % b) /\ (a + q * b) % b \in 0 .. b - 1
      /\ a % b \in 0 .. b - 1
  BY <1>3, Quotient
<1>7. (a + q * b) % b = a % b
  BY <1>1, <1>2, <1>3, <1>5, <1>6
<1>. QED
  BY <1>5, <1>7 DEF p

-----------------------------------------------------------------------------
(* Indices.                                                                *)

\* The number of pages that three indices can name.
Pages == 0 .. Fanout * Fanout * Fanout - 1

\* The indices of the page: those of the hart.
Top(page) == page \div (Fanout * Fanout)
Middle(page) == (page \div Fanout) % Fanout
Bottom(page) == page % Fanout

\* The indices are entries of a table.
LEMMA IndexRange ==
  ASSUME NEW page \in Pages
  PROVE  {Top(page), Middle(page), Bottom(page)} \subseteq 0 .. Fanout - 1
<1>. DEFINE F == Fanout
            G == F * F
            t == page \div G
<1>1. F \in Nat \ {0} /\ G \in Nat \ {0} /\ G * F \in Nat
  BY Constants
<1>2. page \in Nat /\ page < G * F
  BY <1>1 DEF Pages
<1>. HIDE DEF G, F
<1>3. t \in Nat /\ t * G <= page
  BY <1>1, <1>2, Quotient
<1>4. page \div F \in Nat /\ (page \div F) % F \in 0 .. F - 1 /\ page % F \in 0 .. F - 1
  <2>1. page \div F \in Nat /\ page % F \in 0 .. F - 1
    BY <1>1, <1>2, Quotient
  <2>. QED
    BY <1>1, <2>1, Quotient
<1>. HIDE DEF t
<1>5. t < F
  <2>1. SUFFICES ASSUME F <= t PROVE FALSE
    BY <1>1, <1>3
  <2>2. F * G <= t * G /\ F * G = G * F /\ t * G \in Nat
    BY <1>1, <1>3, <2>1, ProductOrder
  <2>. QED
    BY <1>1, <1>2, <1>3, <2>2
<1>. QED
  BY <1>1, <1>3, <1>4, <1>5 DEF Top, Middle, Bottom, t, G, F

\* Below MAX_VA, the indices that `px` takes out of an address are those of its page.
LEMMA PxIs ==
  ASSUME NEW va \in Nat, va < MaxVa
  PROVE  /\ va \div PageSize \in Pages
         /\ Px(2, va) = Top(va \div PageSize)
         /\ Px(1, va) = Middle(va \div PageSize)
         /\ Px(0, va) = Bottom(va \div PageSize)
<1>. DEFINE page == va \div PageSize
            cube == Fanout * Fanout * Fanout
<1>1. page \in Nat /\ page * PageSize <= va
  BY Constants, Quotient
<1>2. cube \in Nat /\ cube * PageSize \in Nat
  BY Constants
<1>3. va < cube * PageSize
  <2>1. MaxVa = (cube * PageSize) \div 2
    BY DEF MaxVa
  <2>. HIDE DEF cube
  <2>2. MaxVa \in Nat /\ MaxVa <= cube * PageSize
    BY <1>2, <2>1
  <2>. QED
    BY <1>2, <2>2
<1>. HIDE DEF page, cube
<1>4. page < cube
  <2>1. SUFFICES ASSUME cube <= page PROVE FALSE
    BY <1>1, <1>2
  <2>2. cube * PageSize <= page * PageSize /\ page * PageSize \in Nat
    BY <1>1, <1>2, <2>1, Constants, ProductOrder
  <2>. QED
    BY <1>1, <1>2, <1>3, <2>2
<1>5. page \in Pages
  BY <1>1, <1>2, <1>4 DEF Pages, cube
<1>6. Px(0, va) = Bottom(page)
  BY DEF Px, Bottom, page
<1>7. Px(1, va) = Middle(page)
  <2>1. page \div Fanout = va \div (PageSize * Fanout)
    BY Constants, DivideTwice DEF page
  <2>. QED
    BY <2>1 DEF Px, Middle
<1>8. Px(2, va) = Top(page)
  <2>1. page \div (Fanout * Fanout) = va \div (PageSize * (Fanout * Fanout))
    BY Constants, DivideTwice DEF page
  <2>2. PageSize * (Fanout * Fanout) = PageSize * Fanout * Fanout
    BY Constants
  <2>3. Top(page) \in 0 .. Fanout - 1
    BY <1>5, IndexRange
  <2>4. Px(2, va) = Top(page) % Fanout
    BY <2>1, <2>2 DEF Px, Top
  <2>. HIDE DEF Top
  <2>5. Top(page) % Fanout = Top(page)
    BY <2>3, Constants
  <2>. QED
    BY <2>4, <2>5
<1>. QED
  BY <1>5, <1>6, <1>7, <1>8 DEF page

\* `px` takes an index of a table out of any address.
LEMMA PxRange ==
  ASSUME NEW va \in Nat, NEW level \in {0, 1, 2}
  PROVE  Px(level, va) \in 0 .. Fanout - 1
<1>. DEFINE b == IF level = 0 THEN PageSize
                 ELSE IF level = 1 THEN PageSize * Fanout ELSE PageSize * Fanout * Fanout
<1>1. b \in Nat \ {0}
  <2>1. PageSize * Fanout \in Nat \ {0} /\ PageSize * Fanout * Fanout \in Nat \ {0}
    BY Constants
  <2>. QED
    BY <2>1, Constants
<1>2. Px(level, va) = (va \div b) % Fanout
  BY DEF Px
<1>. HIDE DEF b
<1>3. va \div b \in Nat
  BY <1>1, Quotient
<1>. QED
  BY <1>2, <1>3, Constants, Quotient

-----------------------------------------------------------------------------
(* Trees.                                                                  *)

Permissions == Perms \cup {"RX", "RW", "RXG", "RWG", "RWXU"}
Ptes == [valid : BOOLEAN, pa : Nat, perm : Permissions \cup {None}]
Indices == 0 .. Fanout - 1
Tables == [Indices -> Ptes]
Numbers(ts) == 0 .. Len(ts) - 1
Pte(ts, n, i) == ts[n + 1][i]

\* What `walk` relies on: `lev` gives each table its level; an entry of the root or of
\* a table below it leads one level down, and an entry of a bottom table to a page.
Levels(ts, lev) ==
  /\ ts \in Seq(Tables) /\ Len(ts) >= 1
  /\ lev \in [Numbers(ts) -> 0 .. 2] /\ lev[0] = 2
  /\ \A n \in Numbers(ts), i \in Indices :
       Pte(ts, n, i).valid =>
         IF lev[n] = 0 THEN Pte(ts, n, i).perm # None
         ELSE /\ Pte(ts, n, i).perm = None
              /\ Pte(ts, n, i).pa \in Numbers(ts) \ {0}
              /\ lev[Pte(ts, n, i).pa] = lev[n] - 1
OneParent(ts, lev) ==
  \A n, m \in Numbers(ts), i, j \in Indices :
    (/\ lev[n] # 0 /\ lev[m] # 0 /\ Pte(ts, n, i).valid /\ Pte(ts, m, j).valid
     /\ Pte(ts, n, i).pa = Pte(ts, m, j).pa) => n = m /\ i = j
Tree(ts, lev) == Levels(ts, lev) /\ OneParent(ts, lev)

\* What `map` may do to the tables: add some, and fill entries that are not valid.
Grown(ts, us) ==
  /\ Len(ts) <= Len(us)
  /\ \A n \in Numbers(ts), i \in Indices : Pte(ts, n, i).valid => Pte(us, n, i) = Pte(ts, n, i)

\* Assigning an entry of a table changes no other entry.
LEMMA SetPte ==
  ASSUME NEW ts \in Seq(Tables), NEW n \in Numbers(ts), NEW i \in Indices, NEW e \in Ptes
  PROVE  LET us == [ts EXCEPT ![n + 1][i] = e]
         IN  /\ us \in Seq(Tables) /\ Len(us) = Len(ts)
             /\ \A m \in Numbers(ts), j \in Indices :
                  Pte(us, m, j) = IF m = n /\ j = i THEN e ELSE Pte(ts, m, j)
<1>. DEFINE us == [ts EXCEPT ![n + 1][i] = e]
            t == [ts[n + 1] EXCEPT ![i] = e]
<1>1. Len(ts) \in Nat /\ n + 1 \in 1 .. Len(ts) /\ \A k \in 1 .. Len(ts) : ts[k] \in Tables
  BY DEF Numbers
<1>2. t \in Tables /\ \A j \in Indices : t[j] = IF j = i THEN e ELSE ts[n + 1][j]
  BY <1>1 DEF Tables
<1>3. us = [ts EXCEPT ![n + 1] = t]
  OBVIOUS
<1>. HIDE DEF t, Tables
<1>4. us \in Seq(Tables) /\ Len(us) = Len(ts)
      /\ \A k \in 1 .. Len(ts) : us[k] = IF k = n + 1 THEN t ELSE ts[k]
  BY <1>1, <1>2, <1>3
<1>. HIDE DEF us
<1>5. ASSUME NEW m \in Numbers(ts), NEW j \in Indices
      PROVE  Pte(us, m, j) = IF m = n /\ j = i THEN e ELSE Pte(ts, m, j)
  <2>1. m + 1 \in 1 .. Len(ts) /\ (m + 1 = n + 1 <=> m = n)
    BY <1>1 DEF Numbers
  <2>. QED
    BY <1>2, <1>4, <2>1 DEF Pte
<1>. QED
  BY <1>4, <1>5 DEF us

\* A new table is empty, and the others stay.
LEMMA AddTable ==
  ASSUME NEW ts \in Seq(Tables)
  PROVE  LET us == Append(ts, EmptyTable)
         IN  /\ us \in Seq(Tables) /\ Len(us) = Len(ts) + 1
             /\ \A m \in Numbers(us), j \in Indices :
                  Pte(us, m, j) = IF m = Len(ts) THEN EmptyPte ELSE Pte(ts, m, j)
<1>. DEFINE us == Append(ts, EmptyTable)
<1>1. EmptyTable \in Tables /\ \A j \in Indices : EmptyTable[j] = EmptyPte
  <2>1. EmptyPte \in Ptes
    BY DEF EmptyPte, Ptes
  <2>. QED
    BY <2>1 DEF EmptyTable, Tables, Indices
<1>. HIDE DEF Tables
<1>2. Len(ts) \in Nat /\ us \in Seq(Tables) /\ Len(us) = Len(ts) + 1
      /\ \A k \in 1 .. Len(ts) + 1 : us[k] = IF k = Len(ts) + 1 THEN EmptyTable ELSE ts[k]
  BY <1>1
<1>. HIDE DEF us
<1>3. ASSUME NEW m \in Numbers(us), NEW j \in Indices
      PROVE  Pte(us, m, j) = IF m = Len(ts) THEN EmptyPte ELSE Pte(ts, m, j)
  <2>1. m + 1 \in 1 .. Len(ts) + 1 /\ (m + 1 = Len(ts) + 1 <=> m = Len(ts))
    BY <1>2 DEF Numbers
  <2>. QED
    BY <1>1, <1>2, <2>1 DEF Pte
<1>. QED
  BY <1>2, <1>3 DEF us

\* The tables `us` are a tree grown from `ts` in which entry i of table n leads to
\* table m, one level down.
Descends(ts, lev, n, i, us, m) ==
  \E l \in [Numbers(us) -> 0 .. 2] :
    /\ Tree(us, l) /\ Grown(ts, us) /\ m \in Numbers(us) /\ l[m] = lev[n] - 1
    /\ Pte(us, n, i).valid /\ Pte(us, n, i).pa = m

\* One level of `walk`: the tables are a tree again, no valid entry has changed, and
\* the entry for the address leads to the table that is returned, one level down.
LEMMA ChildTree ==
  ASSUME NEW ts, NEW lev, Tree(ts, lev), NEW n \in Numbers(ts), NEW level \in {1, 2},
         lev[n] = level, NEW va \in Nat
  PROVE  Descends(ts, lev, n, Px(level, va),
                  Child(ts, n, level, va).ts, Child(ts, n, level, va).n)
<1>. DEFINE c == Child(ts, n, level, va)
            x == Px(level, va)
<1>1. x \in Indices
  BY PxRange DEF Indices
<1>2. ts \in Seq(Tables) /\ Len(ts) \in Nat \ {0} /\ lev \in [Numbers(ts) -> 0 .. 2]
  BY DEF Tree, Levels
<1>3. CASE Pte(ts, n, x).valid
  <2>1. c = [ts |-> ts, n |-> Pte(ts, n, x).pa]
    BY <1>3 DEF Child, Pte
  <2>2. c.n \in Numbers(ts) /\ lev[c.n] = level - 1
    BY <1>1, <1>3, <2>1 DEF Tree, Levels
  <2>3. Grown(ts, ts)
    BY <1>2 DEF Grown
  <2>4. c.ts = ts /\ c.n = Pte(ts, n, x).pa
    BY <2>1
  <2>. HIDE DEF c, x
  <2>5. /\ lev \in [Numbers(c.ts) -> 0 .. 2]
        /\ Tree(c.ts, lev) /\ Grown(ts, c.ts)
        /\ c.n \in Numbers(c.ts) /\ lev[c.n] = lev[n] - 1
        /\ Pte(c.ts, n, x).valid /\ Pte(c.ts, n, x).pa = c.n
    BY <1>2, <1>3, <2>2, <2>3, <2>4, Zenon
  <2>. QED
    BY <2>5, Zenon DEF c, x, Descends
<1>4. CASE ~Pte(ts, n, x).valid
  <2>. DEFINE e == [valid |-> TRUE, pa |-> Len(ts), perm |-> None]
              vs == [ts EXCEPT ![n + 1][x] = e]
              us == Append(vs, EmptyTable)
              l == [m \in 0 .. Len(ts) |-> IF m = Len(ts) THEN level - 1 ELSE lev[m]]
  <2>1. c.ts = us /\ c.n = Len(ts)
    BY <1>4 DEF Child, Pte
  <2>2. e \in Ptes /\ e.valid /\ e.pa = Len(ts) /\ e.perm = None
    BY <1>2 DEF Ptes
  <2>. HIDE DEF e
  <2>3. /\ vs \in Seq(Tables) /\ Len(vs) = Len(ts)
        /\ \A m \in Numbers(ts), j \in Indices :
             Pte(vs, m, j) = IF m = n /\ j = x THEN e ELSE Pte(ts, m, j)
    BY <1>1, <1>2, <2>2, SetPte
  <2>. HIDE DEF vs
  <2>4. /\ us \in Seq(Tables) /\ Len(us) = Len(ts) + 1
        /\ \A m \in Numbers(us), j \in Indices :
             Pte(us, m, j) = IF m = Len(ts) THEN EmptyPte ELSE Pte(vs, m, j)
    BY <2>3, AddTable
  <2>. HIDE DEF us
  <2>5. Numbers(us) = 0 .. Len(ts) /\ Numbers(ts) \subseteq Numbers(us)
        /\ Numbers(ts) = 0 .. Len(ts) - 1
    BY <1>2, <2>4 DEF Numbers
  <2>6. ~EmptyPte.valid
    BY DEF EmptyPte
  <2>7. \A m \in Numbers(us), j \in Indices :
          /\ m = Len(ts) => ~Pte(us, m, j).valid
          /\ m = n /\ j = x => Pte(us, m, j) = e
          /\ m # Len(ts) /\ ~(m = n /\ j = x) =>
               m \in Numbers(ts) /\ Pte(us, m, j) = Pte(ts, m, j)
    BY <1>2, <2>3, <2>4, <2>5, <2>6
  <2>8. l \in [Numbers(us) -> 0 .. 2] /\ l[Len(ts)] = level - 1 /\ l[0] = 2
        /\ \A m \in Numbers(ts) : l[m] = lev[m] /\ m # Len(ts)
    BY <1>2, <2>5 DEF Tree, Levels
  <2>. HIDE DEF l
  <2>9. Levels(us, l)
    <3>1. ASSUME NEW m \in Numbers(us), NEW i \in Indices, Pte(us, m, i).valid
          PROVE  IF l[m] = 0 THEN Pte(us, m, i).perm # None
                 ELSE /\ Pte(us, m, i).perm = None
                      /\ Pte(us, m, i).pa \in Numbers(us) \ {0}
                      /\ l[Pte(us, m, i).pa] = l[m] - 1
      <4>1. CASE m = n /\ i = x
        BY <1>2, <2>2, <2>5, <2>7, <2>8, <4>1
      <4>2. CASE ~(m = n /\ i = x)
        <5>1. m \in Numbers(ts) /\ Pte(us, m, i) = Pte(ts, m, i)
          BY <2>7, <3>1, <4>2
        <5>2. IF lev[m] = 0 THEN Pte(ts, m, i).perm # None
              ELSE /\ Pte(ts, m, i).perm = None
                   /\ Pte(ts, m, i).pa \in Numbers(ts) \ {0}
                   /\ lev[Pte(ts, m, i).pa] = lev[m] - 1
          BY <3>1, <5>1 DEF Tree, Levels
        <5>. QED
          BY <2>5, <2>8, <5>1, <5>2
      <4>. QED
        BY <4>1, <4>2
    <3>. QED
      BY <1>2, <2>4, <2>8, <3>1 DEF Levels
  <2>10. OneParent(us, l)
    <3>1. SUFFICES ASSUME NEW m \in Numbers(us), NEW k \in Numbers(us),
                          NEW i \in Indices, NEW j \in Indices, l[m] # 0, l[k] # 0,
                          Pte(us, m, i).valid, Pte(us, k, j).valid,
                          Pte(us, m, i).pa = Pte(us, k, j).pa
                   PROVE  m = k /\ i = j
      BY DEF OneParent
    <3>2. ASSUME NEW a \in Numbers(us), NEW b \in Indices, l[a] # 0, Pte(us, a, b).valid,
                 ~(a = n /\ b = x)
          PROVE  /\ a \in Numbers(ts) /\ Pte(us, a, b) = Pte(ts, a, b) /\ lev[a] # 0
                 /\ Pte(ts, a, b).valid /\ Pte(us, a, b).pa # Len(ts)
      <4>1. a \in Numbers(ts) /\ Pte(us, a, b) = Pte(ts, a, b) /\ lev[a] # 0
            /\ Pte(ts, a, b).valid
        BY <2>7, <2>8, <3>2
      <4>2. Pte(ts, a, b).pa \in Numbers(ts)
        BY <4>1 DEF Tree, Levels
      <4>. QED
        BY <2>8, <4>1, <4>2
    <3>3. CASE (m = n /\ i = x) \/ (k = n /\ j = x)
      BY <2>2, <2>7, <3>1, <3>2, <3>3
    <3>4. CASE ~(m = n /\ i = x) /\ ~(k = n /\ j = x)
      BY <3>1, <3>2, <3>4 DEF Tree, OneParent
    <3>. QED
      BY <3>3, <3>4
  <2>11. Grown(ts, us)
    BY <1>2, <1>4, <2>4, <2>5, <2>7, <2>8 DEF Grown
  <2>12. Pte(us, n, x).valid /\ Pte(us, n, x).pa = Len(ts) /\ Len(ts) \in Numbers(us)
    BY <1>1, <1>2, <2>2, <2>5, <2>7
  <2>. HIDE DEF c, x
  <2>13. /\ l \in [Numbers(c.ts) -> 0 .. 2]
         /\ Tree(c.ts, l) /\ Grown(ts, c.ts)
         /\ c.n \in Numbers(c.ts) /\ l[c.n] = lev[n] - 1
         /\ Pte(c.ts, n, x).valid /\ Pte(c.ts, n, x).pa = c.n
    BY <2>1, <2>8, <2>9, <2>10, <2>11, <2>12, Zenon DEF Tree
  <2>. QED
    BY <2>13, Zenon DEF c, x, Descends
<1>. QED
  BY <1>3, <1>4

\* Growing twice is growing.
LEMMA GrownTwice ==
  ASSUME NEW ts \in Seq(Tables), NEW us \in Seq(Tables), NEW vs \in Seq(Tables),
         Grown(ts, us), Grown(us, vs)
  PROVE  Grown(ts, vs)
<1>1. Len(ts) \in Nat /\ Len(us) \in Nat /\ Len(vs) \in Nat
  OBVIOUS
<1>2. \A n \in Numbers(ts) : n \in Numbers(us)
  BY <1>1 DEF Numbers, Grown
<1>. QED
  BY <1>1, <1>2 DEF Grown

-----------------------------------------------------------------------------
(* Translations.                                                           *)

\* The walk of the hart finds a page, at `pa` and with permission `perm`.
Found(ts, page, pa, perm) ==
  LET two == Pte(ts, 0, Top(page))
      one == Pte(ts, two.pa, Middle(page))
      zero == Pte(ts, one.pa, Bottom(page))
  IN  /\ page \in Pages
      /\ two.valid /\ one.valid /\ zero.valid /\ zero.pa = pa /\ zero.perm = perm

\* A translation that is there stays when the tables grow.
LEMMA FoundStays ==
  ASSUME NEW ts, NEW lev, Tree(ts, lev), NEW us, Grown(ts, us),
         NEW page, NEW pa, NEW perm, Found(ts, page, pa, perm)
  PROVE  Found(us, page, pa, perm)
<1>. DEFINE x == Top(page)
            y == Middle(page)
            z == Bottom(page)
            two == Pte(ts, 0, x)
            one == Pte(ts, two.pa, y)
            zero == Pte(ts, one.pa, z)
<1>1. page \in Pages /\ two.valid /\ one.valid /\ zero.valid /\ zero.pa = pa /\ zero.perm = perm
  BY DEF Found
<1>2. x \in Indices /\ y \in Indices /\ z \in Indices
  BY <1>1, IndexRange DEF Indices
<1>. HIDE DEF x, y, z
<1>3. 0 \in Numbers(ts) /\ lev[0] = 2
  BY DEF Numbers, Tree, Levels
<1>4. two.pa \in Numbers(ts) /\ lev[two.pa] = 1
  <2>1. two.pa \in Numbers(ts) /\ lev[two.pa] = lev[0] - 1
    BY <1>1, <1>2, <1>3 DEF Tree, Levels
  <2>. QED
    BY <1>3, <2>1
<1>5. one.pa \in Numbers(ts)
  <2>. DEFINE n == two.pa
  <2>1. n \in Numbers(ts) /\ lev[n] = 1
    BY <1>4
  <2>. HIDE DEF n
  <2>2. Pte(ts, n, y).valid => Pte(ts, n, y).pa \in Numbers(ts)
    BY <1>2, <2>1 DEF Tree, Levels
  <2>. QED
    BY <1>1, <2>2 DEF n
<1>6. Pte(us, 0, x) = two /\ Pte(us, two.pa, y) = one /\ Pte(us, one.pa, z) = zero
  BY <1>1, <1>2, <1>3, <1>4, <1>5 DEF Grown
<1>. QED
  BY <1>1, <1>6 DEF Found, x, y, z

\* `walk`: the tables are a tree again, no valid entry has changed, and the two upper
\* entries for the address lead to the bottom table that is returned.
LEMMA WalkTree ==
  ASSUME NEW ts, NEW lev, Tree(ts, lev), NEW va \in Nat
  PROVE  LET w == Walk(ts, va)
         IN  \E l \in [Numbers(w.ts) -> 0 .. 2] :
               /\ Tree(w.ts, l) /\ Grown(ts, w.ts)
               /\ w.n \in Numbers(w.ts) /\ l[w.n] = 0
               /\ LET two == Pte(w.ts, 0, Px(2, va))
                      one == Pte(w.ts, two.pa, Px(1, va))
                  IN  two.valid /\ one.valid /\ one.pa = w.n
<1>. DEFINE c == Child(ts, 0, 2, va)
            w == Walk(ts, va)
            x == Px(2, va)
            y == Px(1, va)
<1>1. 0 \in Numbers(ts) /\ lev[0] = 2 /\ ts \in Seq(Tables)
  BY DEF Numbers, Tree, Levels
<1>2. PICK cts, cn : cts = c.ts /\ cn = c.n
  OBVIOUS
<1>3. PICK l \in [Numbers(cts) -> 0 .. 2] :
        /\ Tree(cts, l) /\ Grown(ts, cts) /\ cn \in Numbers(cts) /\ l[cn] = 2 - 1
        /\ Pte(cts, 0, x).valid /\ Pte(cts, 0, x).pa = cn
  <2>1. Descends(ts, lev, 0, x, c.ts, c.n)
    BY <1>1, ChildTree
  <2>. QED
    BY <1>1, <1>2, <2>1, Zenon DEF Descends
<1>4. w = Child(cts, cn, 1, va) /\ l[cn] = 1
  BY <1>2, <1>3 DEF Walk
<1>. HIDE DEF c, w
<1>5. PICK k \in [Numbers(w.ts) -> 0 .. 2] :
        /\ Tree(w.ts, k) /\ Grown(cts, w.ts) /\ w.n \in Numbers(w.ts) /\ k[w.n] = l[cn] - 1
        /\ Pte(w.ts, cn, y).valid /\ Pte(w.ts, cn, y).pa = w.n
  <2>1. Descends(cts, l, cn, y, w.ts, w.n)
    BY <1>3, <1>4, ChildTree
  <2>. QED
    BY <2>1 DEF Descends
<1>. HIDE DEF w
<1>6. cts \in Seq(Tables) /\ w.ts \in Seq(Tables)
  BY <1>3, <1>5 DEF Tree, Levels
<1>7. Grown(ts, w.ts)
  BY <1>1, <1>3, <1>5, <1>6, GrownTwice
<1>8. Pte(w.ts, 0, x) = Pte(cts, 0, x)
  <2>1. 0 \in Numbers(cts)
    BY <1>3 DEF Numbers, Tree, Levels
  <2>2. x \in Indices
    BY PxRange DEF Indices
  <2>. HIDE DEF x
  <2>. QED
    BY <1>3, <1>5, <2>1, <2>2 DEF Grown
<1>9. /\ Pte(w.ts, 0, x).valid /\ Pte(w.ts, Pte(w.ts, 0, x).pa, y).valid
      /\ Pte(w.ts, Pte(w.ts, 0, x).pa, y).pa = w.n
  BY <1>3, <1>5, <1>8
<1>10. /\ k \in [Numbers(w.ts) -> 0 .. 2]
       /\ Tree(w.ts, k) /\ Grown(ts, w.ts) /\ w.n \in Numbers(w.ts) /\ k[w.n] = 0
       /\ LET two == Pte(w.ts, 0, x)
              one == Pte(w.ts, two.pa, y)
          IN  two.valid /\ one.valid /\ one.pa = w.n
  BY <1>4, <1>5, <1>7, <1>9, 1 - 1 = 0, Zenon
<1>. QED
  BY <1>10, Zenon DEF w, x, y

\* A turn of the loop of `map` that does not panic: the tables are a tree again, no
\* valid entry has changed, and the page of the address is found.
LEMMA LeafTree ==
  ASSUME NEW ts, NEW lev, Tree(ts, lev), NEW va \in Nat, va < MaxVa,
         NEW pa \in Nat, NEW perm \in Permissions,
         ~Pte(Walk(ts, va).ts, Walk(ts, va).n, Px(0, va)).valid
  PROVE  LET w == Walk(ts, va)
             us == [w.ts EXCEPT ![w.n + 1][Px(0, va)] =
                      [valid |-> TRUE, pa |-> pa, perm |-> perm]]
         IN  /\ \E l : Tree(us, l)
             /\ Grown(ts, us)
             /\ Found(us, va \div PageSize, pa, perm)
<1>. DEFINE w == Walk(ts, va)
            e == [valid |-> TRUE, pa |-> pa, perm |-> perm]
            page == va \div PageSize
<1>1. PICK l \in [Numbers(w.ts) -> 0 .. 2] :
        /\ Tree(w.ts, l) /\ Grown(ts, w.ts)
        /\ w.n \in Numbers(w.ts) /\ l[w.n] = 0
        /\ LET two == Pte(w.ts, 0, Px(2, va))
               one == Pte(w.ts, two.pa, Px(1, va))
           IN  two.valid /\ one.valid /\ one.pa = w.n
  BY WalkTree
<1>2. PICK vs, n, x, y, z : /\ vs = w.ts /\ n = w.n
                            /\ x = Px(2, va) /\ y = Px(1, va) /\ z = Px(0, va)
  OBVIOUS
<1>. DEFINE us == [vs EXCEPT ![n + 1][z] = e]
            one == Pte(vs, Pte(vs, 0, x).pa, y)
<1>3. /\ Tree(vs, l) /\ Grown(ts, vs) /\ n \in Numbers(vs) /\ l[n] = 0
      /\ Pte(vs, 0, x).valid /\ one.valid /\ one.pa = n /\ ~Pte(vs, n, z).valid
  BY <1>1, <1>2
<1>. HIDE DEF w
<1>4. x \in Indices /\ y \in Indices /\ z \in Indices
  BY <1>2, PxRange DEF Indices
<1>5. vs \in Seq(Tables) /\ Len(vs) \in Nat /\ l \in [Numbers(vs) -> 0 .. 2] /\ l[0] = 2
      /\ ts \in Seq(Tables) /\ 0 \in Numbers(vs)
  BY <1>3 DEF Tree, Levels, Numbers
<1>6. e \in Ptes /\ e.valid /\ e.pa = pa /\ e.perm = perm /\ e.perm # None
  <2>1. perm # None
    BY PageTableAssumption, SpacesAssumption DEF Permissions
  <2>. QED
    BY <2>1 DEF Ptes
<1>. HIDE DEF e
<1>7. /\ us \in Seq(Tables) /\ Len(us) = Len(vs)
      /\ \A m \in Numbers(vs), j \in Indices :
           Pte(us, m, j) = IF m = n /\ j = z THEN e ELSE Pte(vs, m, j)
  BY <1>3, <1>4, <1>5, <1>6, SetPte
<1>. HIDE DEF us
<1>8. Numbers(us) = Numbers(vs)
  BY <1>7 DEF Numbers
<1>9. Levels(us, l)
  <2>1. ASSUME NEW m \in Numbers(vs), NEW i \in Indices, Pte(us, m, i).valid
        PROVE  IF l[m] = 0 THEN Pte(us, m, i).perm # None
               ELSE /\ Pte(us, m, i).perm = None
                    /\ Pte(us, m, i).pa \in Numbers(vs) \ {0}
                    /\ l[Pte(us, m, i).pa] = l[m] - 1
    <3>1. CASE m = n /\ i = z
      BY <1>3, <1>6, <1>7, <3>1
    <3>2. CASE ~(m = n /\ i = z)
      <4>1. Pte(us, m, i) = Pte(vs, m, i)
        BY <1>7, <3>2
      <4>2. Levels(vs, l)
        BY <1>3 DEF Tree
      <4>. QED
        BY <2>1, <4>1, <4>2 DEF Levels
    <3>. QED
      BY <3>1, <3>2
  <2>2. us \in Seq(Tables) /\ Len(us) >= 1 /\ l \in [Numbers(us) -> 0 .. 2] /\ l[0] = 2
    <3>1. Len(vs) >= 1
      BY <1>3 DEF Tree, Levels
    <3>. QED
      BY <1>5, <1>7, <1>8, <3>1
  <2>. QED
    BY <1>8, <2>1, <2>2, Zenon DEF Levels
<1>10. OneParent(us, l)
  <2>1. \A m \in Numbers(vs), j \in Indices : l[m] # 0 => Pte(us, m, j) = Pte(vs, m, j)
    BY <1>3, <1>7
  <2>2. OneParent(vs, l)
    BY <1>3 DEF Tree
  <2>3. ASSUME NEW m \in Numbers(vs), NEW k \in Numbers(vs), NEW i \in Indices, NEW j \in Indices,
               l[m] # 0, l[k] # 0, Pte(us, m, i).valid, Pte(us, k, j).valid,
               Pte(us, m, i).pa = Pte(us, k, j).pa
        PROVE  m = k /\ i = j
    <3>1. Pte(us, m, i) = Pte(vs, m, i) /\ Pte(us, k, j) = Pte(vs, k, j)
      BY <2>1, <2>3
    <3>. QED
      BY <2>2, <2>3, <3>1 DEF OneParent
  <2>. QED
    BY <1>8, <2>3 DEF OneParent
<1>11. Grown(vs, us)
  <2>1. ASSUME NEW m \in Numbers(vs), NEW j \in Indices, Pte(vs, m, j).valid
        PROVE  Pte(us, m, j) = Pte(vs, m, j)
    <3>1. ~(m = n /\ j = z)
      BY <1>3, <2>1
    <3>. QED
      BY <1>7, <3>1
  <2>. QED
    BY <1>5, <1>7, <2>1 DEF Grown
<1>12. Grown(ts, us)
  BY <1>3, <1>5, <1>7, <1>11, GrownTwice
<1>13. Found(us, page, pa, perm)
  <2>1. page \in Pages /\ x = Top(page) /\ y = Middle(page) /\ z = Bottom(page)
    BY <1>2, PxIs
  <2>. HIDE DEF page
  <2>2. Pte(us, 0, x) = Pte(vs, 0, x)
    BY <1>3, <1>4, <1>5, <1>11 DEF Grown
  <2>3. Pte(vs, 0, x).pa \in Numbers(vs)
    <3>1. Levels(vs, l)
      BY <1>3 DEF Tree
    <3>2. l[0] # 0
      BY <1>5
    <3>. QED
      BY <1>3, <1>4, <1>5, <3>1, <3>2 DEF Levels
  <2>4. Pte(us, Pte(vs, 0, x).pa, y) = one
    BY <1>3, <1>4, <1>11, <2>3 DEF Grown
  <2>5. Pte(us, n, z) = e
    BY <1>3, <1>4, <1>7
  <2>6. Pte(us, Pte(us, 0, x).pa, y) = one /\ Pte(us, 0, x).valid
    BY <1>3, <2>2, <2>4
  <2>. HIDE DEF one
  <2>. QED
    BY <1>3, <1>6, <2>1, <2>5, <2>6 DEF Found
<1>14. /\ \E k : Tree(us, k)
       /\ Grown(ts, us) /\ Found(us, page, pa, perm)
  BY <1>9, <1>10, <1>12, <1>13 DEF Tree
<1>15. us = [w.ts EXCEPT ![w.n + 1][Px(0, va)] = [valid |-> TRUE, pa |-> pa, perm |-> perm]]
  BY <1>2 DEF us, e
<1>. HIDE DEF page
<1>. QED
  BY <1>14, <1>15, Zenon DEF w, page

-----------------------------------------------------------------------------
(* The invariant.                                                          *)

Arguments == [va : Nat, pa : Nat, size : Nat]
Calls == [va : Nat, pa : Nat, end : Nat, perm : Permissions, args : Arguments]
Returned == [args : Arguments, perm : Permissions]

\* The k-th page of a range, from the first on.
PageFound(ts, args, perm, k) ==
  Found(ts, args.va \div PageSize + k, RoundDown(args.pa) + k * PageSize, perm)

\* The call that is running has mapped its first j pages.
Progress ==
  call # None =>
    /\ call \in Calls
    /\ call.end = RoundUp(RoundDown(call.args.va) + call.args.size)
    /\ \E j \in Nat :
         /\ call.va = RoundDown(call.args.va) + j * PageSize
         /\ call.pa = RoundDown(call.args.pa) + j * PageSize
         /\ \A k \in 0 .. j - 1 : PageFound(tables, call.args, call.perm, k)

\* A call that returned has mapped all its pages.
Finished ==
  \A d \in done :
    /\ d \in Returned
    /\ \A k \in Nat : k * PageSize < d.args.size => PageFound(tables, d.args, d.perm, k)

Invariant == (\E lev : Tree(tables, lev)) /\ Progress /\ Finished

\* Rounding.
LEMMA Rounds ==
  ASSUME NEW a \in Nat
  PROVE  /\ RoundDown(a) \in Nat /\ RoundDown(a) = (a \div PageSize) * PageSize
         /\ RoundUp(a) \in Nat /\ RoundUp(a) >= a
<1>1. PageSize \in Nat \ {0}
  BY Constants
<1>2. ASSUME NEW b \in Nat
      PROVE  /\ RoundDown(b) \in Nat /\ RoundDown(b) = (b \div PageSize) * PageSize
             /\ b - PageSize + 1 <= RoundDown(b)
  <2>1. /\ b % PageSize \in 0 .. PageSize - 1 /\ b = (b \div PageSize) * PageSize + (b % PageSize)
        /\ b \div PageSize \in Nat
    BY <1>1, Quotient
  <2>2. (b \div PageSize) * PageSize \in Nat
    BY <1>1, <2>1
  <2>. QED
    BY <1>1, <2>1, <2>2 DEF RoundDown
<1>3. a + PageSize - 1 \in Nat
  BY <1>1
<1>4. RoundUp(a) = RoundDown(a + PageSize - 1)
  BY DEF RoundUp
<1>5. RoundDown(a + PageSize - 1) \in Nat /\ (a + PageSize - 1) - PageSize + 1 <= RoundDown(a + PageSize - 1)
  BY <1>2, <1>3
<1>6. (a + PageSize - 1) - PageSize + 1 = a
  BY <1>1
<1>. QED
  BY <1>2, <1>4, <1>5, <1>6

\* The page of an address that is whole pages after the first page of a range.
LEMMA PageOf ==
  ASSUME NEW a \in Nat, NEW j \in Nat
  PROVE  (RoundDown(a) + j * PageSize) \div PageSize = a \div PageSize + j
<1>. DEFINE q == a \div PageSize
<1>1. PageSize \in Nat \ {0} /\ q \in Nat /\ RoundDown(a) = q * PageSize
  BY Constants, Rounds, Quotient
<1>. HIDE DEF q
<1>2. RoundDown(a) + j * PageSize = 0 + (q + j) * PageSize /\ q + j \in Nat
  BY <1>1
<1>3. (0 + (q + j) * PageSize) \div PageSize = 0 \div PageSize + (q + j)
  BY <1>1, <1>2, AddPages
<1>4. 0 \div PageSize = 0
  BY <1>1
<1>. QED
  BY <1>1, <1>2, <1>3, <1>4 DEF q

\* `map` begins, or panics because there is nothing to map.
LEMMA MapKept ==
  ASSUME Invariant, NEW va \in Nat, NEW pa \in Nat, NEW size \in Nat,
         NEW perm \in Permissions, Map(va, pa, size, perm)
  PROVE  Invariant'
<1>1. tables' = tables /\ done' = done
  BY DEF Map
<1>2. Finished' /\ (\E lev : Tree(tables, lev))'
  BY <1>1 DEF Invariant, Finished
<1>3. Progress'
  <2>1. CASE size = 0
    <3>1. call' = None
      BY <2>1 DEF Map
    <3>. QED
      BY <3>1 DEF Progress
  <2>2. CASE size # 0
    <3>. DEFINE args == [va |-> va, pa |-> pa, size |-> size]
                end == RoundUp(RoundDown(va) + size)
    <3>1. call' = [va |-> RoundDown(va), pa |-> RoundDown(pa), end |-> end, perm |-> perm,
                   args |-> args]
      BY <2>2 DEF Map
    <3>2. args \in Arguments /\ args.va = va /\ args.pa = pa /\ args.size = size
      BY DEF Arguments
    <3>3. RoundDown(va) \in Nat /\ RoundDown(pa) \in Nat
      BY Rounds
    <3>4. end \in Nat
      <4>1. RoundDown(va) + size \in Nat
        BY <3>3
      <4>. QED
        BY <4>1, Rounds
    <3>5. end = RoundUp(RoundDown(args.va) + args.size)
      BY <3>2
    <3>. HIDE DEF args, end
    <3>6. call' \in Calls
      BY <3>1, <3>2, <3>3, <3>4 DEF Calls
    <3>7. /\ call'.end = end /\ call'.args = args /\ call'.va = RoundDown(args.va)
          /\ call'.pa = RoundDown(args.pa)
      BY <3>1, <3>2
    <3>8. /\ 0 \in Nat /\ call'.va = RoundDown(call'.args.va) + 0 * PageSize
          /\ call'.pa = RoundDown(call'.args.pa) + 0 * PageSize
      <4>1. 0 * PageSize = 0
        BY Constants
      <4>. QED
        BY <3>2, <3>3, <3>7, <4>1
    <3>9. \E j \in Nat :
            /\ call'.va = RoundDown(call'.args.va) + j * PageSize
            /\ call'.pa = RoundDown(call'.args.pa) + j * PageSize
            /\ \A k \in 0 .. j - 1 : PageFound(tables', call'.args, call'.perm, k)
      <4>1. \A k \in 0 .. 0 - 1 : PageFound(tables', call'.args, call'.perm, k)
        OBVIOUS
      <4>. QED
        BY <3>8, <4>1
    <3>. QED
      BY <3>5, <3>6, <3>7, <3>9 DEF Progress
  <2>. QED
    BY <2>1, <2>2
<1>. QED
  BY <1>2, <1>3 DEF Invariant

\* A turn of the loop.
LEMMA MapPageKept ==
  ASSUME Invariant, MapPage
  PROVE  Invariant' /\ Grown(tables, tables')
<1>. DEFINE w == Walk(tables, call.va)
            i == Px(0, call.va)
            panics == call.va >= MaxVa \/ Len(w.ts) > MaxTables \/ Remaps(w.ts[w.n + 1][i])
<1>1. PICK lev : Tree(tables, lev)
  BY DEF Invariant
<1>2. tables \in Seq(Tables) /\ done' = done
  BY <1>1 DEF Tree, Levels, MapPage
<1>3. CASE panics
  <2>1. tables' = tables /\ call' = call
    BY <1>3 DEF MapPage
  <2>2. Grown(tables, tables)
    BY <1>2 DEF Grown
  <2>. QED
    BY <1>2, <2>1, <2>2 DEF Invariant, Progress, Finished
<1>4. CASE ~panics
  <2>1. PICK ts, c : ts = tables /\ c = call
    OBVIOUS
  <2>2. c \in Calls /\ c.end = RoundUp(RoundDown(c.args.va) + c.args.size)
    BY <2>1 DEF Invariant, Progress, MapPage
  <2>3. PICK j \in Nat :
          /\ c.va = RoundDown(c.args.va) + j * PageSize
          /\ c.pa = RoundDown(c.args.pa) + j * PageSize
          /\ \A k \in 0 .. j - 1 : PageFound(ts, c.args, c.perm, k)
    BY <2>1 DEF Invariant, Progress, MapPage
  <2>4. c.va \in Nat /\ c.pa \in Nat /\ c.perm \in Permissions
        /\ c.args.va \in Nat /\ c.args.pa \in Nat
    BY <2>2 DEF Calls, Arguments
  <2>5. c.va < MaxVa /\ ~Pte(Walk(ts, c.va).ts, Walk(ts, c.va).n, Px(0, c.va)).valid
    <3>1. MaxVa \in Nat
      <4>1. Fanout * Fanout * Fanout * PageSize \in Nat
        BY Constants
      <4>. QED
        BY <4>1 DEF MaxVa
    <3>2. ~(c.va >= MaxVa) /\ ~Remaps(Pte(Walk(ts, c.va).ts, Walk(ts, c.va).n, Px(0, c.va)))
      BY <1>4, <2>1 DEF Pte
    <3>. QED
      BY <2>4, <3>1, <3>2 DEF Remaps
  <2>6. PICK us : us = [Walk(ts, c.va).ts EXCEPT ![Walk(ts, c.va).n + 1][Px(0, c.va)] =
                          [valid |-> TRUE, pa |-> c.pa, perm |-> c.perm]]
    OBVIOUS
  <2>7. tables' = us /\ call' = [c EXCEPT !.va = @ + PageSize, !.pa = @ + PageSize]
    BY <1>4, <2>1, <2>6 DEF MapPage
  <2>8. PICK va, pa, perm : va = c.va /\ pa = c.pa /\ perm = c.perm
    OBVIOUS
  <2>9. (\E l : Tree(us, l)) /\ Grown(ts, us) /\ Found(us, va \div PageSize, pa, perm)
    <3>1. us = [Walk(ts, va).ts EXCEPT ![Walk(ts, va).n + 1][Px(0, va)] =
                  [valid |-> TRUE, pa |-> pa, perm |-> perm]]
      BY <2>6, <2>8
    <3>2. /\ va \in Nat /\ va < MaxVa /\ pa \in Nat /\ perm \in Permissions
          /\ ~Pte(Walk(ts, va).ts, Walk(ts, va).n, Px(0, va)).valid /\ Tree(ts, lev)
      BY <1>1, <2>1, <2>4, <2>5, <2>8
    <3>. QED
      BY <3>1, <3>2, LeafTree
  <2>10. ASSUME NEW page, NEW q, NEW r, Found(ts, page, q, r)
         PROVE  Found(us, page, q, r)
    BY <1>1, <2>1, <2>9, <2>10, FoundStays
  <2>11. /\ call' \in Calls /\ call'.args = c.args /\ call'.perm = c.perm /\ call'.end = c.end
         /\ call'.va = c.va + PageSize /\ call'.pa = c.pa + PageSize
    <3>1. c.va + PageSize \in Nat /\ c.pa + PageSize \in Nat
      BY <2>4, Constants
    <3>. QED
      BY <2>2, <2>7, <3>1 DEF Calls
  <2>12. /\ call'.va = RoundDown(c.args.va) + (j + 1) * PageSize
         /\ call'.pa = RoundDown(c.args.pa) + (j + 1) * PageSize
    <3>1. (j + 1) * PageSize = j * PageSize + PageSize /\ j * PageSize \in Nat
          /\ PageSize \in Nat
      BY Constants
    <3>2. RoundDown(c.args.va) \in Nat /\ RoundDown(c.args.pa) \in Nat
      BY <2>4, Rounds
    <3>. QED
      BY <2>3, <2>11, <3>1, <3>2
  <2>13. PageFound(us, c.args, c.perm, j)
    <3>1. va \div PageSize = c.args.va \div PageSize + j
      BY <2>3, <2>4, <2>8, PageOf
    <3>. QED
      BY <2>3, <2>8, <2>9, <3>1 DEF PageFound
  <2>14. \A k \in 0 .. (j + 1) - 1 : PageFound(us, c.args, c.perm, k)
    <3>1. SUFFICES ASSUME NEW k \in 0 .. (j + 1) - 1 PROVE PageFound(us, c.args, c.perm, k)
      OBVIOUS
    <3>2. CASE k = j
      BY <2>13, <3>2
    <3>3. CASE k # j
      <4>1. k \in 0 .. j - 1
        BY <3>3
      <4>2. PageFound(ts, c.args, c.perm, k)
        BY <2>3, <4>1
      <4>. QED
        BY <2>10, <4>2 DEF PageFound
    <3>. QED
      BY <3>2, <3>3
  <2>15. Progress'
    <3>1. \E m \in Nat :
            /\ call'.va = RoundDown(call'.args.va) + m * PageSize
            /\ call'.pa = RoundDown(call'.args.pa) + m * PageSize
            /\ \A k \in 0 .. m - 1 : PageFound(tables', call'.args, call'.perm, k)
      <4>1. j + 1 \in Nat
        OBVIOUS
      <4>. QED
        BY <2>7, <2>11, <2>12, <2>14, <4>1
    <3>. QED
      BY <2>2, <2>11, <3>1 DEF Progress
  <2>16. Finished'
    <3>1. SUFFICES ASSUME NEW d \in done
                   PROVE  /\ d \in Returned
                          /\ \A k \in Nat : k * PageSize < d.args.size =>
                               PageFound(us, d.args, d.perm, k)
      BY <1>2, <2>7 DEF Finished
    <3>2. /\ d \in Returned
          /\ \A k \in Nat : k * PageSize < d.args.size => PageFound(ts, d.args, d.perm, k)
      BY <2>1 DEF Invariant, Finished
    <3>. QED
      BY <2>10, <3>2 DEF PageFound
  <2>. QED
    BY <2>1, <2>7, <2>9, <2>15, <2>16 DEF Invariant
<1>. HIDE DEF panics
<1>. QED
  BY <1>3, <1>4

\* `map` returns after the last page.
LEMMA MapReturnsKept ==
  ASSUME Invariant, MapReturns
  PROVE  Invariant'
<1>1. tables' = tables /\ call' = None
      /\ done' = done \cup {[args |-> call.args, perm |-> call.perm]}
  BY DEF MapReturns
<1>2. PICK c, ts : c = call /\ ts = tables
  OBVIOUS
<1>3. c \in Calls /\ c.va = RoundUp(RoundDown(c.args.va) + c.args.size)
  BY <1>2 DEF Invariant, Progress, MapReturns
<1>4. PICK j \in Nat : /\ c.va = RoundDown(c.args.va) + j * PageSize
                       /\ \A k \in 0 .. j - 1 : PageFound(ts, c.args, c.perm, k)
  BY <1>2 DEF Invariant, Progress, MapReturns
<1>5. c.args \in Arguments /\ c.perm \in Permissions /\ c.args.va \in Nat /\ c.args.size \in Nat
  BY <1>3 DEF Calls, Arguments
<1>6. c.args.size <= j * PageSize
  <2>1. RoundDown(c.args.va) \in Nat
    BY <1>5, Rounds
  <2>2. RoundDown(c.args.va) + c.args.size \in Nat
    BY <1>5, <2>1
  <2>3. RoundUp(RoundDown(c.args.va) + c.args.size) >= RoundDown(c.args.va) + c.args.size
        /\ RoundUp(RoundDown(c.args.va) + c.args.size) \in Nat
    BY <2>2, Rounds
  <2>4. j * PageSize \in Nat
    BY Constants
  <2>. QED
    BY <1>3, <1>4, <1>5, <2>1, <2>3, <2>4
<1>7. ASSUME NEW k \in Nat, k * PageSize < c.args.size
      PROVE  PageFound(ts, c.args, c.perm, k)
  <2>1. k < j
    <3>1. SUFFICES ASSUME j <= k PROVE FALSE
      OBVIOUS
    <3>2. j * PageSize <= k * PageSize /\ j * PageSize \in Nat /\ k * PageSize \in Nat
      BY <3>1, Constants, ProductOrder
    <3>. QED
      BY <1>5, <1>6, <1>7, <3>2
  <2>. QED
    BY <1>4, <2>1
<1>8. Finished'
  <2>1. SUFFICES ASSUME NEW d \in done \cup {[args |-> c.args, perm |-> c.perm]}
                 PROVE  /\ d \in Returned
                        /\ \A k \in Nat : k * PageSize < d.args.size =>
                             PageFound(ts, d.args, d.perm, k)
    BY <1>1, <1>2 DEF Finished
  <2>2. CASE d \in done
    BY <1>2, <2>2 DEF Invariant, Finished
  <2>3. CASE d = [args |-> c.args, perm |-> c.perm]
    <3>1. d \in Returned /\ d.args = c.args /\ d.perm = c.perm
      BY <1>5, <2>3 DEF Returned
    <3>. QED
      BY <1>7, <3>1
  <2>. QED
    BY <2>2, <2>3
<1>. QED
  BY <1>1, <1>8 DEF Invariant, Progress

\* A table with nothing but an empty root is a tree.
LEMMA InitKept ==
  ASSUME Init
  PROVE  Invariant
<1>. DEFINE ts == <<EmptyTable>>
            lev == [n \in {0} |-> 2]
<1>1. EmptyTable \in Tables /\ \A i \in Indices : ~EmptyTable[i].valid
  BY DEF EmptyTable, EmptyPte, Tables, Ptes, Indices
<1>2. ts \in Seq(Tables) /\ Len(ts) = 1 /\ ts[1] = EmptyTable /\ Numbers(ts) = {0}
  BY <1>1 DEF Numbers
<1>3. lev \in [Numbers(ts) -> 0 .. 2] /\ lev[0] = 2
  BY <1>2
<1>4. \A n \in Numbers(ts), i \in Indices : ~Pte(ts, n, i).valid
  BY <1>1, <1>2 DEF Pte
<1>. HIDE DEF ts, lev
<1>5. Tree(ts, lev)
  BY <1>2, <1>3, <1>4 DEF Tree, Levels, OneParent
<1>6. tables = ts /\ call = None /\ done = {}
  BY DEF Init, ts
<1>. QED
  BY <1>5, <1>6 DEF Invariant, Progress, Finished

\* A step that changes nothing of the page table keeps the invariant.
LEMMA StutterKept ==
  ASSUME Invariant, UNCHANGED vars
  PROVE  Invariant'
BY DEF Invariant, Progress, Finished, vars

\* In a tree the entries with no permission are those of the two upper levels.
LEMMA InvariantTree ==
  ASSUME Invariant
  PROVE  TablesFormTree
<1>1. PICK lev : Tree(tables, lev)
  BY DEF Invariant
<1>2. tables \in Seq(Tables) /\ Len(tables) \in Nat
  BY <1>1 DEF Tree, Levels
<1>3. ASSUME NEW p \in UpperEntries
      PROVE  /\ p[1] - 1 \in Numbers(tables) /\ p[2] \in Indices
             /\ tables[p[1]][p[2]] = Pte(tables, p[1] - 1, p[2])
             /\ Pte(tables, p[1] - 1, p[2]).valid /\ lev[p[1] - 1] # 0
             /\ Pte(tables, p[1] - 1, p[2]).pa \in 1 .. Len(tables) - 1
             /\ p = <<p[1], p[2]>>
  <2>1. /\ p[1] \in 1 .. Len(tables) /\ p[2] \in Indices /\ p = <<p[1], p[2]>>
        /\ tables[p[1]][p[2]].valid /\ tables[p[1]][p[2]].perm = None
    BY DEF UpperEntries, Indices
  <2>2. p[1] - 1 \in Numbers(tables) /\ (p[1] - 1) + 1 = p[1]
    BY <1>2, <2>1 DEF Numbers
  <2>3. tables[p[1]][p[2]] = Pte(tables, p[1] - 1, p[2])
    BY <2>2 DEF Pte
  <2>4. lev[p[1] - 1] # 0 /\ Pte(tables, p[1] - 1, p[2]).pa \in Numbers(tables) \ {0}
    BY <1>1, <2>1, <2>2, <2>3 DEF Tree, Levels
  <2>5. Pte(tables, p[1] - 1, p[2]).pa \in 1 .. Len(tables) - 1
    BY <1>2, <2>4 DEF Numbers
  <2>. QED
    BY <2>1, <2>2, <2>3, <2>4, <2>5
<1>4. SUFFICES ASSUME NEW p \in UpperEntries, NEW q \in UpperEntries
               PROVE  /\ tables[p[1]][p[2]].pa \in 1 .. Len(tables) - 1
                      /\ tables[p[1]][p[2]].pa = tables[q[1]][q[2]].pa => p = q
  BY DEF TablesFormTree
<1>5. ASSUME tables[p[1]][p[2]].pa = tables[q[1]][q[2]].pa
      PROVE  p = q
  <2>1. p[1] - 1 = q[1] - 1 /\ p[2] = q[2]
    BY <1>1, <1>3, <1>5 DEF Tree, OneParent
  <2>2. p[1] = q[1]
    <3>1. p[1] \in 1 .. Len(tables) /\ q[1] \in 1 .. Len(tables)
      BY DEF UpperEntries
    <3>. QED
      BY <1>2, <2>1, <3>1
  <2>3. p = <<p[1], p[2]>> /\ q = <<q[1], q[2]>>
    BY <1>3
  <2>. QED
    BY <2>1, <2>2, <2>3
<1>. QED
  BY <1>3, <1>5

\* A page that is found is what Translate makes of its addresses.
LEMMA FoundTranslates ==
  ASSUME NEW a \in Nat, NEW pa, NEW perm, Found(tables, a \div PageSize, pa, perm)
  PROVE  Translate(a) = [pa |-> pa + (a % PageSize), perm |-> perm]
<1>. DEFINE page == a \div PageSize
            two == Pte(tables, 0, Top(page))
            one == Pte(tables, two.pa, Middle(page))
            zero == Pte(tables, one.pa, Bottom(page))
<1>1. two.valid /\ one.valid /\ zero.valid /\ zero.pa = pa /\ zero.perm = perm
  BY DEF Found
<1>2. /\ tables[1][page \div (Fanout * Fanout)] = two
      /\ tables[two.pa + 1][(page \div Fanout) % Fanout] = one
      /\ tables[one.pa + 1][page % Fanout] = zero
  <2>1. tables[0 + 1][page \div (Fanout * Fanout)] = two
    BY Zenon DEF Pte, Top
  <2>2. tables[two.pa + 1][(page \div Fanout) % Fanout] = one
    BY Zenon DEF Pte, Middle
  <2>3. tables[one.pa + 1][page % Fanout] = zero
    BY Zenon DEF Pte, Bottom
  <2>4. 0 + 1 = 1
    OBVIOUS
  <2>. QED
    BY <2>1, <2>2, <2>3, <2>4, Zenon
<1>. HIDE DEF two, one, zero
<1>. QED
  BY <1>1, <1>2 DEF Translate

\* A range of whole pages that was found page by page is mapped.
LEMMA InvariantMaps ==
  ASSUME Invariant
  PROVE  MapsAligned
<1>1. SUFFICES ASSUME NEW d \in done, d.args.va % PageSize = 0, d.args.pa % PageSize = 0,
                      NEW k \in 0 .. d.args.size - 1
               PROVE  Translate(d.args.va + k) = [pa |-> d.args.pa + k, perm |-> d.perm]
  BY DEF MapsAligned, Maps
<1>2. /\ d \in Returned
      /\ \A n \in Nat : n * PageSize < d.args.size => PageFound(tables, d.args, d.perm, n)
  BY DEF Invariant, Finished
<1>3. PICK va, pa, size, perm : /\ va = d.args.va /\ pa = d.args.pa
                                /\ size = d.args.size /\ perm = d.perm
  OBVIOUS
<1>4. va \in Nat /\ pa \in Nat /\ size \in Nat /\ k \in Nat /\ k < size
  BY <1>2, <1>3 DEF Returned, Arguments
<1>. DEFINE n == k \div PageSize
            r == k % PageSize
            m == va \div PageSize
<1>5. PageSize \in Nat \ {0}
  BY Constants
<1>6. n \in Nat /\ r \in 0 .. PageSize - 1 /\ k = n * PageSize + r
      /\ m \in Nat /\ va = m * PageSize + (va % PageSize)
  BY <1>4, <1>5, Quotient
<1>7. va % PageSize = 0 /\ pa % PageSize = 0
  BY <1>1, <1>3
<1>8. n * PageSize \in Nat /\ m * PageSize \in Nat
  BY <1>5, <1>6
<1>. HIDE DEF n, r, m
<1>9. va = m * PageSize /\ RoundDown(pa) = pa
  BY <1>4, <1>6, <1>7, <1>8 DEF RoundDown
<1>10. n * PageSize < size
  BY <1>4, <1>6, <1>8
<1>11. Found(tables, m + n, pa + n * PageSize, perm)
  BY <1>2, <1>3, <1>6, <1>9, <1>10 DEF PageFound, m
<1>12. (va + k) \div PageSize = m + n /\ (va + k) % PageSize = r /\ va + k \in Nat
  <2>1. va + k = r + (m + n) * PageSize
    <3>1. (m + n) * PageSize = m * PageSize + n * PageSize
      BY <1>5, <1>6
    <3>. QED
      BY <1>5, <1>6, <1>8, <1>9, <3>1
  <2>2. (r + (m + n) * PageSize) \div PageSize = r \div PageSize + (m + n)
        /\ (r + (m + n) * PageSize) % PageSize = r % PageSize
    <3>1. r \in Nat /\ m + n \in Nat
      BY <1>5, <1>6
    <3>. QED
      BY <1>5, <3>1, AddPages
  <2>3. r \div PageSize = 0 /\ r % PageSize = r
    BY <1>5, <1>6
  <2>. QED
    BY <1>4, <1>6, <2>1, <2>2, <2>3
<1>13. Translate(va + k) = [pa |-> (pa + n * PageSize) + r, perm |-> perm]
  BY <1>11, <1>12, FoundTranslates
<1>14. (pa + n * PageSize) + r = pa + k
  BY <1>4, <1>5, <1>6, <1>8
<1>. QED
  BY <1>3, <1>13, <1>14

\* Every call that AddressSpaces makes has addresses, a size and a permission.
TodoOK == todo \in Seq([va : Nat, pa : Nat, size : Nat, perm : Permissions])

\* kvm_make, init_user_page_table and user_vm_init call `map` with addresses.
LEMMA TodoInit ==
  ASSUME SpacesInit
  PROVE  TodoOK
<1>. DEFINE C == [va : Nat, pa : Nat, size : Nat, perm : Permissions]
<1>1. PageSize \in Nat /\ TRAMPOLINE \in Nat /\ TRAPFRAME \in Nat
  <2>. DEFINE G == Fanout * Fanout
              H == G * Fanout
  <2>1. Fanout \in Nat /\ Fanout >= 2 /\ PageSize \in Nat \ {0}
    BY Constants
  <2>2. G \in Nat /\ G >= 4
    <3>1. 2 * Fanout <= Fanout * Fanout
      BY <2>1, ProductOrder
    <3>. QED
      BY <2>1, <3>1
  <2>. HIDE DEF G
  <2>3. H \in Nat /\ H >= 4
    <3>1. 4 * Fanout <= G * Fanout /\ G * Fanout \in Nat
      BY <2>1, <2>2, ProductOrder
    <3>. QED
      BY <2>1, <3>1
  <2>. HIDE DEF H
  <2>4. H * PageSize \in Nat /\ 4 * PageSize <= H * PageSize
    BY <2>1, <2>3, ProductOrder
  <2>5. MaxVa = (H * PageSize) \div 2
    BY DEF MaxVa, G, H
  <2>6. MaxVa \in Nat /\ 2 * PageSize <= MaxVa
    BY <2>1, <2>4, <2>5
  <2>. QED
    BY <2>1, <2>6 DEF TRAMPOLINE, TRAPFRAME
<1>2. {"RX", "RW", "RXG", "RWG", "RWXU"} \subseteq Permissions
  BY DEF Permissions
<1>3. ASSUME NEW va \in Nat, NEW pa \in Nat, NEW size \in Nat, NEW perm \in Permissions
      PROVE  MapCall(va, pa, size, perm) \in C
  BY DEF MapCall
<1>4. {KernelBase, MemEnd, MmioBase, MmioLen, PlicBase, PlicLen, TrampolinePa, InitPage}
        \subseteq Nat
  BY SpacesAssumption
<1>. HIDE DEF C
<1>5. ASSUME NEW text \in Etexts
      PROVE  KernelMaps(text) \in Seq(C)
  <2>1. text \in Nat /\ text - KernelBase \in Nat /\ MemEnd - text \in Nat
    <3>1. text \in Nat /\ KernelBase <= TrampolinePa /\ TrampolinePa < text /\ text <= MemEnd
      BY SpacesAssumption
    <3>. QED
      BY <1>4, <3>1
  <2>2. /\ MapCall(KernelBase, KernelBase, text - KernelBase, "RX") \in C
        /\ MapCall(text, text, MemEnd - text, "RW") \in C
        /\ MapCall(TRAMPOLINE, TrampolinePa, PageSize, "RXG") \in C
        /\ MapCall(MmioBase, MmioBase, MmioLen, "RW") \in C
        /\ MapCall(PlicBase, PlicBase, PlicLen, "RWG") \in C
    BY <1>1, <1>2, <1>3, <1>4, <2>1
  <2>. QED
    BY <2>2 DEF KernelMaps
<1>6. ASSUME NEW f \in TrapFrames
      PROVE  InitUserPageTable(f) \o UserVmInit \in Seq(C)
  <2>1. f \in Nat
    BY SpacesAssumption
  <2>2. /\ MapCall(TRAMPOLINE, TrampolinePa, PageSize, "RX") \in C
        /\ MapCall(TRAPFRAME, f, PageSize, "RW") \in C
        /\ MapCall(0, InitPage, PageSize, "RWXU") \in C
    BY <1>1, <1>2, <1>3, <1>4, <2>1
  <2>3. InitUserPageTable(f) \in Seq(C) /\ UserVmInit \in Seq(C)
    BY <2>2 DEF InitUserPageTable, UserVmInit
  <2>. QED
    BY <2>3
<1>7. <<>> \in Seq(C)
  OBVIOUS
<1>. QED
  BY <1>5, <1>6, <1>7 DEF SpacesInit, TodoOK, C

\* A step of `map`, called at will.
LEMMA NextKept ==
  ASSUME Invariant, [Next]_vars
  PROVE  Invariant'
<1>1. ASSUME NEW va \in Vas, NEW pa \in Pas, NEW size \in Sizes, NEW perm \in Perms,
             Map(va, pa, size, perm)
      PROVE  Invariant'
  <2>1. va \in Nat /\ pa \in Nat /\ size \in Nat /\ perm \in Permissions
    BY PageTableAssumption DEF Permissions
  <2>. QED
    BY <1>1, <2>1, MapKept
<1>. QED
  BY <1>1, MapPageKept, MapReturnsKept, StutterKept DEF Next

\* A step of the kernel that makes an address space.
LEMMA SpacesNextKept ==
  ASSUME Invariant, TodoOK, [SpacesNext]_<<vars, spaceVars, todo>>
  PROVE  Invariant' /\ TodoOK'
<1>. DEFINE C == [va : Nat, pa : Nat, size : Nat, perm : Permissions]
<1>1. CASE CallMap
  <2>1. PICK c : c = Head(todo)
    OBVIOUS
  <2>2. c \in C /\ Tail(todo) \in Seq(C)
    <3>. HIDE DEF C
    <3>1. todo \in Seq(C) /\ todo # <<>>
      BY <1>1 DEF CallMap, TodoOK, C
    <3>. QED
      BY <2>1, <3>1
  <2>3. Map(c.va, c.pa, c.size, c.perm) /\ todo' = Tail(todo)
    BY <1>1, <2>1 DEF CallMap
  <2>4. PICK va, pa, size, perm : va = c.va /\ pa = c.pa /\ size = c.size /\ perm = c.perm
    OBVIOUS
  <2>5. Map(va, pa, size, perm) /\ va \in Nat /\ pa \in Nat /\ size \in Nat
        /\ perm \in Permissions
    BY <2>2, <2>3, <2>4
  <2>6. Invariant'
    BY <2>5, MapKept
  <2>. QED
    BY <2>2, <2>3, <2>6 DEF TodoOK
<1>2. CASE CallAnyMap
  <2>1. Next /\ todo' = todo
    BY <1>2 DEF CallAnyMap, Next
  <2>. QED
    BY <2>1, NextKept DEF TodoOK
<1>3. CASE MapPage /\ UNCHANGED <<spaceVars, todo>>
  BY <1>3, MapPageKept DEF TodoOK
<1>4. CASE MapReturns /\ UNCHANGED <<spaceVars, todo>>
  BY <1>4, MapReturnsKept DEF TodoOK
<1>5. CASE UNCHANGED <<vars, spaceVars, todo>>
  BY <1>5, StutterKept DEF TodoOK
<1>. QED
  BY <1>1, <1>2, <1>3, <1>4, <1>5 DEF SpacesNext

-----------------------------------------------------------------------------
\* However `map` is called, by kvm_make, for the first task or at will, no two entries
\* of the tables that walk creates lead to the same table and none leads to the root.
THEOREM TablesAreTree == (Spec => []TablesFormTree) /\ (SpacesSpec => []TablesFormTree)
<1>1. Spec => []Invariant
  BY InitKept, NextKept, PTL DEF Spec
<1>2. SpacesSpec => [](Invariant /\ TodoOK)
  <2>1. SpacesInit => Invariant /\ TodoOK
    BY InitKept, TodoInit DEF SpacesInit
  <2>. QED
    BY <2>1, SpacesNextKept, PTL DEF SpacesSpec
<1>. QED
  BY <1>1, <1>2, InvariantTree, PTL

\* A call of `map` with page-aligned addresses that returned has mapped each address of
\* its range to its place, with the permission asked for, and no later call, whether it
\* returns or panics, changes that.
THEOREM RangesAreMapped == (Spec => []MapsAligned) /\ (SpacesSpec => []MapsAligned)
<1>1. Spec => []Invariant
  BY InitKept, NextKept, PTL DEF Spec
<1>2. SpacesSpec => [](Invariant /\ TodoOK)
  <2>1. SpacesInit => Invariant /\ TodoOK
    BY InitKept, TodoInit DEF SpacesInit
  <2>. QED
    BY <2>1, SpacesNextKept, PTL DEF SpacesSpec
<1>. QED
  BY <1>1, <1>2, InvariantMaps, PTL

\* A page the hart finds stays where it is, with its permission, in every step of `map`:
\* also in the middle of a call, and for ranges that are not aligned.
THEOREM TranslationsStay ==
  Spec => [][\A page \in Pages, pa \in Nat, perm \in Permissions :
               Found(tables, page, pa, perm) => Found(tables', page, pa, perm)]_tables
<1>. DEFINE Stays == \A page \in Pages, pa \in Nat, perm \in Permissions :
                       Found(tables, page, pa, perm) => Found(tables', page, pa, perm)
<1>1. Spec => []Invariant
  BY InitKept, NextKept, PTL DEF Spec
<1>2. ASSUME Invariant, [Next]_vars
      PROVE  [Stays]_tables
  <2>1. CASE tables' = tables
    BY <2>1
  <2>2. CASE tables' # tables
    <3>1. MapPage
      BY <1>2, <2>2 DEF Next, Map, MapReturns, vars
    <3>2. Grown(tables, tables')
      BY <1>2, <3>1, MapPageKept
    <3>3. PICK lev : Tree(tables, lev)
      BY <1>2 DEF Invariant
    <3>4. PICK ts, us : ts = tables /\ us = tables'
      OBVIOUS
    <3>5. \A page, pa, perm : Found(ts, page, pa, perm) => Found(us, page, pa, perm)
      BY <3>2, <3>3, <3>4, FoundStays
    <3>. QED
      BY <3>4, <3>5
  <2>. QED
    BY <2>1, <2>2
<1>. QED
  BY <1>1, <1>2, PTL DEF Spec
=============================================================================
