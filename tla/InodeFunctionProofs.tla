------------------------- MODULE InodeFunctionProofs -------------------------
(***************************************************************************)
(* What the functions of fs.c do in InodeBlocks: the places of block         *)
(* pointers, balloc and bmap, the loops of readi and writei, and the         *)
(* invariant followed through ilock, iget, itrunc, iput, readi and writei.   *)
(***************************************************************************)
EXTENDS InodeBlocks, FiniteSetTheorems, WellFoundedInduction, TLAPS

-----------------------------------------------------------------------------
(* Places *)

LEMMA Sizes ==
    /\ NDIRECT \in Nat \ {0} /\ NINDIRECT \in Nat \ {0} /\ NBLOCKS \in Nat \ {0}
    /\ BSIZE = NINDIRECT /\ NINDIRECT * NINDIRECT \in Nat
    /\ MAXFILE = NDIRECT + NINDIRECT + NINDIRECT * NINDIRECT /\ MAXFILE \in Nat
    /\ MAXFILE * BSIZE \in Nat /\ MAXFILE * BSIZE = NINDIRECT * MAXFILE
BY InodeAssumption DEF BSIZE, MAXFILE

LEMMA PlaceIs ==
    /\ \A k \in 0 .. NDIRECT + 1 : <<k, Here, Here>> \in Place
    /\ \A k \in NDIRECT .. NDIRECT + 1, l \in 0 .. NINDIRECT - 1 : <<k, l, Here>> \in Place
    /\ \A l, m \in 0 .. NINDIRECT - 1 : <<NDIRECT + 1, l, m>> \in Place
BY Sizes DEF Place, Here

LEMMA PlaceCases ==
    ASSUME NEW p \in Place
    PROVE  \/ \E k \in 0 .. NDIRECT + 1 : p = <<k, Here, Here>>
           \/ \E k \in NDIRECT .. NDIRECT + 1, l \in 0 .. NINDIRECT - 1 : p = <<k, l, Here>>
           \/ \E l, m \in 0 .. NINDIRECT - 1 : p = <<NDIRECT + 1, l, m>>
<1>1. PICK k \in 0 .. NDIRECT + 1, l \in Here .. NINDIRECT - 1, m \in Here .. NINDIRECT - 1 :
        p = <<k, l, m>>
  BY DEF Place
<1>2. (l # Here => k >= NDIRECT) /\ (m # Here => k > NDIRECT /\ l # Here)
  BY <1>1 DEF Place
<1>3. CASE l = Here
  BY <1>1, <1>2, <1>3
<1>4. CASE l # Here /\ m = Here
  <2>1. k \in NDIRECT .. NDIRECT + 1 /\ l \in 0 .. NINDIRECT - 1
    BY <1>1, <1>2, <1>4, Sizes DEF Here
  <2>2. QED BY <1>1, <1>4, <2>1
<1>5. CASE l # Here /\ m # Here
  <2>1. k = NDIRECT + 1 /\ l \in 0 .. NINDIRECT - 1 /\ m \in 0 .. NINDIRECT - 1
    BY <1>1, <1>2, <1>5, Sizes DEF Here
  <2>2. QED BY <1>1, <2>1
<1>6. QED BY <1>3, <1>4, <1>5

\* Following a path of one, two and three pointers.
LEMMA PtrIs1 == ASSUME NEW c, NEW ino, NEW k PROVE Ptr(c, ino, <<k, Here, Here>>) = ino.addrs[k]
BY DEF Ptr

LEMMA PtrIs2 ==
    ASSUME NEW c, NEW ino, NEW k, NEW l \in 0 .. NINDIRECT - 1
    PROVE  Ptr(c, ino, <<k, l, Here>>) = At(c, ino.addrs[k], l)
BY Sizes DEF Ptr, Here

LEMMA PtrIs3 ==
    ASSUME NEW c, NEW ino, NEW k, NEW l \in 0 .. NINDIRECT - 1, NEW m \in 0 .. NINDIRECT - 1
    PROVE  Ptr(c, ino, <<k, l, m>>) = At(c, Ptr(c, ino, <<k, l, Here>>), m)
BY Sizes DEF Ptr, Here

\* Places of data blocks; what is there is never read as pointers.
IsData(p) == p[1] < NDIRECT \/ (p[1] = NDIRECT /\ p[2] # Here) \/ p[3] # Here

LEMMA Quotient ==
    ASSUME NEW a \in Nat, NEW m \in Nat \ {0}
    PROVE  a \div m \in Nat /\ a % m \in 0 .. m - 1 /\ a = m * (a \div m) + (a % m)
OBVIOUS

LEMMA QuotientBelow ==
    ASSUME NEW m \in Nat \ {0}, NEW n \in Nat, NEW a \in Nat, a < m * n
    PROVE  a \div m \in 0 .. n - 1
<1> DEFINE q == a \div m
<1>1. q \in Nat /\ a >= m * q
  BY Quotient
<1> HIDE DEF q
<1>2. ASSUME q >= n PROVE FALSE
  <2>1. m * q >= m * n
    BY <1>1, <1>2
  <2>2. m * q \in Nat /\ m * n \in Nat
    BY <1>1
  <2>3. QED BY <1>1, <2>1, <2>2
<1>3. QED BY <1>1, <1>2 DEF q

\* bmap looks at a place of data, and at another one for every block.
LEMMA DataPlaceTyped ==
    ASSUME NEW bn \in 0 .. MAXFILE - 1
    PROVE  DataPlace(bn) \in Place /\ IsData(DataPlace(bn))
<1>1. CASE bn < NDIRECT
  BY <1>1, Sizes, PlaceIs DEF DataPlace, IsData
<1>2. CASE bn - NDIRECT \in 0 .. NINDIRECT - 1
  <2>1. DataPlace(bn) = <<NDIRECT, bn - NDIRECT, Here>>
    BY <1>2, Sizes DEF DataPlace
  <2>2. QED BY <1>2, <2>1, Sizes, PlaceIs DEF IsData, Here
<1>3. CASE bn - NDIRECT >= NINDIRECT
  <2> DEFINE n2 == bn - NDIRECT - NINDIRECT
  <2>1. n2 \in Nat /\ n2 < NINDIRECT * NINDIRECT
    BY <1>3, Sizes
  <2>2. n2 \div NINDIRECT \in 0 .. NINDIRECT - 1 /\ n2 % NINDIRECT \in 0 .. NINDIRECT - 1
    BY <2>1, Sizes, Quotient, QuotientBelow
  <2>3. DataPlace(bn) = <<NDIRECT + 1, n2 \div NINDIRECT, n2 % NINDIRECT>>
    BY <1>3, Sizes DEF DataPlace
  <2> HIDE DEF n2
  <2>4. QED BY <2>2, <2>3, Sizes, PlaceIs DEF IsData, Here
<1>4. QED BY <1>1, <1>2, <1>3, Sizes

LEMMA DataPlaceInjective ==
    ASSUME NEW bn \in 0 .. MAXFILE - 1, NEW cn \in 0 .. MAXFILE - 1, DataPlace(bn) = DataPlace(cn)
    PROVE  bn = cn
<1>1. ASSUME NEW x \in 0 .. MAXFILE - 1
      PROVE  /\ x < NDIRECT => DataPlace(x) = <<x, Here, Here>>
             /\ x >= NDIRECT /\ x - NDIRECT < NINDIRECT => DataPlace(x) = <<NDIRECT, x - NDIRECT, Here>>
             /\ x >= NDIRECT /\ x - NDIRECT >= NINDIRECT =>
                  DataPlace(x) = <<NDIRECT + 1, (x - NDIRECT - NINDIRECT) \div NINDIRECT,
                                   (x - NDIRECT - NINDIRECT) % NINDIRECT>>
  BY Sizes DEF DataPlace
<1>2. CASE bn < NDIRECT
  BY <1>1, <1>2, Sizes
<1>3. CASE bn >= NDIRECT /\ bn - NDIRECT < NINDIRECT
  BY <1>1, <1>3, Sizes
<1>4. CASE bn >= NDIRECT /\ bn - NDIRECT >= NINDIRECT
  <2> DEFINE b == bn - NDIRECT - NINDIRECT  c == cn - NDIRECT - NINDIRECT
  <2>1. cn >= NDIRECT /\ cn - NDIRECT >= NINDIRECT
    BY <1>1, <1>4, Sizes
  <2>2. b \in Nat /\ c \in Nat
    BY <1>4, <2>1, Sizes
  <2>3. b \div NINDIRECT = c \div NINDIRECT /\ b % NINDIRECT = c % NINDIRECT
    BY <1>1, <1>4, <2>1
  <2>4. b = NINDIRECT * (b \div NINDIRECT) + (b % NINDIRECT)
        /\ c = NINDIRECT * (c \div NINDIRECT) + (c % NINDIRECT)
    <3> HIDE DEF b, c
    <3>1. QED BY <2>2, Quotient, Sizes
  <2>5. b = c
    <3> HIDE DEF b, c
    <3>1. QED BY <2>3, <2>4
  <2>6. QED BY <2>5, Sizes
<1>5. QED BY <1>2, <1>3, <1>4, Sizes

-----------------------------------------------------------------------------
(* Allocation *)

Cell == Word \cup (0 .. NBLOCKS) \cup Inum
BlockWords == [Block -> [0 .. NINDIRECT - 1 -> Cell]]
Handle == [used : SUBSET Block, content : BlockWords, ino : InodeType, addr : 0 .. NBLOCKS, panic : BOOLEAN]

Addrs == [0 .. NDIRECT + 1 -> 0 .. NBLOCKS]
FileSize == 0 .. MAXFILE * BSIZE

LEMMA InodeTypeIs == InodeType = [type : 0 .. 2, nlink : 0 .. 1, size : FileSize, addrs : Addrs]
BY DEF InodeType, FileSize, Addrs

\* What the pointer at place p of the inode that h leads to is.
P(h, p) == Ptr(h.content, h.ino, p)

\* The blocks of the inode are marked and met once, and are none of the blocks
\* in O, which others own.
Owned(h, O) ==
    /\ h \in Handle /\ O \subseteq h.used
    /\ \A p \in Place : P(h, p) # 0 => P(h, p) \in h.used \ O
    /\ \A p, q \in Place : P(h, p) = P(h, q) /\ P(h, p) # 0 => p = q

SameButAddrs(i1, i2) == i1.type = i2.type /\ i1.nlink = i2.nlink /\ i1.size = i2.size

\* From h to g pointers were filled in, with blocks that were free, and the
\* blocks in O have not changed.
Grew(h, g, O) ==
    /\ h.used \subseteq g.used /\ g.panic = h.panic /\ SameButAddrs(g.ino, h.ino)
    /\ \A b \in O : g.content[b] = h.content[b]
    /\ \A p \in Place : P(h, p) # 0 => P(g, p) = P(h, p)
    /\ \A b \in g.used \ h.used : \E p \in Place : P(g, p) = b

\* And neither has the data of the file; new data blocks are zero.
Filled(h, g, O) ==
    /\ Grew(h, g, O)
    /\ \A p \in Place : P(h, p) # 0 /\ IsData(p) => g.content[P(h, p)] = h.content[P(h, p)]
    /\ \A p \in Place : P(h, p) = 0 /\ P(g, p) # 0 /\ IsData(p) => g.content[P(g, p)] = ZeroBlock

LEMMA FilledSelf == ASSUME NEW h, NEW O PROVE Filled(h, h, O)
BY DEF Filled, Grew, SameButAddrs

LEMMA GrewTwice ==
    ASSUME NEW h, NEW g, NEW f, NEW O, Owned(h, O), Owned(g, O), Owned(f, O),
           Grew(h, g, O), Grew(g, f, O)
    PROVE  Grew(h, f, O)
<1>1. \A p \in Place : P(h, p) # 0 => P(f, p) = P(h, p) /\ P(g, p) = P(h, p)
  BY DEF Grew
<1>2. \A p \in Place : P(g, p) # 0 => P(f, p) = P(g, p)
  BY DEF Grew
<1>3. \A b \in f.used \ h.used : \E p \in Place : P(f, p) = b
  <2>1. ASSUME NEW b \in f.used \ h.used PROVE \E p \in Place : P(f, p) = b
    <3>1. CASE b \in g.used
      <4>1. PICK p \in Place : P(g, p) = b
        BY <2>1, <3>1 DEF Grew
      <4>2. b # 0
        BY <3>1 DEF Owned, Handle, Block
      <4>3. QED BY <1>2, <4>1, <4>2
    <3>2. CASE b \notin g.used
      BY <2>1, <3>2 DEF Grew
    <3>3. QED BY <3>1, <3>2
  <2>2. QED BY <2>1
<1>4. QED BY <1>1, <1>3 DEF Grew, SameButAddrs

LEMMA FilledTwice ==
    ASSUME NEW h, NEW g, NEW f, NEW O, Owned(h, O), Owned(g, O), Owned(f, O),
           Filled(h, g, O), Filled(g, f, O)
    PROVE  Filled(h, f, O)
<1>1. \A p \in Place : P(h, p) # 0 => P(f, p) = P(h, p) /\ P(g, p) = P(h, p)
  BY DEF Filled, Grew
<1>2. Grew(h, f, O)
  BY GrewTwice DEF Filled
<1>4. \A p \in Place : P(h, p) # 0 /\ IsData(p) => f.content[P(h, p)] = h.content[P(h, p)]
  <2>1. ASSUME NEW p \in Place, P(h, p) # 0, IsData(p) PROVE f.content[P(h, p)] = h.content[P(h, p)]
    <3>1. P(g, p) = P(h, p) /\ P(g, p) # 0
      BY <1>1, <2>1
    <3>2. f.content[P(g, p)] = g.content[P(g, p)] /\ g.content[P(h, p)] = h.content[P(h, p)]
      BY <2>1, <3>1 DEF Filled
    <3>3. QED BY <3>1, <3>2
  <2>2. QED BY <2>1
<1>5. ASSUME NEW p \in Place, P(h, p) = 0, P(f, p) # 0, IsData(p) PROVE f.content[P(f, p)] = ZeroBlock
  <2>1. CASE P(g, p) = 0
    BY <1>5, <2>1 DEF Filled
  <2>2. CASE P(g, p) # 0
    <3>1. P(f, p) = P(g, p)
      BY <2>2 DEF Filled, Grew
    <3>2. f.content[P(g, p)] = g.content[P(g, p)] /\ g.content[P(g, p)] = ZeroBlock
      BY <1>5, <2>2 DEF Filled
    <3>3. QED BY <3>1, <3>2
  <2>3. QED BY <2>1, <2>2
<1>6. QED BY <1>2, <1>4, <1>5 DEF Filled

\* A free block, zeroed, becomes the pointer at a place where there was none.
LEMMA OneMore ==
    ASSUME NEW h, NEW g \in Handle, NEW O, Owned(h, O), NEW b \in Block \ h.used, NEW r \in Place,
           P(h, r) = 0, g.used = h.used \cup {b}, g.panic = h.panic, SameButAddrs(g.ino, h.ino),
           g.content[b] = ZeroBlock,
           \A q \in Place : P(g, q) = IF q = r THEN b ELSE P(h, q),
           \A x \in O : g.content[x] = h.content[x],
           \A p \in Place : P(h, p) # 0 /\ IsData(p) => g.content[P(h, p)] = h.content[P(h, p)]
    PROVE  Owned(g, O) /\ Filled(h, g, O)
<1>1. b # 0 /\ b \notin O
  BY DEF Block, Owned
<1>2. \A p \in Place : P(h, p) # b
  BY <1>1 DEF Owned
<1>3. Filled(h, g, O)
  BY DEF Filled, Grew
<1>4. Owned(g, O)
  <2>1. \A p \in Place : P(g, p) # 0 => P(g, p) \in g.used \ O
    BY <1>1 DEF Owned
  <2>2. \A p, q \in Place : P(g, p) = P(g, q) /\ P(g, p) # 0 => p = q
    BY <1>1, <1>2 DEF Owned
  <2>3. QED BY <2>1, <2>2 DEF Owned
<1>5. QED BY <1>3, <1>4

\* The least element of a set, which the searches find.
LEMMA LeastIn ==
    ASSUME NEW S \in SUBSET Nat, IsFiniteSet(S), S # {}
    PROVE  Least(S) \in S /\ \A y \in S : Least(S) <= y
<1> DEFINE Below(x) == {y \in S : y < x}
           T == {Below(x) : x \in S}
<1>1. T \subseteq FiniteSubsetsOf(S) /\ T # {}
  <2>1. ASSUME NEW x \in S PROVE Below(x) \in SUBSET S /\ IsFiniteSet(Below(x))
    BY FS_Subset
  <2>2. QED BY <2>1 DEF FiniteSubsetsOf
<1>2. PICK U \in T : \A V \in T : ~(<<V, U>> \in StrictSubsetOrdering(S))
  <2> HIDE DEF T
  <2>1. QED BY <1>1, FS_StrictSubsetOrderingWellFounded, WFMin
<1>3. PICK x \in S : U = Below(x)
  OBVIOUS
<1>4. ASSUME NEW y \in S, ~(x <= y) PROVE FALSE
  <2>0. x \in Nat /\ y \in Nat /\ y < x
    BY <1>4
  <2>1. \A z \in S : z < y => z < x
    BY <2>0
  <2>2. <<Below(y), Below(x)>> \in StrictSubsetOrdering(S)
    <3>1. Below(y) \subseteq Below(x)
      BY <2>1
    <3>2. y \in Below(x) /\ y \notin Below(y)
      BY <2>0
    <3>3. QED BY <3>1, <3>2 DEF StrictSubsetOrdering
  <2>3. QED BY <2>2, <1>2, <1>3
<1>5. QED BY <1>4 DEF Least

LEMMA LeastUpTo ==
    ASSUME NEW a \in Nat, NEW b \in Int, NEW S \in SUBSET (a .. b), S # {}
    PROVE  Least(S) \in S /\ \A y \in S : Least(S) <= y
<1>1. IsFiniteSet(a .. b)
  BY FS_Interval
<1>2. IsFiniteSet(S)
  BY <1>1, FS_Subset
<1>3. S \subseteq Nat
  OBVIOUS
<1>4. QED BY <1>2, <1>3, LeastIn

ZeroedBlock(c, b) == [c EXCEPT ![b] = ZeroBlock]

\* balloc returns a free block, zeroed, unless there is none.
LEMMA BallocFacts ==
    ASSUME NEW h \in Handle
    PROVE  \/ h.used = Block /\ balloc(h) = [h EXCEPT !.addr = 0]
           \/ \E b \in Block \ h.used :
                balloc(h) = [used |-> h.used \cup {b}, content |-> ZeroedBlock(h.content, b),
                             ino |-> h.ino, addr |-> b, panic |-> h.panic]
<1>1. CASE Block \subseteq h.used
  BY <1>1 DEF balloc, Handle
<1>2. CASE ~(Block \subseteq h.used)
  <2> DEFINE b == Least(Block \ h.used)
  <2>1. b \in Block \ h.used
    <3>1. Block \ h.used \in SUBSET (1 .. NBLOCKS) /\ Block \ h.used # {} /\ NBLOCKS \in Int
      BY <1>2, Sizes DEF Block
    <3>2. QED BY <3>1, LeastUpTo
  <2>2. balloc(h) = [h EXCEPT !.used = @ \cup {b}, !.content[b] = ZeroBlock, !.addr = b]
    BY <1>2 DEF balloc
  <2> HIDE DEF b
  <2>3. balloc(h) = [used |-> h.used \cup {b}, content |-> ZeroedBlock(h.content, b),
                     ino |-> h.ino, addr |-> b, panic |-> h.panic]
    BY <2>2 DEF Handle, ZeroedBlock
  <2>4. QED BY <2>1, <2>3
<1>3. QED BY <1>1, <1>2

-----------------------------------------------------------------------------
(* bmap *)

\* Pointers do not change when the indirect blocks do not.
LEMMA PtrKept ==
    ASSUME NEW c, NEW d, NEW ino,
           \A q \in Place : Ptr(c, ino, q) # 0 /\ ~IsData(q) => d[Ptr(c, ino, q)] = c[Ptr(c, ino, q)]
    PROVE  \A p \in Place : Ptr(d, ino, p) = Ptr(c, ino, p)
<1>1. ASSUME NEW k \in 0 .. NDIRECT + 1
      PROVE  Ptr(d, ino, <<k, Here, Here>>) = Ptr(c, ino, <<k, Here, Here>>)
  BY PtrIs1
<1>2. ASSUME NEW k \in NDIRECT .. NDIRECT + 1, NEW l \in 0 .. NINDIRECT - 1
      PROVE  Ptr(d, ino, <<k, l, Here>>) = Ptr(c, ino, <<k, l, Here>>)
  <2> DEFINE q == <<k, Here, Here>>
  <2>1. q \in Place /\ ~IsData(q)
    BY PlaceIs, Sizes DEF IsData
  <2>2. Ptr(c, ino, q) = ino.addrs[k]
    BY PtrIs1
  <2>3. ino.addrs[k] # 0 => d[ino.addrs[k]] = c[ino.addrs[k]]
    <3> HIDE DEF q
    <3>1. QED BY <2>1, <2>2
  <2>4. At(d, ino.addrs[k], l) = At(c, ino.addrs[k], l)
    BY <2>3 DEF At
  <2>5. QED BY <2>4, PtrIs2
<1>3. ASSUME NEW l \in 0 .. NINDIRECT - 1, NEW m \in 0 .. NINDIRECT - 1
      PROVE  Ptr(d, ino, <<NDIRECT + 1, l, m>>) = Ptr(c, ino, <<NDIRECT + 1, l, m>>)
  <2> DEFINE q == <<NDIRECT + 1, l, Here>>
  <2>0. NDIRECT + 1 \in NDIRECT .. NDIRECT + 1
    BY Sizes
  <2>1. q \in Place /\ ~IsData(q)
    BY <2>0, PlaceIs, Sizes DEF IsData
  <2>2. Ptr(d, ino, q) = Ptr(c, ino, q)
    BY <1>2, <2>0
  <2>3. Ptr(c, ino, q) # 0 => d[Ptr(c, ino, q)] = c[Ptr(c, ino, q)]
    BY <2>1
  <2>4. At(d, Ptr(d, ino, q), m) = At(c, Ptr(c, ino, q), m)
    BY <2>2, <2>3 DEF At
  <2>5. QED BY <2>4, PtrIs3
<1>4. QED BY <1>1, <1>2, <1>3, PlaceCases

\* Handles of the same inode and disk.
LEMMA OnlyAddr ==
    ASSUME NEW h, NEW g \in Handle, NEW O, Owned(h, O),
           g.used = h.used, g.content = h.content, g.ino = h.ino, g.panic = h.panic
    PROVE  Owned(g, O) /\ Filled(h, g, O) /\ \A p : P(g, p) = P(h, p)
<1>1. \A p : P(g, p) = P(h, p)
  BY DEF P
<1>2. Owned(g, O)
  BY <1>1 DEF Owned
<1>3. Filled(h, g, O)
  BY <1>1 DEF Filled, Grew, SameButAddrs
<1>4. QED BY <1>1, <1>2, <1>3

LEMMA ZeroTyped == ZeroBlock \in [0 .. NINDIRECT - 1 -> Cell] /\ \A k \in 0 .. NINDIRECT - 1 : ZeroBlock[k] = 0
BY Sizes DEF ZeroBlock, Cell

LEMMA AddrOfFacts ==
    ASSUME NEW h, NEW O, Owned(h, O), NEW k \in 0 .. NDIRECT + 1
    PROVE  LET g == AddrOf(h, k)
           IN  Owned(g, O) /\ Filled(h, g, O) /\ g.addr = P(g, <<k, Here, Here>>)
<1> DEFINE g == AddrOf(h, k)  r == <<k, Here, Here>>  a == h.ino.addrs[k]
<1>1. h \in Handle /\ h.ino \in InodeType /\ h.content \in BlockWords /\ h.used \subseteq Block /\ a \in 0 .. NBLOCKS
  BY DEF Owned, Handle, InodeType
<1>2. r \in Place /\ P(h, r) = a
  BY PlaceIs, PtrIs1 DEF P
<1>3. CASE a # 0
  <2>1. g = [h EXCEPT !.addr = a]
    BY <1>3 DEF AddrOf
  <2>2. g \in Handle /\ g.used = h.used /\ g.content = h.content /\ g.ino = h.ino /\ g.panic = h.panic /\ g.addr = a
    BY <1>1, <2>1 DEF Handle
  <2> HIDE DEF g, r, a
  <2>3. Owned(g, O) /\ Filled(h, g, O) /\ P(g, r) = P(h, r)
    BY <2>2, OnlyAddr
  <2>4. QED BY <1>2, <2>2, <2>3 DEF g, r
<1>4. CASE a = 0 /\ balloc(h) = [h EXCEPT !.addr = 0]
  <2>1. g = [[h EXCEPT !.addr = 0] EXCEPT !.ino = [h.ino EXCEPT !.addrs[k] = 0]]
    BY <1>1, <1>4 DEF AddrOf, Handle
  <2>2. [h.ino EXCEPT !.addrs[k] = 0] = h.ino
    BY <1>1, <1>4 DEF InodeType
  <2> HIDE DEF g
  <2>3. g \in Handle /\ g.used = h.used /\ g.content = h.content /\ g.ino = h.ino /\ g.panic = h.panic /\ g.addr = 0
    <3>1. g = [[h EXCEPT !.addr = 0] EXCEPT !.ino = h.ino]
      BY <2>1, <2>2
    <3> HIDE DEF a, r
    <3>2. g = [used |-> h.used, content |-> h.content, ino |-> h.ino, addr |-> 0, panic |-> h.panic]
      BY <1>1, <3>1 DEF Handle
    <3>3. 0 \in 0 .. NBLOCKS
      BY Sizes
    <3>4. QED BY <1>1, <3>2, <3>3 DEF Handle
  <2> HIDE DEF g, r
  <2>4. Owned(g, O) /\ Filled(h, g, O) /\ P(g, r) = P(h, r)
    BY <2>3, OnlyAddr
  <2>5. QED BY <1>2, <1>4, <2>3, <2>4 DEF g, r
<1>5. ASSUME a = 0, NEW b \in Block \ h.used,
             balloc(h) = [used |-> h.used \cup {b}, content |-> ZeroedBlock(h.content, b),
                          ino |-> h.ino, addr |-> b, panic |-> h.panic]
      PROVE  Owned(g, O) /\ Filled(h, g, O) /\ g.addr = P(g, r)
  <2> DEFINE c == ZeroedBlock(h.content, b)  ino == [h.ino EXCEPT !.addrs[k] = b]
  <2>1. b \in 1 .. NBLOCKS /\ b # 0
    BY DEF Block
  <2>2. g = [used |-> h.used \cup {b}, content |-> c, ino |-> ino, addr |-> b, panic |-> h.panic]
    BY <1>5 DEF AddrOf
  <2>3. /\ c \in BlockWords /\ c[b] = ZeroBlock /\ \A x \in Block : x # b => c[x] = h.content[x]
    BY <1>1, ZeroTyped DEF ZeroedBlock, BlockWords
  <2>4. /\ ino \in InodeType /\ SameButAddrs(ino, h.ino) /\ ino.addrs[k] = b
        /\ \A j \in 0 .. NDIRECT + 1 : j # k => ino.addrs[j] = h.ino.addrs[j]
    <3>1. h.ino.addrs \in Addrs /\ [h.ino.addrs EXCEPT ![k] = b] \in Addrs
      BY <1>1, <2>1, InodeTypeIs DEF Addrs
    <3>2. ino = [h.ino EXCEPT !.addrs = [h.ino.addrs EXCEPT ![k] = b]]
      OBVIOUS
    <3>3. ino.addrs = [h.ino.addrs EXCEPT ![k] = b] /\ ino \in InodeType /\ SameButAddrs(ino, h.ino)
      BY <1>1, <3>1, <3>2, InodeTypeIs DEF SameButAddrs
    <3> HIDE DEF ino
    <3>4. QED BY <2>1, <3>1, <3>3 DEF Addrs
  <2> HIDE DEF c, ino, a
  <2>5. g \in Handle /\ g.content = c /\ g.ino = ino /\ g.used = h.used \cup {b} /\ g.panic = h.panic /\ g.addr = b
    BY <1>1, <2>1, <2>2, <2>3, <2>4 DEF Handle
  <2> HIDE DEF g
  <2>6. \A p \in Place : P(h, p) # 0 => P(h, p) \in Block /\ P(h, p) # b
    BY <1>1 DEF Owned
  <2>7. \A p \in Place : P(g, p) = IF p = r THEN b ELSE P(h, p)
    <3>1. \A p \in Place : Ptr(c, h.ino, p) = P(h, p)
      <4>1. \A p \in Place : P(h, p) # 0 => c[P(h, p)] = h.content[P(h, p)]
        BY <2>3, <2>6
      <4>2. QED BY <4>1, PtrKept DEF P
    <3>2. ASSUME NEW j \in 0 .. NDIRECT + 1
          PROVE  P(g, <<j, Here, Here>>) = IF <<j, Here, Here>> = r THEN b ELSE P(h, <<j, Here, Here>>)
      BY <2>4, <2>5, PtrIs1 DEF P
    <3>3. ASSUME NEW j \in NDIRECT .. NDIRECT + 1, NEW l \in 0 .. NINDIRECT - 1
          PROVE  P(g, <<j, l, Here>>) = P(h, <<j, l, Here>>) /\ <<j, l, Here>> # r
      <4>1. l # Here /\ j \in 0 .. NDIRECT + 1
        BY Sizes DEF Here
      <4>2. P(g, <<j, l, Here>>) = At(c, ino.addrs[j], l)
        BY <2>5, PtrIs2 DEF P
      <4>3. P(h, <<j, l, Here>>) = At(c, h.ino.addrs[j], l)
        <5>1. P(h, <<j, l, Here>>) = Ptr(c, h.ino, <<j, l, Here>>)
          BY <3>1, PlaceIs
        <5>2. QED BY <5>1, PtrIs2
      <4>4. CASE j = k
        BY <1>5, <2>1, <2>3, <2>4, <4>1, <4>2, <4>3, <4>4, ZeroTyped DEF At, a
      <4>5. QED BY <2>4, <4>1, <4>2, <4>3, <4>4
    <3>4. ASSUME NEW l \in 0 .. NINDIRECT - 1, NEW m \in 0 .. NINDIRECT - 1
          PROVE  P(g, <<NDIRECT + 1, l, m>>) = P(h, <<NDIRECT + 1, l, m>>) /\ <<NDIRECT + 1, l, m>> # r
      <4>1. l # Here /\ NDIRECT + 1 \in NDIRECT .. NDIRECT + 1
        BY Sizes DEF Here
      <4>2. P(g, <<NDIRECT + 1, l, m>>) = At(c, P(g, <<NDIRECT + 1, l, Here>>), m)
        BY <2>5, PtrIs3 DEF P
      <4>3. P(h, <<NDIRECT + 1, l, m>>) = At(c, P(h, <<NDIRECT + 1, l, Here>>), m)
        <5>1. /\ P(h, <<NDIRECT + 1, l, m>>) = Ptr(c, h.ino, <<NDIRECT + 1, l, m>>)
              /\ P(h, <<NDIRECT + 1, l, Here>>) = Ptr(c, h.ino, <<NDIRECT + 1, l, Here>>)
          BY <3>1, <4>1, PlaceIs
        <5>2. QED BY <5>1, PtrIs3
      <4>4. P(g, <<NDIRECT + 1, l, Here>>) = P(h, <<NDIRECT + 1, l, Here>>)
        BY <3>3, <4>1
      <4>5. QED BY <4>1, <4>2, <4>3, <4>4
    <3>5. QED BY <3>2, <3>3, <3>4, PlaceCases
  <2>8. \A x \in O : g.content[x] = h.content[x]
    BY <1>1, <2>3, <2>5 DEF Owned
  <2>9. \A p \in Place : P(h, p) # 0 => g.content[P(h, p)] = h.content[P(h, p)]
    BY <2>3, <2>5, <2>6
  <2>10. P(h, r) = 0 /\ SameButAddrs(g.ino, h.ino) /\ g.content[b] = ZeroBlock
    BY <1>2, <1>5, <2>3, <2>4, <2>5
  <2> HIDE DEF r
  <2>11. Owned(g, O) /\ Filled(h, g, O)
    BY <1>2, <2>5, <2>7, <2>8, <2>9, <2>10, OneMore
  <2>12. QED BY <1>2, <2>5, <2>7, <2>11
<1>6. QED BY <1>1, <1>3, <1>4, <1>5, BallocFacts

\* The place of the pointer to the indirect block that holds the pointer at
\* place q, and which entry of it that pointer is.
Parent(q) == IF q[3] = Here THEN <<q[1], Here, Here>> ELSE <<q[1], q[2], Here>>
Index(q) == IF q[3] = Here THEN q[2] ELSE q[3]

LEMMA ParentFacts ==
    ASSUME NEW q \in Place, q[2] # Here
    PROVE  /\ Parent(q) \in Place /\ ~IsData(Parent(q)) /\ Parent(q)[3] = Here
           /\ Index(q) \in 0 .. NINDIRECT - 1
           /\ \A c, ino : Ptr(c, ino, q) = At(c, Ptr(c, ino, Parent(q)), Index(q))
           /\ q[3] = Here => Parent(q)[2] = Here
<1>1. CASE \E k \in 0 .. NDIRECT + 1 : q = <<k, Here, Here>>
  BY <1>1
<1>2. ASSUME NEW k \in NDIRECT .. NDIRECT + 1, NEW l \in 0 .. NINDIRECT - 1, q = <<k, l, Here>>
      PROVE  /\ Parent(q) = <<k, Here, Here>> /\ Index(q) = l
             /\ Parent(q) \in Place /\ ~IsData(Parent(q))
             /\ \A c, ino : Ptr(c, ino, q) = At(c, Ptr(c, ino, Parent(q)), Index(q))
  <2>1. Parent(q) = <<k, Here, Here>> /\ Index(q) = l
    BY <1>2 DEF Parent, Index
  <2>2. <<k, Here, Here>> \in Place /\ ~IsData(<<k, Here, Here>>)
    BY PlaceIs, Sizes DEF IsData
  <2>3. \A c, ino : Ptr(c, ino, q) = At(c, ino.addrs[k], l) /\ Ptr(c, ino, <<k, Here, Here>>) = ino.addrs[k]
    BY <1>2, PtrIs1, PtrIs2
  <2>4. QED BY <2>1, <2>2, <2>3
<1>3. ASSUME NEW l \in 0 .. NINDIRECT - 1, NEW m \in 0 .. NINDIRECT - 1, q = <<NDIRECT + 1, l, m>>
      PROVE  /\ Parent(q) = <<NDIRECT + 1, l, Here>> /\ Index(q) = m /\ q[3] # Here
             /\ Parent(q) \in Place /\ ~IsData(Parent(q))
             /\ \A c, ino : Ptr(c, ino, q) = At(c, Ptr(c, ino, Parent(q)), Index(q))
  <2>1. m # Here /\ NDIRECT + 1 \in NDIRECT .. NDIRECT + 1
    BY Sizes DEF Here
  <2>2. Parent(q) = <<NDIRECT + 1, l, Here>> /\ Index(q) = m /\ q[3] = m
    BY <1>3, <2>1 DEF Parent, Index
  <2>3. <<NDIRECT + 1, l, Here>> \in Place /\ ~IsData(<<NDIRECT + 1, l, Here>>)
    BY <2>1, PlaceIs, Sizes DEF IsData
  <2>4. \A c, ino : Ptr(c, ino, q) = At(c, Ptr(c, ino, <<NDIRECT + 1, l, Here>>), m)
    BY <1>3, PtrIs3
  <2>5. QED BY <2>1, <2>2, <2>3, <2>4
<1>4. QED BY <1>1, <1>2, <1>3, PlaceCases

\* A place is where its parent and its index say.
LEMMA ParentInjective ==
    ASSUME NEW p \in Place, NEW q \in Place, p[2] # Here, q[2] # Here,
           Parent(p) = Parent(q), Index(p) = Index(q)
    PROVE  p = q
<1>1. ASSUME NEW x \in Place, x[2] # Here
      PROVE  /\ x = <<x[1], x[2], x[3]>>
             /\ x[3] = Here => Parent(x)[2] = Here /\ Parent(x)[1] = x[1] /\ Index(x) = x[2]
             /\ x[3] # Here => Parent(x)[2] = x[2] /\ Parent(x)[1] = x[1] /\ Index(x) = x[3]
  BY <1>1 DEF Place, Parent, Index
<1>2. QED BY <1>1

\* What holds for the pointers of the inode, and for a pointer in an indirect
\* block if for the pointer to that block, holds for all.
LEMMA PlaceInduction ==
    ASSUME NEW S,
           \A k \in 0 .. NDIRECT + 1 : <<k, Here, Here>> \in S,
           \A q \in Place : q[2] # Here /\ Parent(q) \in S => q \in S
    PROVE  Place \subseteq S
<1>1. \A p \in Place : p[2] = Here => p \in S
  <2>1. ASSUME NEW p \in Place, p[2] = Here PROVE \E k \in 0 .. NDIRECT + 1 : p = <<k, Here, Here>>
    BY <2>1, PlaceCases, Sizes DEF Here
  <2>2. QED BY <2>1
<1>2. \A p \in Place : p[2] # Here /\ p[3] = Here => p \in S
  BY <1>1, ParentFacts
<1>3. \A p \in Place : p[2] # Here => p \in S
  BY <1>1, <1>2, ParentFacts
<1>4. QED BY <1>1, <1>3

LEMMA EntryOfFacts ==
    ASSUME NEW h, NEW O, Owned(h, O), NEW r \in Place, r[2] # Here, h.addr = P(h, Parent(r))
    PROVE  LET g == EntryOf(h, Index(r))
           IN  Owned(g, O) /\ Filled(h, g, O) /\ g.addr = P(g, r)
<1> DEFINE k == Index(r)  g == EntryOf(h, k)  e == h.addr  a == h.content[e][k]
<1>1. h \in Handle /\ h.content \in BlockWords /\ h.used \subseteq Block /\ k \in 0 .. NINDIRECT - 1
  BY ParentFacts DEF Owned, Handle
<1>2. P(h, r) = At(h.content, e, k)
  BY ParentFacts DEF P
<1>3. CASE e = 0
  <2>1. g = h
    BY <1>3 DEF EntryOf
  <2>2. P(h, r) = 0
    BY <1>2, <1>3 DEF At
  <2>3. QED BY <1>3, <2>1, <2>2, FilledSelf
<1>4. ASSUME e # 0 PROVE e \in h.used /\ e \in Block /\ e \notin O /\ P(h, r) = a /\ a \in Cell
  <2>1. e \in h.used /\ e \in Block /\ e \notin O
    BY <1>1, <1>4, ParentFacts DEF Owned
  <2>2. QED BY <1>1, <1>2, <1>4, <2>1 DEF At, BlockWords
<1>5. CASE e # 0 /\ a # 0
  <2>1. g = [h EXCEPT !.addr = a]
    BY <1>5 DEF EntryOf
  <2>2. a \in 0 .. NBLOCKS
    BY <1>1, <1>4, <1>5, Sizes DEF Owned, Block
  <2> HIDE DEF k, a, e
  <2>3. g \in Handle /\ g.used = h.used /\ g.content = h.content /\ g.ino = h.ino /\ g.panic = h.panic /\ g.addr = a
    BY <1>1, <2>1, <2>2 DEF Handle
  <2> HIDE DEF g
  <2>4. Owned(g, O) /\ Filled(h, g, O) /\ P(g, r) = P(h, r)
    BY <2>3, OnlyAddr
  <2>5. QED BY <1>4, <1>5, <2>3, <2>4 DEF g, k
<1>6. CASE e # 0 /\ a = 0 /\ balloc(h) = [h EXCEPT !.addr = 0]
  <2>1. g = [[h EXCEPT !.addr = 0] EXCEPT !.content[e][k] = 0]
    BY <1>6 DEF EntryOf
  <2>2. h.content[e] \in [0 .. NINDIRECT - 1 -> Cell]
    BY <1>1, <1>4, <1>6 DEF BlockWords
  <2> HIDE DEF k, e
  <2>3. [h.content[e] EXCEPT ![k] = 0] = h.content[e]
    BY <1>1, <1>6, <2>2
  <2>4. [h.content EXCEPT ![e] = [h.content[e] EXCEPT ![k] = 0]] = h.content
    BY <1>1, <1>4, <1>6, <2>3 DEF BlockWords
  <2>5. g = [[h EXCEPT !.addr = 0] EXCEPT !.content = [h.content EXCEPT ![e] = [h.content[e] EXCEPT ![k] = 0]]]
    BY <1>1, <2>1 DEF Handle
  <2> HIDE DEF g, a
  <2>6. g = [[h EXCEPT !.addr = 0] EXCEPT !.content = h.content]
    BY <2>4, <2>5
  <2>7. g = [used |-> h.used, content |-> h.content, ino |-> h.ino, addr |-> 0, panic |-> h.panic]
    BY <1>1, <2>6 DEF Handle
  <2>8. 0 \in 0 .. NBLOCKS
    BY Sizes
  <2>9. g \in Handle /\ g.used = h.used /\ g.content = h.content /\ g.ino = h.ino /\ g.panic = h.panic /\ g.addr = 0
    BY <1>1, <2>7, <2>8 DEF Handle
  <2>10. Owned(g, O) /\ Filled(h, g, O) /\ P(g, r) = P(h, r)
    BY <2>9, OnlyAddr
  <2>11. QED BY <1>4, <1>6, <2>9, <2>10 DEF g, k
<1>7. ASSUME e # 0, a = 0, NEW b \in Block \ h.used,
             balloc(h) = [used |-> h.used \cup {b}, content |-> ZeroedBlock(h.content, b),
                          ino |-> h.ino, addr |-> b, panic |-> h.panic]
      PROVE  Owned(g, O) /\ Filled(h, g, O) /\ g.addr = P(g, r)
  <2> DEFINE c == [ZeroedBlock(h.content, b) EXCEPT ![e][k] = b]
  <2>1. b \in 1 .. NBLOCKS /\ b # 0 /\ b # e /\ b \in Cell
    BY <1>4, <1>7, Sizes DEF Block, Cell
  <2>2. g = [used |-> h.used \cup {b}, content |-> c, ino |-> h.ino, addr |-> b, panic |-> h.panic]
    BY <1>7 DEF EntryOf
  <2>3. /\ c \in BlockWords /\ c[b] = ZeroBlock /\ c[e][k] = b
        /\ \A j \in 0 .. NINDIRECT - 1 : j # k => c[e][j] = h.content[e][j]
        /\ \A x \in Block : x # b /\ x # e => c[x] = h.content[x]
    <3> DEFINE d == ZeroedBlock(h.content, b)
    <3>1. /\ d \in BlockWords /\ d[b] = ZeroBlock /\ d[e] = h.content[e]
          /\ \A x \in Block : x # b => d[x] = h.content[x]
      BY <1>1, <1>4, <1>7, <2>1, ZeroTyped DEF ZeroedBlock, BlockWords
    <3> HIDE DEF d, k, e
    <3>2. c = [d EXCEPT ![e][k] = b] /\ e \in Block /\ k \in 0 .. NINDIRECT - 1
      BY <1>1, <1>4, <1>7 DEF d
    <3> HIDE DEF c
    <3>3. QED BY <2>1, <3>1, <3>2 DEF BlockWords
  <2> HIDE DEF c, a
  <2>4. g \in Handle /\ g.content = c /\ g.ino = h.ino /\ g.used = h.used \cup {b} /\ g.panic = h.panic /\ g.addr = b
    BY <1>1, <2>1, <2>2, <2>3 DEF Handle
  <2> HIDE DEF g
  <2>5. \A p \in Place : P(h, p) # 0 => P(h, p) \in Block /\ P(h, p) # b /\ (P(h, p) = e => p = Parent(r))
    BY <1>1, <1>7, ParentFacts DEF Owned
  <2> DEFINE S == {p \in Place : P(g, p) = IF p = r THEN b ELSE P(h, p)}
  <2>6. Place \subseteq S
    <3>1. ASSUME NEW j \in 0 .. NDIRECT + 1 PROVE <<j, Here, Here>> \in S
      BY <2>4, PtrIs1, PlaceIs DEF P
    <3>2. ASSUME NEW q \in Place, q[2] # Here, Parent(q) \in S PROVE q \in S
      <4> DEFINE n == Index(q)
      <4>1. P(g, q) = At(c, P(g, Parent(q)), n) /\ P(h, q) = At(h.content, P(h, Parent(q)), n)
            /\ n \in 0 .. NINDIRECT - 1
        BY <2>4, <3>2, ParentFacts DEF P
      <4>2. P(g, Parent(q)) = IF Parent(q) = r THEN b ELSE P(h, Parent(q))
        BY <3>2
      <4>3. q = r <=> Parent(q) = Parent(r) /\ n = k
        BY <3>2, ParentInjective
      <4>4. CASE Parent(q) = r
        <5>1. P(h, Parent(q)) = 0 /\ P(h, q) = 0
          BY <1>4, <1>7, <4>1, <4>4 DEF At
        <5>2. P(g, q) = 0
          BY <2>1, <2>3, <4>1, <4>2, <4>4, ZeroTyped DEF At
        <5>3. q # r
          BY <4>4, <5>1, <1>7
        <5>4. QED BY <5>1, <5>2, <5>3
      <4>5. CASE Parent(q) # r /\ P(h, Parent(q)) = 0
        <5>1. P(g, q) = 0 /\ P(h, q) = 0 /\ q # r
          BY <1>7, <4>1, <4>2, <4>3, <4>5 DEF At
        <5>2. QED BY <5>1
      <4>6. CASE Parent(q) # r /\ P(h, Parent(q)) # 0
        <5> DEFINE y == P(h, Parent(q))
        <5>1. y \in Block /\ y # b /\ y # 0 /\ P(g, q) = c[y][n] /\ P(h, q) = h.content[y][n]
          BY <2>5, <4>1, <4>2, <4>6, ParentFacts, <3>2 DEF At
        <5>2. CASE y # e
          <6>1. Parent(q) # Parent(r)
            BY <5>2
          <6>2. QED BY <2>3, <4>3, <5>1, <5>2, <6>1
        <5>3. CASE y = e
          <6>1. Parent(q) = Parent(r)
            BY <2>5, <3>2, <4>6, <5>3, ParentFacts
          <6>2. CASE n = k
            BY <2>3, <4>3, <5>1, <5>3, <6>1, <6>2
          <6>3. CASE n # k
            BY <2>3, <4>1, <4>3, <5>1, <5>3, <6>1, <6>3
          <6>4. QED BY <6>2, <6>3
        <5>4. QED BY <5>2, <5>3
      <4>7. QED BY <4>4, <4>5, <4>6
    <3> HIDE DEF S
    <3>3. QED BY <3>1, <3>2, PlaceInduction
  <2>7. \A p \in Place : P(g, p) = IF p = r THEN b ELSE P(h, p)
    BY <2>6
  <2>8. \A x \in O : g.content[x] = h.content[x]
    BY <1>1, <1>4, <1>7, <2>3, <2>4 DEF Owned
  <2>9. \A p \in Place : P(h, p) # 0 /\ IsData(p) => g.content[P(h, p)] = h.content[P(h, p)]
    BY <2>3, <2>4, <2>5, ParentFacts
  <2>10. P(h, r) = 0 /\ SameButAddrs(g.ino, h.ino) /\ g.content[b] = ZeroBlock
    BY <1>4, <1>7, <2>3, <2>4 DEF SameButAddrs
  <2>11. Owned(g, O) /\ Filled(h, g, O)
    BY <2>4, <2>7, <2>8, <2>9, <2>10, OneMore
  <2>12. QED BY <2>4, <2>7, <2>11
<1>8. QED BY <1>1, <1>3, <1>5, <1>6, <1>7, BallocFacts

LEMMA BmapFacts ==
    ASSUME NEW h, NEW O, Owned(h, O), NEW bn \in 0 .. MAXFILE - 1
    PROVE  LET g == bmap(h, bn)
           IN  Owned(g, O) /\ Filled(h, g, O) /\ g.addr = P(g, DataPlace(bn))
<1> DEFINE n1 == bn - NDIRECT  n2 == n1 - NINDIRECT
<1>0. n1 \in Int /\ n2 \in Int /\ NDIRECT \in 0 .. NDIRECT + 1 /\ NDIRECT + 1 \in 0 .. NDIRECT + 1
      /\ NDIRECT \in NDIRECT .. NDIRECT + 1 /\ NDIRECT + 1 \in NDIRECT .. NDIRECT + 1
  BY Sizes
<1>1. CASE bn < NDIRECT
  <2>1. bmap(h, bn) = AddrOf(h, bn) /\ DataPlace(bn) = <<bn, Here, Here>> /\ bn \in 0 .. NDIRECT + 1
    BY <1>1, Sizes DEF bmap, DataPlace
  <2>2. QED BY <2>1, AddrOfFacts
<1>2. CASE ~(bn < NDIRECT) /\ n1 < NINDIRECT
  <2> DEFINE f == AddrOf(h, NDIRECT)  r == <<NDIRECT, n1, Here>>
  <2>1. n1 \in 0 .. NINDIRECT - 1 /\ bmap(h, bn) = EntryOf(f, n1) /\ DataPlace(bn) = r
    BY <1>2, Sizes DEF bmap, DataPlace
  <2>2. Owned(f, O) /\ Filled(h, f, O) /\ f.addr = P(f, <<NDIRECT, Here, Here>>)
    BY <1>0, AddrOfFacts
  <2>3. r \in Place /\ r[2] # Here /\ Index(r) = n1 /\ Parent(r) = <<NDIRECT, Here, Here>>
    BY <1>0, <2>1, PlaceIs DEF Index, Parent, Here
  <2> HIDE DEF f, r
  <2>4. QED
    <3> DEFINE g == EntryOf(f, n1)
    <3>1. Owned(g, O) /\ Filled(f, g, O) /\ g.addr = P(g, r)
      BY <2>2, <2>3, EntryOfFacts
    <3>2. QED BY <2>1, <2>2, <3>1, FilledTwice
<1>3. CASE ~(bn < NDIRECT) /\ ~(n1 < NINDIRECT)
  <2> DEFINE l == n2 \div NINDIRECT  m == n2 % NINDIRECT
             f == AddrOf(h, NDIRECT + 1)  q == <<NDIRECT + 1, l, Here>>
             e == EntryOf(f, l)  r == <<NDIRECT + 1, l, m>>
  <2>1. n2 \in 0 .. NINDIRECT * NINDIRECT - 1
    BY <1>3, Sizes
  <2>2. l \in 0 .. NINDIRECT - 1 /\ m \in 0 .. NINDIRECT - 1
    <3> HIDE DEF n2
    <3>1. n2 \in Nat /\ n2 < NINDIRECT * NINDIRECT
      BY <2>1, Sizes
    <3>2. QED BY <3>1, Sizes, Quotient, QuotientBelow
  <2>3. bmap(h, bn) = EntryOf(e, m) /\ DataPlace(bn) = r
    BY <1>3, <2>1, Sizes DEF bmap, DataPlace
  <2> HIDE DEF n2, l, m
  <2>4. Owned(f, O) /\ Filled(h, f, O) /\ f.addr = P(f, <<NDIRECT + 1, Here, Here>>)
    BY <1>0, AddrOfFacts
  <2>5. q \in Place /\ q[2] # Here /\ Index(q) = l /\ Parent(q) = <<NDIRECT + 1, Here, Here>>
    BY <1>0, <2>2, PlaceIs DEF Index, Parent, Here
  <2>6. r \in Place /\ r[2] # Here /\ Index(r) = m /\ Parent(r) = q
    BY <1>0, <2>2, PlaceIs DEF Index, Parent, Here
  <2>7. Owned(e, O) /\ Filled(f, e, O) /\ e.addr = P(e, q)
    <3> HIDE DEF f, q
    <3>1. QED BY <2>4, <2>5, EntryOfFacts
  <2>8. QED
    <3> DEFINE g == EntryOf(e, m)
    <3> HIDE DEF e, f, q, r
    <3>1. Owned(g, O) /\ Filled(e, g, O) /\ g.addr = P(g, r)
      BY <2>6, <2>7, EntryOfFacts
    <3>2. QED BY <2>3, <2>4, <2>7, <3>1, FilledTwice
<1>4. QED BY <1>1, <1>2, <1>3

\* When no block was found, every block is marked.
Exhausts(g) == g.addr = 0 => g.used = Block

LEMMA BallocExhausts == ASSUME NEW h \in Handle PROVE Exhausts(balloc(h))
<1>1. CASE h.used = Block /\ balloc(h) = [h EXCEPT !.addr = 0]
  BY <1>1 DEF Handle, Exhausts
<1>2. ASSUME NEW b \in Block \ h.used, balloc(h).addr = b PROVE Exhausts(balloc(h))
  BY <1>2 DEF Block, Exhausts
<1>3. QED BY <1>1, <1>2, BallocFacts

LEMMA AddrOfExhausts ==
    ASSUME NEW h \in Handle, NEW k \in 0 .. NDIRECT + 1
    PROVE  Exhausts(AddrOf(h, k))
<1> DEFINE a == h.ino.addrs[k]  new == balloc(h)  g == AddrOf(h, k)
<1>1. CASE a # 0
  <2>1. g = [h EXCEPT !.addr = a]
    BY <1>1 DEF AddrOf
  <2>2. g.addr = a
    BY <2>1 DEF Handle
  <2>3. QED BY <1>1, <2>2 DEF Exhausts
<1>2. CASE a = 0
  <2>1. g = [new EXCEPT !.ino.addrs[k] = new.addr]
    BY <1>2 DEF AddrOf
  <2>2. new = [used |-> new.used, content |-> new.content, ino |-> new.ino, addr |-> new.addr, panic |-> new.panic]
    BY BallocFacts DEF Handle
  <2>3. Exhausts(new)
    BY BallocExhausts
  <2> HIDE DEF new, g
  <2>4. g.used = new.used /\ g.addr = new.addr
    BY <2>1, <2>2
  <2>5. QED BY <2>3, <2>4 DEF Exhausts, g
<1>3. QED BY <1>1, <1>2

LEMMA EntryOfExhausts ==
    ASSUME NEW h \in Handle, NEW k, Exhausts(h)
    PROVE  Exhausts(EntryOf(h, k))
<1> DEFINE a == h.content[h.addr][k]  new == balloc(h)  g == EntryOf(h, k)
<1>1. CASE h.addr = 0
  BY <1>1 DEF EntryOf
<1>2. CASE h.addr # 0 /\ a # 0
  <2>1. g = [h EXCEPT !.addr = a]
    BY <1>2 DEF EntryOf
  <2>2. g.addr = a
    BY <2>1 DEF Handle
  <2>3. QED BY <1>2, <2>2 DEF Exhausts
<1>3. CASE h.addr # 0 /\ a = 0
  <2>1. g = [new EXCEPT !.content[h.addr][k] = new.addr]
    BY <1>3 DEF EntryOf
  <2>2. new = [used |-> new.used, content |-> new.content, ino |-> new.ino, addr |-> new.addr, panic |-> new.panic]
    BY BallocFacts DEF Handle
  <2>3. Exhausts(new)
    BY BallocExhausts
  <2> HIDE DEF new, g
  <2>4. g.used = new.used /\ g.addr = new.addr
    BY <2>1, <2>2
  <2>5. QED BY <2>3, <2>4 DEF Exhausts, g
<1>4. QED BY <1>1, <1>2, <1>3

\* bmap gives up only when balloc does, at whatever level it needs a block.
LEMMA BmapExhausts ==
    ASSUME NEW h, NEW O, Owned(h, O), NEW bn \in 0 .. MAXFILE - 1
    PROVE  Exhausts(bmap(h, bn))
<1> DEFINE n1 == bn - NDIRECT  n2 == n1 - NINDIRECT
<1>0. /\ NDIRECT \in 0 .. NDIRECT + 1 /\ NDIRECT + 1 \in 0 .. NDIRECT + 1 /\ h \in Handle
      /\ NDIRECT \in NDIRECT .. NDIRECT + 1 /\ NDIRECT + 1 \in NDIRECT .. NDIRECT + 1
  BY Sizes DEF Owned
<1>1. CASE bn < NDIRECT
  <2>1. bmap(h, bn) = AddrOf(h, bn) /\ bn \in 0 .. NDIRECT + 1
    BY <1>1, Sizes DEF bmap
  <2>2. QED BY <1>0, <2>1, AddrOfExhausts
<1>2. CASE ~(bn < NDIRECT) /\ n1 < NINDIRECT
  <2> DEFINE f == AddrOf(h, NDIRECT)
  <2>1. bmap(h, bn) = EntryOf(f, n1)
    BY <1>2, Sizes DEF bmap
  <2>2. f \in Handle /\ Exhausts(f)
    BY <1>0, AddrOfFacts, AddrOfExhausts DEF Owned
  <2> HIDE DEF f, n1
  <2>3. QED BY <2>1, <2>2, EntryOfExhausts
<1>3. CASE ~(bn < NDIRECT) /\ ~(n1 < NINDIRECT)
  <2> DEFINE l == n2 \div NINDIRECT  m == n2 % NINDIRECT
             f == AddrOf(h, NDIRECT + 1)  q == <<NDIRECT + 1, l, Here>>
             e == EntryOf(f, l)
  <2>1. n2 \in 0 .. NINDIRECT * NINDIRECT - 1
    BY <1>3, Sizes
  <2>2. bmap(h, bn) = EntryOf(e, m)
    BY <1>3, <2>1, Sizes DEF bmap
  <2>3. l \in 0 .. NINDIRECT - 1
    <3> HIDE DEF n2
    <3>1. n2 \in Nat /\ n2 < NINDIRECT * NINDIRECT
      BY <2>1, Sizes
    <3>2. QED BY <3>1, Sizes, QuotientBelow
  <2> HIDE DEF n2, l, m
  <2>4. Owned(f, O) /\ f.addr = P(f, <<NDIRECT + 1, Here, Here>>) /\ Exhausts(f)
    BY <1>0, AddrOfFacts, AddrOfExhausts
  <2>5. q \in Place /\ q[2] # Here /\ Index(q) = l /\ Parent(q) = <<NDIRECT + 1, Here, Here>>
    BY <1>0, <2>3, PlaceIs DEF Index, Parent, Here
  <2> HIDE DEF f, q
  <2>6. e \in Handle
    <3>1. Owned(e, O)
      BY <2>4, <2>5, EntryOfFacts
    <3>2. QED BY <3>1 DEF Owned
  <2>7. Exhausts(e)
    BY <2>4, EntryOfExhausts DEF Owned
  <2> HIDE DEF e
  <2>8. QED BY <2>2, <2>6, <2>7, EntryOfExhausts
<1>4. QED BY <1>1, <1>2, <1>3

WordSet(h, j, w) == [h EXCEPT !.content[h.addr][j] = w]

\* A word of a data block changes no pointer.
LEMMA WordWritten ==
    ASSUME NEW h, NEW O, Owned(h, O), NEW q \in Place, IsData(q), h.addr = P(h, q), h.addr # 0,
           NEW j \in 0 .. NINDIRECT - 1, NEW w \in Cell
    PROVE  LET g == WordSet(h, j, w) IN
           /\ Owned(g, O) /\ Grew(h, g, O) /\ g.ino = h.ino /\ g.used = h.used
           /\ \A p \in Place : P(g, p) = P(h, p)
           /\ g.content[h.addr][j] = w
           /\ \A b \in Block, k \in 0 .. NINDIRECT - 1 :
                b # h.addr \/ k # j => g.content[b][k] = h.content[b][k]
<1> DEFINE c == [h.content EXCEPT ![h.addr][j] = w]  g == WordSet(h, j, w)
<1>1. h \in Handle /\ h.content \in BlockWords /\ h.addr \in Block /\ h.addr \notin O /\ O \subseteq Block
  BY DEF Owned, Handle
<1>2. /\ c \in BlockWords /\ c[h.addr][j] = w
      /\ \A b \in Block : b # h.addr => c[b] = h.content[b]
      /\ \A k \in 0 .. NINDIRECT - 1 : k # j => c[h.addr][k] = h.content[h.addr][k]
  BY <1>1 DEF BlockWords
<1>3. g = [used |-> h.used, content |-> c, ino |-> h.ino, addr |-> h.addr, panic |-> h.panic]
  BY <1>1 DEF Handle, WordSet
<1> HIDE DEF c, g
<1>4. g \in Handle /\ g.used = h.used /\ g.content = c /\ g.ino = h.ino /\ g.panic = h.panic
  BY <1>1, <1>2, <1>3 DEF Handle
<1>5. \A p \in Place : P(g, p) = P(h, p)
  <2>1. \A p \in Place : P(h, p) # 0 /\ ~IsData(p) => c[P(h, p)] = h.content[P(h, p)]
    <3>1. ASSUME NEW p \in Place, P(h, p) # 0, ~IsData(p) PROVE c[P(h, p)] = h.content[P(h, p)]
      <4>1. P(h, p) \in Block /\ P(h, p) # h.addr
        BY <1>1, <3>1 DEF Owned, Handle
      <4>2. QED BY <1>2, <4>1
    <3>2. QED BY <3>1
  <2>2. \A p \in Place : Ptr(c, h.ino, p) = Ptr(h.content, h.ino, p)
    BY <2>1, PtrKept DEF P
  <2>3. QED BY <1>4, <2>2 DEF P
<1>6. Owned(g, O)
  BY <1>4, <1>5 DEF Owned
<1>7. Grew(h, g, O)
  BY <1>1, <1>2, <1>4, <1>5 DEF Grew, SameButAddrs
<1>8. QED
  <2>1. \A b \in Block, k \in 0 .. NINDIRECT - 1 :
          b # h.addr \/ k # j => c[b][k] = h.content[b][k]
    BY <1>2
  <2>2. QED BY <1>2, <1>4, <1>5, <1>6, <1>7, <2>1 DEF g

\* The size of a file is none of its pointers.
LEMMA Resized ==
    ASSUME NEW h, NEW O, Owned(h, O), NEW end \in FileSize
    PROVE  LET g == [h EXCEPT !.ino = Grown(@, end)]
           IN  /\ Owned(g, O) /\ g.content = h.content /\ g.used = h.used /\ g.panic = h.panic
               /\ \A p : P(g, p) = P(h, p)
               /\ g.ino = [h.ino EXCEPT !.size = IF end > h.ino.size THEN end ELSE h.ino.size]
<1> DEFINE g == [h EXCEPT !.ino = Grown(@, end)]
           size == IF end > h.ino.size THEN end ELSE h.ino.size
           ino == [h.ino EXCEPT !.size = size]
<1>1. h \in Handle /\ h.ino \in InodeType
  BY DEF Owned, Handle
<1>2. size \in FileSize
  BY <1>1, InodeTypeIs
<1>3. g = [h EXCEPT !.ino = ino]
  BY DEF Grown
<1> HIDE DEF size
<1>4. ino \in InodeType /\ ino.addrs = h.ino.addrs
  BY <1>1, <1>2, InodeTypeIs
<1> HIDE DEF ino, g
<1>5. g \in Handle /\ g.content = h.content /\ g.used = h.used /\ g.panic = h.panic /\ g.ino = ino
  BY <1>1, <1>3, <1>4 DEF Handle
<1>6. \A p : P(g, p) = P(h, p)
  BY <1>4, <1>5 DEF P, Ptr
<1>7. Owned(g, O)
  BY <1>5, <1>6 DEF Owned
<1>8. QED BY <1>5, <1>6, <1>7 DEF g, ino, size

-----------------------------------------------------------------------------
(* The words of a file *)

\* Word o of a file is in a block bmap has a place for.
LEMMA WordPlace ==
    ASSUME NEW o \in Nat, o < MAXFILE * BSIZE
    PROVE  o \div BSIZE \in 0 .. MAXFILE - 1 /\ o % BSIZE \in 0 .. NINDIRECT - 1
<1>1. o < BSIZE * MAXFILE /\ BSIZE \in Nat \ {0} /\ MAXFILE \in Nat /\ BSIZE = NINDIRECT
  BY Sizes
<1>2. QED BY <1>1, Quotient, QuotientBelow

\* What the word at offset o of the inode that h leads to is, and the pointer to
\* its block.
W(h, o) == WordAt(h.content, h.ino, o)
AddrAt(h, o) == P(h, DataPlace(o \div BSIZE))

\* A word of a file is where one block pointer and a remainder say.
LEMMA WordsApart ==
    ASSUME NEW h, NEW O, Owned(h, O), NEW o \in Nat, NEW q \in Nat,
           o < MAXFILE * BSIZE, q < MAXFILE * BSIZE, o # q, AddrAt(h, o) # 0
    PROVE  AddrAt(h, o) # AddrAt(h, q) \/ o % BSIZE # q % BSIZE
<1>1. o \div BSIZE \in 0 .. MAXFILE - 1 /\ q \div BSIZE \in 0 .. MAXFILE - 1
  BY WordPlace
<1>2. DataPlace(o \div BSIZE) \in Place /\ DataPlace(q \div BSIZE) \in Place
  BY <1>1, DataPlaceTyped
<1>3. ASSUME AddrAt(h, o) = AddrAt(h, q), o % BSIZE = q % BSIZE PROVE FALSE
  <2>1. DataPlace(o \div BSIZE) = DataPlace(q \div BSIZE)
    BY <1>2, <1>3 DEF AddrAt, Owned
  <2>2. o \div BSIZE = q \div BSIZE
    BY <1>1, <2>1, DataPlaceInjective
  <2>3. BSIZE \in Nat \ {0}
    BY Sizes
  <2>4. o = BSIZE * (o \div BSIZE) + (o % BSIZE) /\ q = BSIZE * (q \div BSIZE) + (q % BSIZE)
    BY <2>3, Quotient
  <2>5. QED BY <1>3, <2>2, <2>4
<1>4. QED BY <1>3

\* The words below the largest size a file can have.
Within == {o \in Nat : o < MAXFILE * BSIZE}

\* Filling in pointers changes no word: what was a hole now is zero.
LEMMA FilledWords ==
    ASSUME NEW h, NEW g, NEW O, Owned(h, O), Owned(g, O), Filled(h, g, O), NEW o \in Within
    PROVE  W(g, o) = W(h, o) /\ (AddrAt(h, o) # 0 => AddrAt(g, o) = AddrAt(h, o))
<1> DEFINE p == DataPlace(o \div BSIZE)  k == o % BSIZE
<1>1. p \in Place /\ IsData(p) /\ k \in 0 .. NINDIRECT - 1
  BY WordPlace, DataPlaceTyped DEF Within
<1>2. W(h, o) = At(h.content, P(h, p), k) /\ W(g, o) = At(g.content, P(g, p), k)
  BY DEF W, WordAt, P
<1> HIDE DEF p, k
<1>3. CASE P(h, p) # 0
  BY <1>1, <1>2, <1>3 DEF Filled, Grew, At, AddrAt, p
<1>4. CASE P(h, p) = 0 /\ P(g, p) # 0
  <2>1. g.content[P(g, p)] = ZeroBlock
    BY <1>1, <1>4 DEF Filled
  <2>2. QED BY <1>1, <1>2, <1>4, <2>1, ZeroTyped DEF At, AddrAt, p
<1>5. CASE P(h, p) = 0 /\ P(g, p) = 0
  BY <1>2, <1>5 DEF At, AddrAt, p
<1>6. QED BY <1>3, <1>4, <1>5

\* Writing a word changes no other.
LEMMA WordSetWords ==
    ASSUME NEW h, NEW O, Owned(h, O), NEW off \in Within, h.addr = AddrAt(h, off), h.addr # 0, NEW w \in Cell
    PROVE  LET g == WordSet(h, off % BSIZE, w)
           IN  /\ Owned(g, O) /\ Grew(h, g, O)
               /\ \A o \in Within : AddrAt(g, o) = AddrAt(h, o)
               /\ \A o \in Within : W(g, o) = IF o = off THEN w ELSE W(h, o)
<1> DEFINE j == off % BSIZE  g == WordSet(h, j, w)  q == DataPlace(off \div BSIZE)
<1>1. q \in Place /\ IsData(q) /\ j \in 0 .. NINDIRECT - 1
  BY WordPlace, DataPlaceTyped DEF Within
<1>2. /\ Owned(g, O) /\ Grew(h, g, O)
      /\ \A p \in Place : P(g, p) = P(h, p)
      /\ g.content[h.addr][j] = w
      /\ \A b \in Block, k \in 0 .. NINDIRECT - 1 :
           b # h.addr \/ k # j => g.content[b][k] = h.content[b][k]
  <2>1. h.addr = P(h, q)
    BY DEF AddrAt
  <2> HIDE DEF q, j
  <2>2. QED BY <1>1, <2>1, WordWritten
<1> HIDE DEF g
<1>3. ASSUME NEW o \in Within PROVE AddrAt(g, o) = AddrAt(h, o) /\ o % BSIZE \in 0 .. NINDIRECT - 1
  <2>1. DataPlace(o \div BSIZE) \in Place /\ o % BSIZE \in 0 .. NINDIRECT - 1
    BY WordPlace, DataPlaceTyped DEF Within
  <2>2. QED BY <1>2, <2>1 DEF AddrAt
<1>4. \A o : W(g, o) = At(g.content, AddrAt(g, o), o % BSIZE) /\ W(h, o) = At(h.content, AddrAt(h, o), o % BSIZE)
  BY DEF W, WordAt, AddrAt, P
<1>5. W(g, off) = w
  BY <1>2, <1>3, <1>4 DEF At, j
<1>6. ASSUME NEW o \in Within, o # off PROVE W(g, o) = W(h, o)
  <2>1. CASE AddrAt(h, o) = 0
    BY <1>3, <1>4, <2>1 DEF At
  <2>2. CASE AddrAt(h, o) # 0
    <3>1. AddrAt(h, o) # h.addr \/ o % BSIZE # j
      BY <1>6, <2>2, WordsApart DEF Within, j
    <3>2. AddrAt(h, o) \in Block
      <4>1. DataPlace(o \div BSIZE) \in Place
        BY WordPlace, DataPlaceTyped DEF Within
      <4>2. QED BY <2>2, <4>1 DEF AddrAt, Owned, Handle
    <3>3. QED BY <1>2, <1>3, <1>4, <2>2, <3>1, <3>2 DEF At
  <2>3. QED BY <2>1, <2>2
<1>7. QED BY <1>2, <1>3, <1>5, <1>6 DEF g, j

-----------------------------------------------------------------------------
(* The loops of readi and writei *)

\* A property that the first number has and that passes on to the next.
LEMMA UpTo ==
    ASSUME NEW N \in Nat, NEW S, 0 \in S, \A n \in 1 .. N : n - 1 \in S => n \in S
    PROVE  0 .. N \subseteq S
<1> DEFINE T == (0 .. N) \ S
<1>1. SUFFICES ASSUME T # {} PROVE FALSE
  OBVIOUS
<1>2. Least(T) \in T /\ \A y \in T : Least(T) <= y
  <2>1. T \in SUBSET (0 .. N) /\ 0 \in Nat /\ N \in Int
    OBVIOUS
  <2> HIDE DEF T
  <2>2. QED BY <1>1, <2>1, LeastUpTo
<1> DEFINE n == Least(T)
<1>3. n \in 1 .. N
  BY <1>2
<1> HIDE DEF n, T
<1>4. n - 1 \notin T /\ n - 1 \in 0 .. N
  BY <1>2, <1>3 DEF n
<1>5. QED BY <1>2, <1>3, <1>4 DEF n, T

WriteStart(h, off) == [at |-> h, off |-> off, stop |-> FALSE]
WriteRuns(f, h, off, ws) ==
    f[0] = WriteStart(h, off) /\ \A n \in 1 .. Len(ws) : f[n] = WriteWord(f[n - 1], ws[n])

\* The loop of writei is a function of the number of rounds.
LEMMA WriteLoopIs ==
    ASSUME NEW h, NEW off, NEW ws, Len(ws) \in Nat
    PROVE  \E f : WriteLoop(h, off, ws) = f[Len(ws)] /\ WriteRuns(f, h, off, ws)
<1> DEFINE N == Len(ws)
           loop[n \in 0 .. Len(ws)] ==
             IF n = 0 THEN [at |-> h, off |-> off, stop |-> FALSE] ELSE WriteWord(loop[n - 1], ws[n])
           Runs(f, n) == f[0] = WriteStart(h, off) /\ \A k \in 1 .. n : f[k] = WriteWord(f[k - 1], ws[k])
           S == {n \in 0 .. N : \E f : f = [k \in 0 .. n |-> f[k]] /\ Runs(f, n)}
<1>0. N \in Nat
  OBVIOUS
<1>1. 0 \in S
  <2> DEFINE f == [k \in 0 .. 0 |-> WriteStart(h, off)]
  <2>1. f = [k \in 0 .. 0 |-> f[k]] /\ Runs(f, 0)
    OBVIOUS
  <2> HIDE DEF f, Runs
  <2>2. QED BY <2>1
<1>2. ASSUME NEW n \in 1 .. N, n - 1 \in S PROVE n \in S
  <2>1. PICK f : f = [k \in 0 .. n - 1 |-> f[k]] /\ Runs(f, n - 1)
    BY <1>2
  <2> DEFINE g == [k \in 0 .. n |-> IF k = n THEN WriteWord(f[n - 1], ws[n]) ELSE f[k]]
  <2>2. g = [k \in 0 .. n |-> g[k]]
    OBVIOUS
  <2>3. Runs(g, n)
    <3> HIDE DEF N
    <3>1. n \in Nat /\ n >= 1 /\ n - 1 \in Nat
      BY <1>0
    <3>2. g[0] = WriteStart(h, off)
      BY <2>1, <3>1
    <3>3. ASSUME NEW k \in 1 .. n PROVE g[k] = WriteWord(g[k - 1], ws[k])
      <4>1. g[k - 1] = f[k - 1] /\ k - 1 \in 0 .. n - 1
        BY <3>1
      <4>2. CASE k = n
        BY <4>1, <4>2
      <4>3. CASE k # n
        <5>1. k \in 1 .. n - 1
          BY <3>1, <4>3
        <5>2. g[k] = f[k] /\ f[k] = WriteWord(f[k - 1], ws[k])
          BY <2>1, <4>3, <5>1
        <5>3. QED BY <4>1, <5>2
      <4>4. QED BY <4>2, <4>3
    <3>4. QED BY <3>2, <3>3
  <2> HIDE DEF g, Runs
  <2>4. QED BY <2>2, <2>3
<1>3. N \in S
  <2> HIDE DEF S, N
  <2>1. 0 .. N \subseteq S
    BY <1>0, <1>1, <1>2, UpTo
  <2>2. QED BY <1>0, <2>1
<1>4. PICK f : f = [k \in 0 .. N |-> f[k]] /\ Runs(f, N)
  BY <1>3
<1> DEFINE Body(g) == [n \in 0 .. Len(ws) |->
             IF n = 0 THEN [at |-> h, off |-> off, stop |-> FALSE] ELSE WriteWord(g[n - 1], ws[n])]
<1>5. f = Body(f)
  <2>1. \A k \in 0 .. N : f[k] = IF k = 0 THEN WriteStart(h, off) ELSE WriteWord(f[k - 1], ws[k])
    <3> HIDE DEF N, loop, S
    <3>1. QED BY <1>0, <1>4
  <2>2. Body(f) = [k \in 0 .. N |-> IF k = 0 THEN WriteStart(h, off) ELSE WriteWord(f[k - 1], ws[k])]
    BY DEF WriteStart
  <2> HIDE DEF N, Body, loop, S
  <2>3. QED BY <1>4, <2>1, <2>2
<1>6. loop = Body(loop)
  <2>1. loop = CHOOSE g : g = Body(g)
    BY DEF Body
  <2> HIDE DEF loop, Body
  <2>2. QED BY <1>5, <2>1
<1>7. WriteLoop(h, off, ws) = loop[Len(ws)]
  BY DEF WriteLoop
<1> HIDE DEF loop
<1>8. WriteRuns(loop, h, off, ws)
  <2>1. Body(loop) = [k \in 0 .. N |-> IF k = 0 THEN WriteStart(h, off) ELSE WriteWord(loop[k - 1], ws[k])]
    BY DEF WriteStart
  <2> HIDE DEF N, Body, S
  <2>2. \A k \in 0 .. N : loop[k] = IF k = 0 THEN WriteStart(h, off) ELSE WriteWord(loop[k - 1], ws[k])
    BY <1>6, <2>1
  <2>3. 0 \in 0 .. N /\ \A k \in 1 .. N : k \in 0 .. N /\ k # 0
    BY <1>0
  <2>4. loop[0] = WriteStart(h, off) /\ \A k \in 1 .. N : loop[k] = WriteWord(loop[k - 1], ws[k])
    BY <2>2, <2>3, Zenon
  <2>5. QED BY <2>4, Zenon DEF WriteRuns, N
<1>9. QED BY <1>7, <1>8

ReadStart(h) == [at |-> h, words |-> <<>>, stop |-> FALSE]
ReadRuns(f, h, off, last) ==
    f[0] = ReadStart(h) /\ \A n \in 1 .. last - off : f[n] = ReadWord(f[n - 1], off + n - 1)

\* The loop of readi is a function of the number of rounds.
LEMMA ReadLoopIs ==
    ASSUME NEW h, NEW off \in Nat, NEW last \in Nat, last - off \in Nat
    PROVE  \E f : ReadLoop(h, off, last) = f[last - off] /\ ReadRuns(f, h, off, last)
<1> DEFINE N == last - off
           loop[n \in 0 .. last - off] ==
             IF n = 0 THEN [at |-> h, words |-> <<>>, stop |-> FALSE] ELSE ReadWord(loop[n - 1], off + n - 1)
           Runs(f, n) == f[0] = ReadStart(h) /\ \A k \in 1 .. n : f[k] = ReadWord(f[k - 1], off + k - 1)
           S == {n \in 0 .. N : \E f : f = [k \in 0 .. n |-> f[k]] /\ Runs(f, n)}
<1>0. N \in Nat
  OBVIOUS
<1>1. 0 \in S
  <2> DEFINE f == [k \in 0 .. 0 |-> ReadStart(h)]
  <2>1. f = [k \in 0 .. 0 |-> f[k]] /\ Runs(f, 0)
    OBVIOUS
  <2> HIDE DEF f, Runs
  <2>2. QED BY <2>1
<1>2. ASSUME NEW n \in 1 .. N, n - 1 \in S PROVE n \in S
  <2>1. PICK f : f = [k \in 0 .. n - 1 |-> f[k]] /\ Runs(f, n - 1)
    BY <1>2
  <2> DEFINE g == [k \in 0 .. n |-> IF k = n THEN ReadWord(f[n - 1], off + n - 1) ELSE f[k]]
  <2>2. g = [k \in 0 .. n |-> g[k]]
    OBVIOUS
  <2>3. Runs(g, n)
    <3> HIDE DEF N
    <3>1. n \in Nat /\ n >= 1 /\ n - 1 \in Nat
      BY <1>0
    <3>2. g[0] = ReadStart(h)
      BY <2>1, <3>1
    <3>3. ASSUME NEW k \in 1 .. n PROVE g[k] = ReadWord(g[k - 1], off + k - 1)
      <4>1. g[k - 1] = f[k - 1] /\ k - 1 \in 0 .. n - 1
        BY <3>1
      <4>2. CASE k = n
        BY <4>1, <4>2
      <4>3. CASE k # n
        <5>1. k \in 1 .. n - 1
          BY <3>1, <4>3
        <5>2. g[k] = f[k]
          BY <4>3
        <5>3. \A j \in 1 .. n - 1 : f[j] = ReadWord(f[j - 1], off + j - 1)
          BY <2>1
        <5>4. f[k] = ReadWord(f[k - 1], off + k - 1)
          <6> HIDE DEF g
          <6>1. QED BY <5>1, <5>3, Zenon
        <5>5. QED BY <4>1, <5>2, <5>4
      <4>4. QED BY <4>2, <4>3
    <3>4. QED BY <3>2, <3>3
  <2> HIDE DEF g, Runs
  <2>4. QED BY <2>2, <2>3
<1>3. N \in S
  <2> HIDE DEF S, N
  <2>1. 0 .. N \subseteq S
    BY <1>0, <1>1, <1>2, UpTo
  <2>2. QED BY <1>0, <2>1
<1>4. PICK f : f = [k \in 0 .. N |-> f[k]] /\ Runs(f, N)
  BY <1>3
<1> DEFINE Body(g) == [n \in 0 .. last - off |->
             IF n = 0 THEN [at |-> h, words |-> <<>>, stop |-> FALSE] ELSE ReadWord(g[n - 1], off + n - 1)]
<1>5. f = Body(f)
  <2>1. \A k \in 0 .. N : f[k] = IF k = 0 THEN ReadStart(h) ELSE ReadWord(f[k - 1], off + k - 1)
    <3> HIDE DEF N, loop, S
    <3>1. ASSUME NEW k \in 0 .. N, k # 0 PROVE f[k] = ReadWord(f[k - 1], off + k - 1)
      <4>1. k \in 1 .. N
        BY <1>0, <3>1
      <4>2. \A j \in 1 .. N : f[j] = ReadWord(f[j - 1], off + j - 1)
        BY <1>4
      <4>3. QED BY <4>1, <4>2, Zenon
    <3>2. QED BY <1>4, <3>1, Zenon
  <2>2. Body(f) = [k \in 0 .. N |-> IF k = 0 THEN ReadStart(h) ELSE ReadWord(f[k - 1], off + k - 1)]
    BY DEF ReadStart
  <2> HIDE DEF N, Body, loop, S
  <2>3. QED BY <1>4, <2>1, <2>2
<1>6. loop = Body(loop)
  <2>1. loop = CHOOSE g : g = Body(g)
    BY DEF Body
  <2> HIDE DEF loop, Body
  <2>2. QED BY <1>5, <2>1
<1>7. ReadLoop(h, off, last) = loop[last - off]
  BY DEF ReadLoop
<1> HIDE DEF loop
<1>8. ReadRuns(loop, h, off, last)
  <2>1. Body(loop) = [k \in 0 .. N |-> IF k = 0 THEN ReadStart(h) ELSE ReadWord(loop[k - 1], off + k - 1)]
    BY DEF ReadStart
  <2> HIDE DEF N, Body, S
  <2>2. \A k \in 0 .. N : loop[k] = IF k = 0 THEN ReadStart(h) ELSE ReadWord(loop[k - 1], off + k - 1)
    BY <1>6, <2>1
  <2>3. 0 \in 0 .. N /\ \A k \in 1 .. N : k \in 0 .. N /\ k # 0
    BY <1>0
  <2>4. loop[0] = ReadStart(h) /\ \A k \in 1 .. N : loop[k] = ReadWord(loop[k - 1], off + k - 1)
    BY <2>2, <2>3, Zenon
  <2>5. QED BY <2>4, Zenon DEF ReadRuns, N
<1>9. QED BY <1>7, <1>8

WriteAcc == [at : Handle, off : Nat, stop : BOOLEAN]

\* One round writes its word, or there is no block for it and the loop stops.
LEMMA WriteWordFacts ==
    ASSUME NEW h, NEW O, Owned(h, O), NEW acc \in WriteAcc, Owned(acc.at, O), Grew(h, acc.at, O),
           acc.off < MAXFILE * BSIZE, NEW w \in Cell
    PROVE  LET t == WriteWord(acc, w)
           IN  /\ t \in WriteAcc /\ Owned(t.at, O) /\ Grew(h, t.at, O)
               /\ acc.stop => t = acc
               /\ (t.off = acc.off /\ t.stop) \/ (t.off = acc.off + 1 /\ ~acc.stop)
               /\ \A o \in Within :
                    W(t.at, o) = IF o = acc.off /\ t.off # acc.off THEN w ELSE W(acc.at, o)
<1> DEFINE bn == acc.off \div BSIZE  j == acc.off % BSIZE  g == bmap(acc.at, bn)
           f == WordSet(g, j, w)
           t == WriteWord(acc, w)
<1>1. bn \in 0 .. MAXFILE - 1 /\ acc.off \in Within
  BY WordPlace DEF WriteAcc, Within
<1>2. t = IF acc.stop THEN acc ELSE IF g.addr = 0 THEN [acc EXCEPT !.at = g, !.stop = TRUE]
          ELSE [acc EXCEPT !.at = f, !.off = @ + 1]
  BY DEF WriteWord, WordSet
<1> HIDE DEF bn, j, t
<1>3. Owned(g, O) /\ Filled(acc.at, g, O) /\ g.addr = AddrAt(g, acc.off)
  <2>1. g.addr = P(g, DataPlace(bn)) /\ Owned(g, O) /\ Filled(acc.at, g, O)
    BY <1>1, BmapFacts
  <2>2. QED BY <2>1 DEF AddrAt, bn
<1> HIDE DEF g
<1>4. Grew(h, g, O) /\ g \in Handle
  BY <1>3, GrewTwice DEF Filled, Owned
<1>5. \A o \in Within : W(g, o) = W(acc.at, o)
  BY <1>3, FilledWords
<1>6. CASE acc.stop
  BY <1>2, <1>6 DEF t
<1>7. CASE ~acc.stop /\ g.addr = 0
  <2>1. t = [at |-> g, off |-> acc.off, stop |-> TRUE]
    BY <1>2, <1>7 DEF WriteAcc
  <2>2. QED BY <1>3, <1>4, <1>5, <1>7, <2>1 DEF WriteAcc, t
<1>8. CASE ~acc.stop /\ g.addr # 0
  <2>1. t = [at |-> f, off |-> acc.off + 1, stop |-> acc.stop]
    BY <1>2, <1>8 DEF WriteAcc
  <2>2. /\ Owned(f, O) /\ Grew(g, f, O)
        /\ \A o \in Within : W(f, o) = IF o = acc.off THEN w ELSE W(g, o)
    BY <1>1, <1>3, <1>8, WordSetWords DEF j
  <2> HIDE DEF f
  <2>3. Grew(h, f, O) /\ f \in Handle
    BY <1>3, <1>4, <2>2, GrewTwice DEF Owned
  <2>4. t \in WriteAcc /\ t.at = f /\ t.off = acc.off + 1 /\ t.off # acc.off
    BY <2>1, <2>3 DEF WriteAcc
  <2>5. \A o \in Within : W(t.at, o) = IF o = acc.off /\ t.off # acc.off THEN w ELSE W(acc.at, o)
    BY <1>5, <2>2, <2>4
  <2> HIDE DEF t
  <2>6. QED BY <1>8, <2>2, <2>3, <2>4, <2>5 DEF t
<1>9. QED BY <1>6, <1>7, <1>8 DEF WriteAcc

\* The words of a file after the words ws from offset off up to end were written.
WrittenOver(h, d, off, ws) ==
    \A o \in Within : W(d.at, o) = IF off <= o /\ o < d.off THEN ws[o - off + 1] ELSE W(h, o)

\* A write changes only the words it counts and fills in pointers.
LEMMA WriteLoopFacts ==
    ASSUME NEW h, NEW O, Owned(h, O), NEW off \in Nat, NEW ws, Len(ws) \in Nat,
           \A k \in 1 .. Len(ws) : ws[k] \in Cell, off + Len(ws) <= MAXFILE * BSIZE
    PROVE  LET d == WriteLoop(h, off, ws)
           IN  /\ Owned(d.at, O) /\ Grew(h, d.at, O) /\ d.off \in off .. off + Len(ws)
               /\ WrittenOver(h, d, off, ws)
<1> DEFINE N == Len(ws)
<1>1. N \in Nat /\ off + N <= MAXFILE * BSIZE /\ MAXFILE * BSIZE \in Nat
  BY Sizes
<1>2. PICK f : WriteLoop(h, off, ws) = f[N] /\ WriteRuns(f, h, off, ws)
  BY WriteLoopIs
<1> DEFINE S == {n \in 0 .. N : f[n] \in WriteAcc /\ Owned(f[n].at, O) /\ Grew(h, f[n].at, O)
                               /\ f[n].off \in off .. off + n /\ (f[n].stop \/ f[n].off = off + n)
                               /\ WrittenOver(h, f[n], off, ws)}
<1>3. 0 \in S
  <2>1. Owned(h, O) /\ Grew(h, h, O) /\ h \in Handle
    BY FilledSelf DEF Filled, Owned
  <2>2. f[0] = [at |-> h, off |-> off, stop |-> FALSE]
    BY <1>2 DEF WriteStart, WriteRuns
  <2> HIDE DEF N
  <2>3. f[0] \in WriteAcc /\ f[0].at = h /\ f[0].off = off
    BY <2>1, <2>2 DEF WriteAcc
  <2>4. 0 \in 0 .. N /\ off \in off .. off + 0 /\ off = off + 0
    BY <1>1
  <2>5. WrittenOver(h, f[0], off, ws)
    BY <2>3 DEF WrittenOver, Within
  <2>6. QED BY <2>1, <2>3, <2>4, <2>5
<1>4. ASSUME NEW n \in 1 .. N, n - 1 \in S PROVE n \in S
  <2> DEFINE acc == f[n - 1]
  <2>1. /\ acc \in WriteAcc /\ Owned(acc.at, O) /\ Grew(h, acc.at, O) /\ acc.off \in off .. off + (n - 1)
        /\ acc.stop \/ acc.off = off + (n - 1)
        /\ WrittenOver(h, acc, off, ws)
    BY <1>4
  <2>2. f[n] = WriteWord(acc, ws[n]) /\ ws[n] \in Cell
    BY <1>2 DEF WriteRuns
  <2> HIDE DEF acc, N
  <2>3. acc.off < MAXFILE * BSIZE
    BY <1>1, <2>1
  <2>4. /\ f[n] \in WriteAcc /\ Owned(f[n].at, O) /\ Grew(h, f[n].at, O)
        /\ (f[n].off = acc.off /\ f[n].stop) \/ (f[n].off = acc.off + 1 /\ ~acc.stop)
        /\ \A o \in Within : W(f[n].at, o) = IF o = acc.off /\ f[n].off # acc.off THEN ws[n] ELSE W(acc.at, o)
    BY <2>1, <2>2, <2>3, WriteWordFacts
  <2> DEFINE t == f[n]
  <2> HIDE DEF t
  <2>5. t.off \in off .. off + n /\ (t.stop \/ t.off = off + n) /\ acc.off \in Nat /\ t.off \in Nat
    BY <1>1, <2>1, <2>4 DEF t
  <2>6. WrittenOver(h, t, off, ws)
    <3>1. ASSUME NEW o \in Within
          PROVE  W(t.at, o) = IF off <= o /\ o < t.off THEN ws[o - off + 1] ELSE W(h, o)
      <4>0. /\ W(acc.at, o) = IF off <= o /\ o < acc.off THEN ws[o - off + 1] ELSE W(h, o)
            /\ o \in Nat
            /\ W(t.at, o) = IF o = acc.off /\ t.off # acc.off THEN ws[n] ELSE W(acc.at, o)
        BY <2>1, <2>4 DEF WrittenOver, Within, t
      <4>1. CASE t.off = acc.off
        BY <4>0, <4>1
      <4>2. CASE t.off = acc.off + 1 /\ acc.off = off + (n - 1)
        <5>1. CASE o = acc.off
          <6>1. o - off + 1 = n /\ off <= o /\ o < t.off /\ t.off # acc.off
            BY <1>1, <2>5, <4>2, <5>1
          <6>2. QED BY <4>0, <5>1, <6>1
        <5>2. CASE o # acc.off
          <6>1. o < t.off <=> o < acc.off
            BY <2>5, <4>0, <4>2, <5>2
          <6>2. QED BY <4>0, <5>2, <6>1
        <5>3. QED BY <5>1, <5>2
      <4>3. QED BY <2>1, <2>4, <4>1, <4>2 DEF t
    <3>2. QED BY <3>1 DEF WrittenOver
  <2>7. QED BY <2>4, <2>5, <2>6 DEF t
<1>5. N \in S
  <2> HIDE DEF S, N
  <2>1. 0 .. N \subseteq S
    BY <1>1, <1>3, <1>4, UpTo
  <2>2. QED BY <1>1, <2>1
<1>6. QED BY <1>2, <1>5

ReadAcc == [at : Handle, words : Seq(Cell), stop : BOOLEAN]

\* The words read from offset off on are those of the file, and they are all of
\* the n words unless a round found the disk full.
ReadSoFar(h, a, off, n) ==
    /\ Len(a.words) <= n /\ (a.stop \/ Len(a.words) = n)
    /\ \A k \in 1 .. Len(a.words) : a.words[k] = W(h, off + k - 1)
    /\ a.stop => a.at.used = Block

\* One round reads its word, or there is no block for it and the loop stops.
LEMMA ReadWordFacts ==
    ASSUME NEW h, NEW O, Owned(h, O), NEW acc \in ReadAcc, Owned(acc.at, O), Filled(h, acc.at, O),
           NEW off \in Nat, NEW n \in Nat, off + n \in Within, ReadSoFar(h, acc, off, n)
    PROVE  LET t == ReadWord(acc, off + n)
           IN  t \in ReadAcc /\ Owned(t.at, O) /\ Filled(h, t.at, O) /\ ReadSoFar(h, t, off, n + 1)
<1> DEFINE o == off + n  g == bmap(acc.at, o \div BSIZE)  t == ReadWord(acc, o)
           word == g.content[g.addr][o % BSIZE]
<1>1. o \div BSIZE \in 0 .. MAXFILE - 1 /\ o % BSIZE \in 0 .. NINDIRECT - 1 /\ o \in Within
  BY WordPlace DEF Within
<1>2. Owned(g, O) /\ Filled(acc.at, g, O) /\ g.addr = AddrAt(g, o) /\ Exhausts(g)
  <2>1. g.addr = P(g, DataPlace(o \div BSIZE)) /\ Owned(g, O) /\ Filled(acc.at, g, O) /\ Exhausts(g)
    BY <1>1, BmapFacts, BmapExhausts
  <2>2. QED BY <2>1 DEF AddrAt
<1>3. t = IF acc.stop THEN acc ELSE IF g.addr = 0 THEN [acc EXCEPT !.at = g, !.stop = TRUE]
          ELSE [acc EXCEPT !.at = g, !.words = Append(@, word)]
  BY DEF ReadWord
<1> HIDE DEF g, t, o
<1>4. Filled(h, g, O) /\ g \in Handle
  BY <1>2, FilledTwice DEF Owned
<1>5. W(g, o) = W(h, o)
  BY <1>1, <1>2, <1>4, FilledWords
<1>6. g.addr # 0 => word \in Cell /\ word = W(g, o)
  <2>1. g.addr # 0 => g.addr \in Block
    <3>1. DataPlace(o \div BSIZE) \in Place
      BY <1>1, DataPlaceTyped
    <3>2. QED BY <1>2, <1>4, <3>1 DEF Owned, Handle, AddrAt
  <2>2. QED BY <1>1, <1>2, <1>4, <2>1 DEF Handle, BlockWords, W, WordAt, AddrAt, P, At
<1> HIDE DEF word
<1>7. /\ acc.words \in Seq(Cell) /\ acc.stop \in BOOLEAN /\ Len(acc.words) \in Nat
  BY DEF ReadAcc
<1>8. CASE acc.stop
  BY <1>3, <1>7, <1>8 DEF ReadSoFar, t, o
<1>9. CASE ~acc.stop /\ g.addr = 0
  <2>1. t = [at |-> g, words |-> acc.words, stop |-> TRUE]
    BY <1>3, <1>9 DEF ReadAcc
  <2>2. t \in ReadAcc /\ t.at = g /\ t.words = acc.words /\ t.stop = TRUE
    BY <1>4, <1>7, <2>1 DEF ReadAcc
  <2>3. g.used = Block
    BY <1>2, <1>9 DEF Exhausts
  <2>4. ReadSoFar(h, t, off, n + 1)
    BY <1>7, <2>2, <2>3 DEF ReadSoFar
  <2>5. QED BY <1>2, <1>4, <2>2, <2>4 DEF t, o
<1>10. CASE ~acc.stop /\ g.addr # 0
  <2> DEFINE ws == Append(acc.words, word)
  <2>1. t = [at |-> g, words |-> ws, stop |-> acc.stop]
    BY <1>3, <1>10 DEF ReadAcc
  <2>2. ws \in Seq(Cell) /\ Len(ws) = Len(acc.words) + 1 /\ Len(acc.words) = n
    BY <1>6, <1>7, <1>10 DEF ReadSoFar
  <2>3. ASSUME NEW k \in 1 .. Len(ws) PROVE ws[k] = W(h, off + k - 1)
    <3>1. CASE k = Len(ws)
      <4>1. ws[k] = word
        BY <1>6, <1>7, <1>10, <2>2, <3>1
      <4>2. off + k - 1 = o
        BY <2>2, <3>1 DEF o
      <4>3. QED BY <1>5, <1>6, <1>10, <4>1, <4>2
    <3>2. CASE k # Len(ws)
      <4>1. k \in 1 .. Len(acc.words) /\ ws[k] = acc.words[k]
        BY <1>6, <1>7, <1>10, <2>2, <3>2
      <4>2. QED BY <4>1 DEF ReadSoFar
    <3>3. QED BY <3>1, <3>2
  <2> HIDE DEF ws
  <2>4. t \in ReadAcc /\ t.at = g /\ t.words = ws /\ t.stop = FALSE
    BY <1>4, <1>7, <1>10, <2>1, <2>2 DEF ReadAcc
  <2>5. ReadSoFar(h, t, off, n + 1)
    BY <2>2, <2>3, <2>4 DEF ReadSoFar
  <2>6. QED BY <1>2, <1>4, <2>4, <2>5 DEF t, o
<1>11. QED BY <1>7, <1>8, <1>9, <1>10

\* A read changes no word of the file.
LEMMA ReadLoopFacts ==
    ASSUME NEW h, NEW O, Owned(h, O), NEW off \in Nat, NEW last \in Nat, off <= last,
           last <= MAXFILE * BSIZE
    PROVE  LET d == ReadLoop(h, off, last)
           IN  d \in ReadAcc /\ Owned(d.at, O) /\ Filled(h, d.at, O) /\ ReadSoFar(h, d, off, last - off)
<1> DEFINE N == last - off
<1>1. N \in Nat /\ off + N <= MAXFILE * BSIZE /\ MAXFILE * BSIZE \in Nat
  BY Sizes
<1>2. PICK f : ReadLoop(h, off, last) = f[N] /\ ReadRuns(f, h, off, last)
  BY <1>1, ReadLoopIs
<1> DEFINE Acc(a, n) == a \in ReadAcc /\ Owned(a.at, O) /\ Filled(h, a.at, O) /\ ReadSoFar(h, a, off, n)
           S == {n \in 0 .. N : Acc(f[n], n)}
<1>3. 0 \in S
  <2>1. Owned(h, O) /\ Filled(h, h, O) /\ h \in Handle
    BY FilledSelf DEF Owned
  <2>2. f[0] = [at |-> h, words |-> <<>>, stop |-> FALSE] /\ <<>> \in Seq(Cell)
    BY <1>2 DEF ReadStart, ReadRuns
  <2> HIDE DEF N
  <2>3. f[0] \in ReadAcc /\ f[0].at = h /\ f[0].words = <<>> /\ f[0].stop = FALSE
    BY <2>1, <2>2 DEF ReadAcc
  <2>4. 0 \in 0 .. N
    BY <1>1
  <2>5. ReadSoFar(h, f[0], off, 0)
    BY <2>1, <2>3 DEF ReadSoFar
  <2>6. QED BY <2>1, <2>3, <2>4, <2>5
<1>4. ASSUME NEW n \in 1 .. N, n - 1 \in S PROVE n \in S
  <2> DEFINE m == n - 1
  <2>1. Acc(f[m], m) /\ m \in Nat /\ m + 1 = n
    BY <1>1, <1>4
  <2>2. f[n] = ReadWord(f[m], off + m)
    <3>1. off + n - 1 = off + m
      BY <1>1
    <3>2. QED BY <1>2, <3>1 DEF ReadRuns
  <2>3. off + m \in Within
    BY <1>1 DEF Within
  <2> HIDE DEF m, N
  <2>4. Acc(f[n], m + 1)
    BY <2>1, <2>2, <2>3, ReadWordFacts
  <2>5. QED BY <2>1, <2>4
<1>5. N \in S
  <2> HIDE DEF S, N
  <2>1. 0 .. N \subseteq S
    BY <1>1, <1>3, <1>4, UpTo
  <2>2. QED BY <1>1, <2>1
<1>6. QED BY <1>2, <1>5

\* Writing one word: the word is there when the loop counts it, as it does when
\* there is a block, and no other word of a block that was there has changed.
LEMMA WordLinked ==
    ASSUME NEW h, NEW O, Owned(h, O), NEW off \in Nat, off < MAXFILE * BSIZE, NEW w \in Cell
    PROVE  LET d == WriteLoop(h, off, <<w>>)
           IN  /\ Owned(d.at, O) /\ Grew(h, d.at, O) /\ d.off \in {off, off + 1}
               /\ d.off = off + 1 => W(d.at, off) = w /\ AddrAt(d.at, off) # 0
               /\ AddrAt(h, off) # 0 => d.off = off + 1
               /\ \A o \in Nat : o < MAXFILE * BSIZE /\ o # off /\ AddrAt(h, o) # 0 => W(d.at, o) = W(h, o)
<1> DEFINE bn == off \div BSIZE  j == off % BSIZE  g == bmap(h, bn)  q == DataPlace(bn)
           f == WordSet(g, j, w)
           d == WriteLoop(h, off, <<w>>)
<1>1. bn \in 0 .. MAXFILE - 1 /\ j \in 0 .. NINDIRECT - 1
  BY WordPlace
<1>2. d = IF g.addr = 0 THEN [at |-> g, off |-> off, stop |-> TRUE]
          ELSE [at |-> f, off |-> off + 1, stop |-> FALSE]
  <2>1. Len(<<w>>) = 1 /\ <<w>>[1] = w
    OBVIOUS
  <2>2. PICK r : d = r[1] /\ WriteRuns(r, h, off, <<w>>)
    BY <2>1, WriteLoopIs
  <2>3. r[0] = WriteStart(h, off) /\ r[1] = WriteWord(r[0], w)
    BY <2>1, <2>2 DEF WriteRuns
  <2>4. WriteWord(WriteStart(h, off), w) =
          IF g.addr = 0 THEN [at |-> g, off |-> off, stop |-> TRUE]
          ELSE [at |-> f, off |-> off + 1, stop |-> FALSE]
    <3>1. h \in Handle /\ g \in Handle
      <4>1. Owned(g, O)
        BY <1>1, BmapFacts
      <4>2. QED BY <4>1 DEF Owned
    <3>2. WriteWord(WriteStart(h, off), w) =
            IF g.addr = 0 THEN [WriteStart(h, off) EXCEPT !.at = g, !.stop = TRUE]
            ELSE [WriteStart(h, off) EXCEPT !.at = f, !.off = @ + 1]
      BY DEF WriteWord, WriteStart, WordSet
    <3> HIDE DEF g, f
    <3>3. QED BY <3>1, <3>2 DEF WriteStart
  <2>5. QED BY <2>2, <2>3, <2>4
<1> HIDE DEF bn, j, d
<1>3. Owned(g, O) /\ Filled(h, g, O) /\ g.addr = P(g, q) /\ q \in Place /\ IsData(q)
  BY <1>1, BmapFacts, DataPlaceTyped
<1> HIDE DEF g
<1>4. AddrAt(h, off) # 0 => g.addr # 0
  BY <1>3 DEF AddrAt, bn, Filled, Grew
<1>5. \A o \in Nat : o < MAXFILE * BSIZE /\ AddrAt(h, o) # 0 =>
        AddrAt(g, o) = AddrAt(h, o) /\ W(g, o) = W(h, o)
  <2>1. ASSUME NEW o \in Nat, o < MAXFILE * BSIZE, AddrAt(h, o) # 0
        PROVE  AddrAt(g, o) = AddrAt(h, o) /\ W(g, o) = W(h, o)
    <3>1. DataPlace(o \div BSIZE) \in Place /\ IsData(DataPlace(o \div BSIZE))
      BY <2>1, WordPlace, DataPlaceTyped
    <3>2. AddrAt(g, o) = AddrAt(h, o) /\ g.content[AddrAt(h, o)] = h.content[AddrAt(h, o)]
      BY <1>3, <2>1, <3>1 DEF AddrAt, Filled, Grew
    <3>3. QED BY <2>1, <3>2 DEF W, WordAt, AddrAt, P, At
  <2>2. QED BY <2>1
<1>6. CASE g.addr = 0
  <2>1. d.at = g /\ d.off = off
    BY <1>2, <1>6
  <2>2. off # off + 1
    OBVIOUS
  <2>3. QED BY <1>3, <1>4, <1>5, <1>6, <2>1, <2>2 DEF Filled, d
<1>7. CASE g.addr # 0
  <2>1. d.at = f /\ d.off = off + 1
    BY <1>2, <1>7
  <2>2. /\ Owned(f, O) /\ Grew(g, f, O)
        /\ \A p \in Place : P(f, p) = P(g, p)
        /\ f.content[g.addr][j] = w
        /\ \A b \in Block, k \in 0 .. NINDIRECT - 1 :
             b # g.addr \/ k # j => f.content[b][k] = g.content[b][k]
    <3> HIDE DEF q
    <3>1. QED BY <1>1, <1>3, <1>7, WordWritten
  <2> HIDE DEF f
  <2>3. Grew(h, f, O)
    BY <1>3, <2>2, GrewTwice DEF Filled
  <2>4. \A o \in Nat : o < MAXFILE * BSIZE => AddrAt(f, o) = AddrAt(g, o)
    BY <2>2, WordPlace, DataPlaceTyped DEF AddrAt
  <2>5. AddrAt(f, off) = g.addr /\ W(f, off) = w
    <3>1. AddrAt(f, off) = g.addr
      BY <1>3, <2>4 DEF AddrAt, bn
    <3>2. QED BY <1>7, <2>2, <3>1 DEF W, WordAt, AddrAt, P, At, j
  <2>6. ASSUME NEW o \in Nat, o < MAXFILE * BSIZE, o # off, AddrAt(h, o) # 0
        PROVE  W(f, o) = W(h, o)
    <3>1. AddrAt(g, o) # 0 /\ W(g, o) = W(h, o) /\ AddrAt(f, o) = AddrAt(g, o)
      BY <1>5, <2>4, <2>6
    <3>2. AddrAt(g, o) # AddrAt(g, off) \/ o % BSIZE # off % BSIZE
      BY <1>3, <2>6, <3>1, WordsApart
    <3>3. AddrAt(g, off) = g.addr
      BY <1>3 DEF AddrAt, bn
    <3>4. AddrAt(g, o) \in Block /\ o % BSIZE \in 0 .. NINDIRECT - 1
      <4>1. DataPlace(o \div BSIZE) \in Place /\ o % BSIZE \in 0 .. NINDIRECT - 1
        BY <2>6, WordPlace, DataPlaceTyped
      <4>2. QED BY <1>3, <3>1, <4>1 DEF AddrAt, Owned, Handle
    <3>5. f.content[AddrAt(g, o)][o % BSIZE] = g.content[AddrAt(g, o)][o % BSIZE]
      BY <2>2, <3>2, <3>3, <3>4 DEF j
    <3>6. W(f, o) = f.content[AddrAt(f, o)][o % BSIZE] /\ W(g, o) = g.content[AddrAt(g, o)][o % BSIZE]
      BY <3>1 DEF W, WordAt, AddrAt, P, At
    <3>7. QED BY <3>1, <3>5, <3>6
  <2>7. QED BY <1>7, <2>1, <2>2, <2>3, <2>5, <2>6 DEF d
<1>8. QED BY <1>6, <1>7

-----------------------------------------------------------------------------
(* The invariant as a predicate of a state of the file system, so that it can *)
(* be followed through the functions a system call chains.                    *)

TableEntry == [ref : Nat, valid : BOOLEAN, ino : InodeType]
FsState == [used : SUBSET Block, content : BlockWords, dinode : [Inum -> InodeType],
            mem : [Inum -> TableEntry], panic : BOOLEAN]

\* Inode i as the file system sees it, and its block pointers.
View(s, i) == IF s.mem[i].valid THEN s.mem[i].ino ELSE s.dinode[i]
V(s, i, p) == Ptr(s.content, View(s, i), p)
Live(s) == {i \in Inum : View(s, i).type # 0}

\* The blocks of the other inodes.
Others(s, i) == {b \in Block : \E j \in Live(s) \ {i}, p \in Place : V(s, j, p) = b}

BlocksInv(s) ==
    /\ \A i \in Live(s), p \in Place : V(s, i, p) # 0 => V(s, i, p) \in s.used
    /\ \A i, j \in Live(s), p, q \in Place :
         V(s, i, p) = V(s, j, q) /\ V(s, i, p) # 0 => i = j /\ p = q

TableOK(s, i) ==
    /\ s.mem[i].ref = 0 => s.mem[i] = NoEntry
    /\ s.mem[i].valid =>
         /\ s.mem[i].ino = [s.dinode[i] EXCEPT !.addrs = s.mem[i].ino.addrs]
         /\ \A k \in 0 .. NDIRECT + 1 : s.dinode[i].addrs[k] \in {0, s.mem[i].ino.addrs[k]}

\* The root directory.
DirSize(s) == View(s, ROOTINO).size
Dent(s, o) == WordAt(s.content, View(s, ROOTINO), o)
Names(s) == {i \in File : \E o \in 0 .. DirSize(s) - 1 : Dent(s, o) = i}
DirOK(s) ==
    /\ \A o \in 0 .. DirSize(s) - 1 : V(s, ROOTINO, DataPlace(o \div BSIZE)) # 0
    /\ \A o, q \in 0 .. DirSize(s) - 1 : Dent(s, o) = Dent(s, q) /\ Dent(s, o) \in File => o = q

Good(s) ==
    /\ s \in FsState /\ s.panic = FALSE
    /\ BlocksInv(s)
    /\ \A i \in Inum : TableOK(s, i)
    /\ s.dinode[ROOTINO].type = 1 /\ s.mem[ROOTINO].ref > 0
    /\ DirOK(s)

LinkOK(s, i) ==
    /\ s.dinode[i].type = 0 => s.mem[i].ref = 0 /\ i \notin Names(s)
    /\ s.dinode[i].type # 0 => (s.dinode[i].nlink = 1 <=> i \in Names(s))
    /\ s.dinode[i].type # 0 /\ i \notin Names(s) => s.mem[i].valid

OpensOK(s, o) ==
    /\ o \in [Inum -> Nat]
    /\ \A i \in Inum : o[i] <= s.mem[i].ref /\ (o[i] > 0 => s.mem[i].valid)

\* Whether the disk is up to date, and the blocks that are marked and belong to
\* no inode.
Current(s) == \A j \in Inum : s.mem[j].valid => s.mem[j].ino = s.dinode[j]

Gone(s) == {b \in s.used : \A j \in Live(s), p \in Place : V(s, j, p) # b}

Whole(s, o) == Good(s) /\ (\A i \in File : LinkOK(s, i)) /\ OpensOK(s, o)

LEMMA Inodes ==
    /\ ROOTINO \in Inum /\ File \subseteq Inum /\ ROOTINO \notin File /\ Inum \subseteq Nat \ {0}
    /\ \A i \in Inum : i # ROOTINO => i \in File
BY InodeAssumption DEF Inum, File, ROOTINO

\* The state s with another inode i, on disk and in the table, and with other
\* blocks: what every function of fs.c that does not panic comes to.
Put(s, i, u, c, d, e) ==
    [used |-> u, content |-> c, dinode |-> [s.dinode EXCEPT ![i] = d],
     mem |-> [s.mem EXCEPT ![i] = e], panic |-> FALSE]

LEMMA StateIs ==
    ASSUME NEW s \in FsState, NEW i \in Inum
    PROVE  /\ s.used \subseteq Block /\ s.content \in BlockWords /\ s.dinode \in [Inum -> InodeType]
           /\ s.mem \in [Inum -> TableEntry] /\ s.dinode[i] \in InodeType /\ s.mem[i] \in TableEntry
           /\ s.mem[i].ref \in Nat /\ s.mem[i].valid \in BOOLEAN /\ s.mem[i].ino \in InodeType
           /\ [s.dinode EXCEPT ![i] = s.dinode[i]] = s.dinode
           /\ [s.mem EXCEPT ![i] = s.mem[i]] = s.mem
           /\ View(s, i) \in InodeType
           /\ s.mem[i] = [ref |-> s.mem[i].ref, valid |-> s.mem[i].valid, ino |-> s.mem[i].ino]
BY DEF FsState, TableEntry, View

\* The table differs from the disk in pointers at most.
LEMMA ViewIs ==
    ASSUME NEW s \in FsState, NEW i \in Inum, TableOK(s, i)
    PROVE  SameButAddrs(View(s, i), s.dinode[i])
<1>1. CASE s.mem[i].valid
  <2> DEFINE d == s.dinode[i]  v == s.mem[i].ino
  <2>1. v = [d EXCEPT !.addrs = v.addrs] /\ d \in InodeType /\ View(s, i) = v
    BY <1>1, StateIs DEF TableOK, View
  <2> HIDE DEF d, v
  <2>2. v.type = d.type /\ v.nlink = d.nlink /\ v.size = d.size
    BY <2>1, InodeTypeIs
  <2>3. QED BY <2>1, <2>2 DEF SameButAddrs, d
<1>2. CASE ~s.mem[i].valid
  BY <1>2 DEF View, SameButAddrs
<1>3. QED BY <1>1, <1>2

Loaded(s, i) ==
    Put(s, i, s.used, s.content, s.dinode[i], [ref |-> s.mem[i].ref, valid |-> TRUE, ino |-> View(s, i)])

LEMMA ilockIs ==
    ASSUME NEW s \in FsState, s.panic = FALSE, NEW i \in Inum, s.mem[i].ref > 0, s.dinode[i].type # 0
    PROVE  ilock(s, i) = Loaded(s, i)
<1> DEFINE e == s.mem[i]  d == s.dinode[i]
           new == [ref |-> e.ref, valid |-> TRUE, ino |-> View(s, i)]
<1>1. /\ e \in TableEntry /\ e.ref \in Nat /\ e.ref > 0 /\ [s.dinode EXCEPT ![i] = d] = s.dinode
      /\ [s.mem EXCEPT ![i] = e] = s.mem
  BY StateIs
<1>2. Loaded(s, i) = [used |-> s.used, content |-> s.content, dinode |-> s.dinode,
                      mem |-> [s.mem EXCEPT ![i] = new], panic |-> FALSE]
  BY <1>1, Zenon DEF Loaded, Put
<1>3. CASE e.valid
  <2>1. ilock(s, i) = s
    BY <1>1, <1>3 DEF ilock
  <2>2. e = new
    BY <1>1, <1>3 DEF View, TableEntry
  <2> HIDE DEF e, new
  <2>3. s = [used |-> s.used, content |-> s.content, dinode |-> s.dinode,
             mem |-> [s.mem EXCEPT ![i] = e], panic |-> FALSE]
    BY <1>1 DEF FsState
  <2>4. QED BY <1>2, <2>1, <2>2, <2>3
<1>4. CASE ~e.valid
  <2> DEFINE t == ilock(s, i)  x == [s.mem[i] EXCEPT !.valid = TRUE, !.ino = s.dinode[i]]
  <2>1. ~(s.mem[i].ref < 1) /\ ~s.mem[i].valid
    BY <1>1, <1>4
  <2>2. t = [s EXCEPT !.mem[i] = x, !.panic = s.panic \/ s.dinode[i].type = 0]
    BY <2>1, Zenon DEF ilock
  <2>3. (s.panic \/ s.dinode[i].type = 0) = FALSE /\ View(s, i) = d
    BY <1>4 DEF View
  <2>4. t = [s EXCEPT !.mem[i] = x, !.panic = FALSE]
    BY <2>2, <2>3, Zenon
  <2>5. x = [e EXCEPT !.valid = TRUE, !.ino = d]
    OBVIOUS
  <2> HIDE DEF e, d, x
  <2>6. x = [ref |-> e.ref, valid |-> TRUE, ino |-> d]
    BY <1>1, <2>5 DEF TableEntry
  <2> HIDE DEF t
  <2>7. t = [used |-> s.used, content |-> s.content, dinode |-> s.dinode,
             mem |-> [s.mem EXCEPT ![i] = x], panic |-> FALSE]
    BY <2>4 DEF FsState
  <2>8. QED BY <1>2, <2>3, <2>6, <2>7 DEF t
<1>5. QED BY <1>3, <1>4

\* The state once the root is locked.
LEMMA RootedIs ==
    ASSUME Now \in FsState, dinode[ROOTINO].type = 1, mem[ROOTINO].ref > 0
    PROVE  /\ Rooted.content = content /\ Rooted.mem[ROOTINO].ino = View(Now, ROOTINO)
           /\ Rooted.used = used /\ Rooted.dinode = dinode /\ Rooted.panic = FALSE
<1>1. ROOTINO \in Inum /\ mem \in [Inum -> TableEntry]
  BY Inodes DEF Now, FsState
<1>2. Now.panic = FALSE /\ Now.mem[ROOTINO].ref > 0 /\ Now.dinode[ROOTINO].type # 0
  BY DEF Now
<1>3. Rooted = Loaded(Now, ROOTINO)
  BY <1>1, <1>2, ilockIs DEF Rooted
<1>4. QED BY <1>1, <1>3 DEF Loaded, Put, Now, FsState

LEMMA NamedIs ==
    ASSUME Now \in FsState, dinode[ROOTINO].type = 1, mem[ROOTINO].ref > 0, NEW i \in File
    PROVE  /\ Named(i) <=> i \in Names(Now)
           /\ DirOffsets(Rooted) = 0 .. DirSize(Now) - 1
           /\ \A o : Entry(Rooted, o) = Dent(Now, o)
           /\ Named(i) => dirlookup(Rooted, i) \in 0 .. DirSize(Now) - 1 /\ Dent(Now, dirlookup(Rooted, i)) = i
<1>1. DirOffsets(Rooted) = 0 .. DirSize(Now) - 1 /\ \A o : Entry(Rooted, o) = Dent(Now, o)
  BY RootedIs DEF DirOffsets, DirSize, Entry, Dent, Now
<1>2. DirSize(Now) \in Nat
  <2>1. View(Now, ROOTINO) \in InodeType
    BY Inodes DEF FsState, View, TableEntry
  <2>2. QED BY <2>1, InodeTypeIs, Sizes DEF DirSize, FileSize
<1> DEFINE at == {o \in DirOffsets(Rooted) : Entry(Rooted, o) = i}
<1>3. dirlookup(Rooted, i) = IF at = {} THEN -1 ELSE Least(at)
  BY DEF dirlookup
<1>4. at # {} => Least(at) \in at
  <2>1. at \in SUBSET (0 .. DirSize(Now) - 1) /\ 0 \in Nat /\ DirSize(Now) - 1 \in Int
    BY <1>1, <1>2
  <2> HIDE DEF at
  <2>2. QED BY <2>1, LeastUpTo
<1>5. at # {} <=> i \in Names(Now)
  BY <1>1 DEF Names
<1>6. at # {} => Least(at) \in 0 .. DirSize(Now) - 1 /\ Dent(Now, Least(at)) = i
  BY <1>1, <1>4
<1> HIDE DEF at
<1>7. QED BY <1>1, <1>2, <1>3, <1>5, <1>6 DEF Named

LEMMA TypeIs ==
    TypeOK <=> Now \in FsState /\ opens \in [Inum -> Nat] /\ panicked \in BOOLEAN
BY DEF TypeOK, Now, FsState, BlockWords, Cell, TableEntry

LEMMA InodeIs == \A i : Inode(i) = View(Now, i)
BY DEF Inode, View, Now

LEMMA BlocksOwnedIs == BlocksOwned <=> BlocksInv(Now)
<1> DEFINE set == {x \in Allocated \X Place : Ptr(content, Inode(x[1]), x[2]) # 0}
<1>1. Allocated = Live(Now) /\ \A i, p : Ptr(content, Inode(i), p) = V(Now, i, p)
  BY InodeIs DEF Allocated, Live, V, Now
<1>2. AllPointers = [x \in set |-> V(Now, x[1], x[2])]
  BY <1>1 DEF AllPointers
<1>3. set = {x \in Live(Now) \X Place : V(Now, x[1], x[2]) # 0}
  BY <1>1
<1> HIDE DEF set
<1>4. NoSharedBlock <=> \A x, y \in set : V(Now, x[1], x[2]) = V(Now, y[1], y[2]) => x = y
  BY <1>2 DEF NoSharedBlock, IsInjective
<1>5. ReferencedIsUsed <=> \A x \in set : V(Now, x[1], x[2]) \in used
  BY <1>2 DEF ReferencedIsUsed, Range
<1>6. \A i \in Live(Now), p \in Place : V(Now, i, p) # 0 => <<i, p>> \in set
  BY <1>3
<1>7. ASSUME BlocksOwned PROVE BlocksInv(Now)
  <2>1. /\ \A x, y \in set : V(Now, x[1], x[2]) = V(Now, y[1], y[2]) => x = y
        /\ \A x \in set : V(Now, x[1], x[2]) \in used
    BY <1>4, <1>5, <1>7 DEF BlocksOwned
  <2>2. ASSUME NEW i \in Live(Now), NEW j \in Live(Now), NEW p \in Place, NEW q \in Place,
               V(Now, i, p) = V(Now, j, q), V(Now, i, p) # 0
        PROVE  i = j /\ p = q
    <3>1. <<i, p>> \in set /\ <<j, q>> \in set
      BY <1>6, <2>2
    <3>2. <<i, p>> = <<j, q>>
      BY <2>1, <2>2, <3>1
    <3>3. QED BY <3>2
  <2>3. ASSUME NEW i \in Live(Now), NEW p \in Place, V(Now, i, p) # 0 PROVE V(Now, i, p) \in used
    <3>1. <<i, p>> \in set
      BY <1>6, <2>3
    <3>2. QED BY <2>1, <3>1
  <2>4. Now.used = used
    BY DEF Now
  <2>5. QED BY <2>2, <2>3, <2>4 DEF BlocksInv
<1>8. ASSUME BlocksInv(Now) PROVE BlocksOwned
  <2>1. \A x \in set : /\ x = <<x[1], x[2]>> /\ x[1] \in Live(Now) /\ x[2] \in Place
                       /\ V(Now, x[1], x[2]) # 0
    BY <1>3
  <2>2. Now.used = used
    BY DEF Now
  <2>3. NoSharedBlock
    <3>1. ASSUME NEW x \in set, NEW y \in set, V(Now, x[1], x[2]) = V(Now, y[1], y[2]) PROVE x = y
      BY <1>8, <2>1, <3>1 DEF BlocksInv
    <3>2. QED BY <1>4, <3>1
  <2>4. ReferencedIsUsed
    BY <1>5, <1>8, <2>1, <2>2 DEF BlocksInv
  <2>5. QED BY <2>3, <2>4 DEF BlocksOwned
<1>9. QED BY <1>7, <1>8

\* StructInv says the same of the variables.
LEMMA WholeIs == StructInv <=> Whole(Now, opens) /\ panicked = FALSE
<1>1. ASSUME StructInv PROVE Whole(Now, opens) /\ panicked = FALSE
  <2>1. TypeOK /\ BlocksOwned /\ TableInv /\ NamesInv /\ DirInv /\ ~panicked
    BY <1>1 DEF StructInv, NoPanic
  <2>2. Now \in FsState /\ opens \in [Inum -> Nat] /\ panicked = FALSE /\ BlocksInv(Now)
    BY <2>1, TypeIs, BlocksOwnedIs DEF TypeOK
  <2>3. dinode[ROOTINO].type = 1 /\ mem[ROOTINO].ref > 0
    BY <2>1 DEF NamesInv
  <2>4. (\A i \in Inum : TableOK(Now, i)) /\ OpensOK(Now, opens)
    BY <2>1, <2>2 DEF TableInv, TableOK, OpensOK, Now
  <2>5. DirOK(Now)
    <3>1. PICK i : i \in File \/ File = {}
      OBVIOUS
    <3>2. DirOffsets(Rooted) = 0 .. DirSize(Now) - 1 /\ \A o : Entry(Rooted, o) = Dent(Now, o)
      BY <2>2, <2>3, RootedIs DEF DirOffsets, DirSize, Entry, Dent, Now
    <3>3. QED BY <2>1, <3>2, InodeIs DEF DirInv, DirOK, V, Now
  <2>6. \A i \in File : LinkOK(Now, i)
    <3>1. \A i \in File : Named(i) <=> i \in Names(Now)
      BY <2>2, <2>3, NamedIs
    <3>2. QED BY <2>1, <3>1 DEF NamesInv, LinkOK, Now
  <2>7. QED BY <2>2, <2>3, <2>4, <2>5, <2>6 DEF Whole, Good, Now
<1>2. ASSUME Whole(Now, opens), panicked = FALSE PROVE StructInv
  <2>1. Now \in FsState /\ BlocksInv(Now) /\ dinode[ROOTINO].type = 1 /\ mem[ROOTINO].ref > 0
        /\ DirOK(Now) /\ (\A i \in Inum : TableOK(Now, i)) /\ OpensOK(Now, opens)
        /\ \A i \in File : LinkOK(Now, i)
    BY <1>2 DEF Whole, Good, Now
  <2>2. TypeOK /\ BlocksOwned /\ NoPanic
    BY <1>2, <2>1, TypeIs, BlocksOwnedIs DEF OpensOK, NoPanic
  <2>3. TableInv
    BY <2>1 DEF TableInv, TableOK, OpensOK, Now
  <2>4. NamesInv
    <3>1. \A i \in File : Named(i) <=> i \in Names(Now)
      BY <2>1, NamedIs
    <3>2. QED BY <2>1, <3>1 DEF NamesInv, LinkOK, Now
  <2>5. DirInv
    <3>1. DirOffsets(Rooted) = 0 .. DirSize(Now) - 1 /\ \A o : Entry(Rooted, o) = Dent(Now, o)
      BY <2>1, RootedIs DEF DirOffsets, DirSize, Entry, Dent, Now
    <3>2. QED BY <2>1, <3>1, InodeIs DEF DirInv, DirOK, V, Now
  <2>6. QED BY <2>2, <2>3, <2>4, <2>5 DEF StructInv
<1>3. QED BY <1>1, <1>2

LEMMA LostIs == StructInv => Lost = Gone(Now) /\ (DiskInodeCurrent <=> Current(Now))
<1> SUFFICES ASSUME StructInv PROVE Lost = Gone(Now) /\ (DiskInodeCurrent <=> Current(Now))
  OBVIOUS
<1> DEFINE set == {x \in Allocated \X Place : Ptr(content, Inode(x[1]), x[2]) # 0}
<1>1. Allocated = Live(Now) /\ \A i, p : Ptr(content, Inode(i), p) = V(Now, i, p)
  BY InodeIs DEF Allocated, Live, V, Now
<1>2. AllPointers = [x \in set |-> V(Now, x[1], x[2])]
  BY <1>1 DEF AllPointers
<1>3. set = {x \in Live(Now) \X Place : V(Now, x[1], x[2]) # 0}
  BY <1>1
<1>4. \A b \in used : b # 0
  BY DEF StructInv, TypeOK, Block
<1>5. \A x \in set : x[1] \in Live(Now) /\ x[2] \in Place
  BY <1>3
<1>6. \A i \in Live(Now), p \in Place : V(Now, i, p) # 0 => <<i, p>> \in set
  BY <1>3
<1> HIDE DEF set
<1>7. Range(AllPointers) = {V(Now, x[1], x[2]) : x \in set}
  BY <1>2 DEF Range
<1>8. ASSUME NEW b \in used
      PROVE  b \in Range(AllPointers) <=> \E i \in Live(Now), p \in Place : V(Now, i, p) = b
  <2>1. ASSUME NEW i \in Live(Now), NEW p \in Place, V(Now, i, p) = b PROVE b \in Range(AllPointers)
    <3>1. <<i, p>> \in set
      BY <1>4, <1>6, <2>1
    <3>2. V(Now, <<i, p>>[1], <<i, p>>[2]) = b
      BY <2>1
    <3>3. QED BY <1>7, <3>1, <3>2
  <2>2. ASSUME b \in Range(AllPointers) PROVE \E i \in Live(Now), p \in Place : V(Now, i, p) = b
    BY <1>5, <1>7, <2>2
  <2>3. QED BY <2>1, <2>2
<1>9. Lost = Gone(Now)
  <2>1. Now.used = used
    BY DEF Now
  <2>2. QED BY <1>8, <2>1 DEF Lost, Gone
<1>10. DiskInodeCurrent <=> Current(Now)
  BY DEF DiskInodeCurrent, Current, Now
<1>11. QED BY <1>9, <1>10

LEMMA LostNext == StructInv' => (Lost = Gone(Now) /\ (DiskInodeCurrent <=> Current(Now)))'
BY LostIs, PTL

LEMMA WholeNext == StructInv' <=> Whole(Now, opens)' /\ (panicked = FALSE)'
BY WholeIs, PTL

LEMMA WholeNextIs == ASSUME NEW s, NEW o, Whole(s, o), Now' = s, opens' = o, panicked' = FALSE PROVE StructInv'
<1>1. Whole(Now', opens')
  OBVIOUS
<1>2. Whole(Now, opens)'
  BY <1>1
<1>3. QED BY <1>2, WholeNext

-----------------------------------------------------------------------------
(* Changing one inode *)

\* Inode v may stand for inode i: it owns blocks of its own.
OwnBlocks(u, c, v, O) ==
    /\ \A p \in Place : Ptr(c, v, p) # 0 => Ptr(c, v, p) \in u \ O
    /\ \A p, q \in Place : Ptr(c, v, p) = Ptr(c, v, q) /\ Ptr(c, v, p) # 0 => p = q

Agree(d, e) ==
    /\ e.ref = 0 => e = NoEntry
    /\ e.valid => /\ e.ino = [d EXCEPT !.addrs = e.ino.addrs]
                  /\ \A k \in 0 .. NDIRECT + 1 : d.addrs[k] \in {0, e.ino.addrs[k]}

Typed(u, c, d, e) == u \in SUBSET Block /\ c \in BlockWords /\ d \in InodeType /\ e \in TableEntry

\* The inode the file system sees then, and whether it may.
Seen(d, e) == IF e.valid THEN e.ino ELSE d
Fits(s, i, u, c, d, e) ==
    /\ Typed(u, c, d, e) /\ Agree(d, e)
    /\ Others(s, i) \subseteq u /\ \A b \in Others(s, i) : c[b] = s.content[b]
    /\ Seen(d, e).type # 0 => OwnBlocks(u, c, Seen(d, e), Others(s, i))

Elsewhere(s, t, i) ==
    \A j \in Inum \ {i} : t.dinode[j] = s.dinode[j] /\ t.mem[j] = s.mem[j] /\ View(t, j) = View(s, j)

Became(t, s, i, u, c, d, e) ==
    /\ t \in FsState /\ t.panic = FALSE /\ t.used = u /\ t.content = c
    /\ t.dinode[i] = d /\ t.mem[i] = e /\ View(t, i) = Seen(d, e) /\ Elsewhere(s, t, i)

LEMMA PutIs ==
    ASSUME NEW s \in FsState, NEW i \in Inum, NEW u, NEW c, NEW d, NEW e, Typed(u, c, d, e)
    PROVE  Became(Put(s, i, u, c, d, e), s, i, u, c, d, e)
<1> DEFINE D == [s.dinode EXCEPT ![i] = d]  M == [s.mem EXCEPT ![i] = e]  t == Put(s, i, u, c, d, e)
<1>1. /\ D \in [Inum -> InodeType] /\ M \in [Inum -> TableEntry] /\ D[i] = d /\ M[i] = e
      /\ \A j \in Inum \ {i} : D[j] = s.dinode[j] /\ M[j] = s.mem[j]
  BY StateIs DEF Typed
<1>2. t = [used |-> u, content |-> c, dinode |-> D, mem |-> M, panic |-> FALSE]
  BY DEF Put
<1> HIDE DEF D, M, t
<1>3. t \in FsState /\ t.panic = FALSE /\ t.used = u /\ t.content = c /\ t.dinode = D /\ t.mem = M
  BY <1>1, <1>2 DEF FsState, Typed
<1>4. QED BY <1>1, <1>3 DEF View, Seen, Elsewhere, Became, t

LEMMA PutBlocks ==
    ASSUME NEW s \in FsState, BlocksInv(s), \A j \in Inum : TableOK(s, j),
           NEW i \in Inum, NEW u, NEW c, NEW d, NEW e, Fits(s, i, u, c, d, e)
    PROVE  LET t == Put(s, i, u, c, d, e)
           IN  /\ BlocksInv(t) /\ (\A j \in Inum : TableOK(t, j)) /\ Others(t, i) = Others(s, i)
               /\ \A j \in Live(s) \ {i}, p \in Place : V(t, j, p) = V(s, j, p)
<1> DEFINE t == Put(s, i, u, c, d, e)  O == Others(s, i)  v == Seen(d, e)
<1>0. Became(t, s, i, u, c, d, e)
  BY PutIs DEF Fits
<1> HIDE DEF t, O, v
<1>1. /\ t.used = u /\ t.content = c /\ t.dinode[i] = d /\ t.mem[i] = e /\ View(t, i) = v
      /\ \A j \in Inum \ {i} : t.dinode[j] = s.dinode[j] /\ t.mem[j] = s.mem[j] /\ View(t, j) = View(s, j)
  BY <1>0 DEF Became, Elsewhere, v
<1>2. Live(t) \ {i} = Live(s) \ {i}
  BY <1>1 DEF Live
<1>3. \A j \in Live(s) \ {i}, p \in Place : V(s, j, p) # 0 => V(s, j, p) \in O
  BY DEF BlocksInv, Others, O, FsState, Live
<1>4. ASSUME NEW j \in Live(s) \ {i} PROVE \A p \in Place : V(t, j, p) = V(s, j, p)
  <2>1. View(t, j) = View(s, j)
    BY <1>1 DEF Live
  <2>2. \A p \in Place : Ptr(s.content, View(s, j), p) # 0 =>
          c[Ptr(s.content, View(s, j), p)] = s.content[Ptr(s.content, View(s, j), p)]
    BY <1>3 DEF V, O, Fits
  <2>3. \A p \in Place : Ptr(c, View(s, j), p) = Ptr(s.content, View(s, j), p)
    BY <2>2, PtrKept
  <2>4. QED BY <1>1, <2>1, <2>3 DEF V
<1>5. Others(t, i) = O
  BY <1>2, <1>4 DEF Others, O
<1>6. i \in Live(t) => OwnBlocks(u, c, v, O)
  BY <1>1 DEF Live, O, Fits, v
<1>7. \A p : V(t, i, p) = Ptr(c, v, p)
  BY <1>1 DEF V
<1>8. BlocksInv(t)
  <2>1. ASSUME NEW j \in Live(t), NEW p \in Place, V(t, j, p) # 0 PROVE V(t, j, p) \in t.used
    <3>1. CASE j = i
      BY <1>1, <1>6, <1>7, <2>1, <3>1 DEF OwnBlocks
    <3>2. CASE j # i
      BY <1>1, <1>2, <1>3, <1>4, <2>1, <3>2 DEF O, Fits
    <3>3. QED BY <3>1, <3>2
  <2>2. ASSUME NEW j \in Live(t), NEW k \in Live(t), NEW p \in Place, NEW q \in Place,
               V(t, j, p) = V(t, k, q), V(t, j, p) # 0
        PROVE  j = k /\ p = q
    <3>1. CASE j = i /\ k = i
      BY <1>6, <1>7, <2>2, <3>1 DEF OwnBlocks
    <3>2. CASE j = i /\ k # i
      <4>1. V(t, k, q) \in O
        BY <1>2, <1>3, <1>4, <2>2, <3>2
      <4>2. V(t, i, p) \notin O
        BY <1>6, <1>7, <2>2, <3>2 DEF OwnBlocks
      <4>3. QED BY <2>2, <3>2, <4>1, <4>2
    <3>3. CASE j # i /\ k = i
      <4>1. V(t, j, p) \in O
        BY <1>2, <1>3, <1>4, <2>2, <3>3
      <4>2. V(t, i, q) \notin O
        BY <1>6, <1>7, <2>2, <3>3 DEF OwnBlocks
      <4>3. QED BY <2>2, <3>3, <4>1, <4>2
    <3>4. CASE j # i /\ k # i
      <4>1. j \in Live(s) /\ k \in Live(s) /\ V(s, j, p) = V(s, k, q) /\ V(s, j, p) # 0
        BY <1>2, <1>4, <2>2, <3>4
      <4>2. QED BY <4>1 DEF BlocksInv
    <3>5. QED BY <3>1, <3>2, <3>3, <3>4
  <2>3. QED BY <2>1, <2>2 DEF BlocksInv
<1>9. \A j \in Inum : TableOK(t, j)
  <2>1. TableOK(t, i)
    BY <1>1 DEF TableOK, Agree, Fits
  <2>2. \A j \in Inum \ {i} : TableOK(t, j)
    BY <1>1 DEF TableOK
  <2>3. QED BY <2>1, <2>2
<1>10. QED BY <1>4, <1>5, <1>8, <1>9 DEF t, O

\* What a system call does to a file leaves the root directory and the links of
\* other files alone.
LEMMA PutGood ==
    ASSUME NEW s, Good(s), NEW i \in File, NEW u, NEW c, NEW d, NEW e, Fits(s, i, u, c, d, e)
    PROVE  LET t == Put(s, i, u, c, d, e)
           IN  /\ Good(t) /\ Names(t) = Names(s) /\ Others(t, i) = Others(s, i)
               /\ \A j \in File \ {i} : LinkOK(s, j) => LinkOK(t, j)
<1> DEFINE t == Put(s, i, u, c, d, e)
<1>1. s \in FsState /\ BlocksInv(s) /\ (\A j \in Inum : TableOK(s, j)) /\ DirOK(s)
      /\ s.dinode[ROOTINO].type = 1 /\ s.mem[ROOTINO].ref > 0 /\ i \in Inum /\ ROOTINO \in Inum \ {i}
  BY Inodes DEF Good
<1>2. /\ BlocksInv(t) /\ (\A j \in Inum : TableOK(t, j)) /\ Others(t, i) = Others(s, i)
      /\ \A j \in Live(s) \ {i}, p \in Place : V(t, j, p) = V(s, j, p)
  BY <1>1, PutBlocks
<1>0. Became(t, s, i, u, c, d, e)
  BY <1>1, PutIs DEF Fits
<1> HIDE DEF t
<1>3. /\ t \in FsState /\ t.panic = FALSE /\ t.content = c
      /\ \A j \in Inum \ {i} : t.dinode[j] = s.dinode[j] /\ t.mem[j] = s.mem[j] /\ View(t, j) = View(s, j)
  BY <1>0 DEF Became, Elsewhere
<1>4. ROOTINO \in Live(s)
  BY <1>1, ViewIs DEF Live, SameButAddrs
<1>5. DirSize(t) = DirSize(s) /\ DirSize(s) \in FileSize
  <2>1. View(s, ROOTINO) \in InodeType
    BY <1>1, StateIs
  <2>2. QED BY <1>1, <1>3, <2>1, InodeTypeIs DEF DirSize
<1>6. ASSUME NEW o \in 0 .. DirSize(s) - 1
      PROVE  V(t, ROOTINO, DataPlace(o \div BSIZE)) = V(s, ROOTINO, DataPlace(o \div BSIZE))
             /\ Dent(t, o) = Dent(s, o)
  <2> DEFINE p == DataPlace(o \div BSIZE)
  <2>1. p \in Place
    <3>1. o \in Nat /\ o < MAXFILE * BSIZE
      BY <1>5, Sizes DEF FileSize
    <3>2. QED BY <3>1, WordPlace, DataPlaceTyped
  <2> HIDE DEF p
  <2>2. V(t, ROOTINO, p) = V(s, ROOTINO, p) /\ V(s, ROOTINO, p) # 0
    BY <1>1, <1>2, <1>4, <2>1 DEF DirOK, p
  <2>3. V(s, ROOTINO, p) \in Others(s, i)
    <3>1. V(s, ROOTINO, p) \in s.used /\ s.used \subseteq Block
      BY <1>1, <1>4, <2>1, <2>2, StateIs DEF BlocksInv
    <3>2. QED BY <1>1, <1>4, <2>1, <3>1 DEF Others
  <2>4. Dent(t, o) = t.content[V(t, ROOTINO, p)][o % BSIZE] /\ Dent(s, o) = s.content[V(s, ROOTINO, p)][o % BSIZE]
    BY <2>2 DEF Dent, WordAt, At, V, p
  <2>5. QED BY <1>3, <2>2, <2>3, <2>4 DEF p, Fits
<1>7. Names(t) = Names(s)
  BY <1>5, <1>6 DEF Names
<1>8. DirOK(t)
  BY <1>1, <1>5, <1>6 DEF DirOK
<1>9. Good(t)
  BY <1>1, <1>2, <1>3, <1>8 DEF Good
<1>10. \A j \in File \ {i} : LinkOK(s, j) => LinkOK(t, j)
  BY <1>3, <1>7, Inodes DEF LinkOK
<1>11. QED BY <1>2, <1>7, <1>9, <1>10 DEF t

-----------------------------------------------------------------------------
(* Blocks that are marked and belong to no inode *)

\* From s to t no block was lost; and if the disk was up to date, it still is.
NoneLost(s, t) == Current(s) => Gone(t) \subseteq Gone(s)
Tidy(s, t) == NoneLost(s, t) /\ (Current(s) => Current(t))

LEMMA TidySelf == ASSUME NEW s PROVE Tidy(s, s)
BY DEF Tidy, NoneLost

LEMMA TidyTwice ==
    ASSUME NEW s, NEW t, NEW r, Tidy(s, t)
    PROVE  (NoneLost(t, r) => NoneLost(s, r)) /\ (Tidy(t, r) => Tidy(s, r))
BY DEF Tidy, NoneLost

\* The blocks of inode v, which stands for inode i after a change, are all that
\* is marked but what was marked and not in the inode before.
Accounts(s, i, u, c, v) ==
    \A b \in u : \/ b \in s.used /\ (View(s, i).type # 0 => \A p \in Place : V(s, i, p) # b)
                 \/ v.type # 0 /\ \E p \in Place : Ptr(c, v, p) = b

LEMMA PutNoneLost ==
    ASSUME NEW s \in FsState, BlocksInv(s), \A j \in Inum : TableOK(s, j),
           NEW i \in Inum, NEW u, NEW c, NEW d, NEW e, Fits(s, i, u, c, d, e),
           Current(s) => Accounts(s, i, u, c, Seen(d, e))
    PROVE  NoneLost(s, Put(s, i, u, c, d, e))
<1> DEFINE t == Put(s, i, u, c, d, e)  v == Seen(d, e)
<1>1. Became(t, s, i, u, c, d, e) /\ \A j \in Live(s) \ {i}, p \in Place : V(t, j, p) = V(s, j, p)
  BY PutIs, PutBlocks DEF Fits
<1> HIDE DEF t, v
<1>2. /\ t.used = u /\ t.content = c /\ View(t, i) = v
      /\ \A j \in Inum \ {i} : View(t, j) = View(s, j)
  BY <1>1 DEF Became, Elsewhere, v
<1>3. Live(s) \ {i} \subseteq Live(t) /\ (v.type # 0 => i \in Live(t)) /\ \A p : V(t, i, p) = Ptr(c, v, p)
  BY <1>2 DEF Live, V
<1>4. ASSUME Current(s), NEW b \in Gone(t) PROVE b \in Gone(s)
  <2>1. b \in u /\ \A j \in Live(t), p \in Place : V(t, j, p) # b
    BY <1>2 DEF Gone
  <2>2. b \in s.used /\ (View(s, i).type # 0 => \A p \in Place : V(s, i, p) # b)
    BY <1>3, <1>4, <2>1 DEF Accounts, v
  <2>3. ASSUME NEW j \in Live(s), NEW p \in Place PROVE V(s, j, p) # b
    <3>1. CASE j = i
      BY <2>2, <3>1 DEF Live
    <3>2. CASE j # i
      BY <1>1, <1>3, <2>1, <3>2
    <3>3. QED BY <3>1, <3>2
  <2>4. QED BY <2>2, <2>3 DEF Gone
<1>5. QED BY <1>4 DEF NoneLost, t

LEMMA PutTidy ==
    ASSUME NEW s \in FsState, BlocksInv(s), \A j \in Inum : TableOK(s, j),
           NEW i \in Inum, NEW u, NEW c, NEW d, NEW e, Fits(s, i, u, c, d, e),
           Current(s) => Accounts(s, i, u, c, Seen(d, e)), e.valid => e.ino = d
    PROVE  Tidy(s, Put(s, i, u, c, d, e))
<1> DEFINE t == Put(s, i, u, c, d, e)
<1>1. NoneLost(s, t)
  BY PutNoneLost
<1>2. Became(t, s, i, u, c, d, e)
  BY PutIs DEF Fits
<1> HIDE DEF t
<1>3. /\ t.dinode[i] = d /\ t.mem[i] = e
      /\ \A j \in Inum \ {i} : t.dinode[j] = s.dinode[j] /\ t.mem[j] = s.mem[j]
  BY <1>2 DEF Became, Elsewhere
<1>4. Current(s) => Current(t)
  BY <1>3 DEF Current
<1>5. QED BY <1>1, <1>4 DEF Tidy, t

-----------------------------------------------------------------------------
(* The inode table *)

Sound(s) == Good(s) /\ \A j \in File : LinkOK(s, j)

LEMMA GoodIs ==
    ASSUME NEW s, Good(s)
    PROVE  s \in FsState /\ s.panic = FALSE /\ BlocksInv(s) /\ \A j \in Inum : TableOK(s, j)
BY DEF Good

\* The inode does not change for the file system.
LEMMA ViewKept ==
    ASSUME NEW s, Sound(s), NEW i \in Inum, NEW e \in TableEntry, e.ref > 0,
           Agree(s.dinode[i], e), Seen(s.dinode[i], e) = View(s, i),
           s.dinode[i].type # 0, s.mem[i].valid => e.valid
    PROVE  LET t == Put(s, i, s.used, s.content, s.dinode[i], e)
           IN  /\ Sound(t) /\ Names(t) = Names(s)
               /\ Became(t, s, i, s.used, s.content, s.dinode[i], e)
               /\ (Current(s) /\ e.valid => e.ino = s.dinode[i]) => Tidy(s, t)
<1> DEFINE t == Put(s, i, s.used, s.content, s.dinode[i], e)
<1>1. s \in FsState /\ BlocksInv(s) /\ \A j \in Inum : TableOK(s, j)
  BY GoodIs DEF Sound
<1>2. Became(t, s, i, s.used, s.content, s.dinode[i], e)
  BY <1>1, PutIs, StateIs DEF Typed
<1> HIDE DEF t
<1>3. /\ t \in FsState /\ t.panic = FALSE /\ t.used = s.used /\ t.content = s.content
      /\ t.mem[i] = e /\ \A j \in Inum : View(t, j) = View(s, j) /\ t.dinode[j] = s.dinode[j]
      /\ \A j \in Inum \ {i} : t.mem[j] = s.mem[j]
  BY <1>2 DEF Became, Elsewhere
<1>4. Live(t) = Live(s)
  BY <1>3 DEF Live
<1>5. \A j \in Inum : \A p : V(t, j, p) = V(s, j, p)
  BY <1>3 DEF V
<1>6. BlocksInv(t)
  BY <1>1, <1>3, <1>4, <1>5 DEF BlocksInv, Live
<1>7. DirSize(t) = DirSize(s) /\ \A o : Dent(t, o) = Dent(s, o)
  BY <1>3, Inodes DEF DirSize, Dent
<1>8. Names(t) = Names(s)
  BY <1>7 DEF Names
<1>9. DirOK(t)
  BY <1>5, <1>7, Inodes DEF Sound, Good, DirOK
<1>10. \A j \in Inum : TableOK(t, j)
  <2>1. TableOK(t, i)
    BY <1>1, <1>3 DEF TableOK, Agree
  <2>2. ASSUME NEW j \in Inum \ {i} PROVE TableOK(t, j)
    <3>1. t.mem[j] = s.mem[j] /\ t.dinode[j] = s.dinode[j] /\ TableOK(s, j)
      BY <1>1, <1>3
    <3>2. QED BY <3>1 DEF TableOK
  <2>3. QED BY <2>1, <2>2
<1>11. t.dinode[ROOTINO].type = 1 /\ t.mem[ROOTINO].ref > 0
  BY <1>3, Inodes DEF Sound, Good
<1>12. \A j \in File : LinkOK(t, j)
  <2>1. ASSUME NEW j \in File PROVE LinkOK(t, j)
    <3>1. LinkOK(s, j) /\ j \in Inum
      BY Inodes DEF Sound
    <3>2. CASE j # i
      BY <1>3, <1>8, <3>1, <3>2 DEF LinkOK
    <3>3. CASE j = i
      BY <1>3, <1>8, <3>1, <3>3 DEF LinkOK
    <3>4. QED BY <3>2, <3>3
  <2>2. QED BY <2>1
<1>13. (Current(s) /\ e.valid => e.ino = s.dinode[i]) => Tidy(s, t)
  <2>1. Gone(t) = Gone(s)
    BY <1>3, <1>4, <1>5 DEF Gone, Live
  <2>2. ASSUME Current(s) /\ e.valid => e.ino = s.dinode[i], Current(s) PROVE Current(t)
    BY <1>3, <2>2 DEF Current
  <2>3. QED BY <2>1, <2>2 DEF Tidy, NoneLost
<1>14. QED BY <1>2, <1>3, <1>6, <1>8, <1>9, <1>10, <1>11, <1>12, <1>13 DEF Sound, Good, t

\* The table and the disk agree on an inode.
LEMMA CurrentView ==
    ASSUME NEW s, Current(s), NEW i \in Inum
    PROVE  View(s, i) = s.dinode[i]
BY DEF Current, View

LEMMA AgreeKept ==
    ASSUME NEW s, NEW i, TableOK(s, i), NEW e, e.ref # 0, e.valid => s.mem[i].valid, e.ino = s.mem[i].ino
    PROVE  Agree(s.dinode[i], e)
<1> DEFINE m == s.mem[i].ino  d == s.dinode[i]  v == s.mem[i].valid
<1>1. v => m = [d EXCEPT !.addrs = m.addrs] /\ \A k \in 0 .. NDIRECT + 1 : d.addrs[k] \in {0, m.addrs[k]}
  BY DEF TableOK
<1>2. e.ino = m /\ (e.valid => v)
  OBVIOUS
<1> HIDE DEF m, d, v
<1>3. Agree(d, e)
  BY <1>1, <1>2 DEF Agree
<1>4. QED BY <1>3 DEF d

LEMMA SelfAgree == ASSUME NEW d \in InodeType PROVE d = [d EXCEPT !.addrs = d.addrs]
BY InodeTypeIs

LEMMA ilockSound ==
    ASSUME NEW s, Sound(s), NEW i \in Inum, s.mem[i].ref > 0, s.dinode[i].type # 0
    PROVE  LET t == ilock(s, i)
           IN  /\ Sound(t) /\ Names(t) = Names(s)
               /\ Became(t, s, i, s.used, s.content, s.dinode[i],
                         [ref |-> s.mem[i].ref, valid |-> TRUE, ino |-> View(s, i)])
               /\ Tidy(s, t)
<1> DEFINE e == [ref |-> s.mem[i].ref, valid |-> TRUE, ino |-> View(s, i)]
<1>1. s \in FsState /\ s.panic = FALSE /\ TableOK(s, i)
  BY GoodIs DEF Sound
<1>2. ilock(s, i) = Put(s, i, s.used, s.content, s.dinode[i], e)
  BY <1>1, ilockIs DEF Loaded
<1>3. e \in TableEntry /\ e.ref > 0 /\ e.valid /\ e.ino = View(s, i) /\ Seen(s.dinode[i], e) = View(s, i)
  BY <1>1, StateIs DEF TableEntry, Seen
<1> HIDE DEF e
<1>4. Agree(s.dinode[i], e)
  <2>1. CASE s.mem[i].valid
    <3>1. e.ref # 0 /\ e.ino = s.mem[i].ino
      BY <1>1, <1>3, <2>1, StateIs DEF TableEntry, View
    <3>2. QED BY <1>1, <2>1, <3>1, AgreeKept
  <2>2. CASE ~s.mem[i].valid
    <3> DEFINE d == s.dinode[i]
    <3>1. d \in InodeType /\ e.ino = d
      BY <1>1, <1>3, <2>2, StateIs DEF View
    <3> HIDE DEF d
    <3>2. d = [d EXCEPT !.addrs = d.addrs]
      BY <3>1, SelfAgree
    <3>3. e.ino = [d EXCEPT !.addrs = e.ino.addrs]
      BY <3>1, <3>2
    <3>4. Agree(d, e)
      BY <1>3, <3>1, <3>3 DEF Agree
    <3>5. QED BY <3>4 DEF d
  <2>3. QED BY <2>1, <2>2
<1>5. Current(s) /\ e.valid => e.ino = s.dinode[i]
  BY <1>3, CurrentView
<1>6. QED BY <1>2, <1>3, <1>4, <1>5, ViewKept DEF e

LEMMA igetSound ==
    ASSUME NEW s, Sound(s), NEW i \in Inum, s.dinode[i].type # 0
    PROVE  LET t == iget(s, i)
           IN  /\ Sound(t) /\ Names(t) = Names(s)
               /\ Became(t, s, i, s.used, s.content, s.dinode[i],
                         [ref |-> s.mem[i].ref + 1, valid |-> s.mem[i].valid, ino |-> s.mem[i].ino])
               /\ Tidy(s, t)
<1> DEFINE e0 == s.mem[i]  e == [ref |-> e0.ref + 1, valid |-> e0.valid, ino |-> e0.ino]
<1>1. s \in FsState /\ s.panic = FALSE /\ TableOK(s, i)
  BY GoodIs DEF Sound
<1>2. e0 \in TableEntry /\ e0.ref \in Nat /\ e0.valid \in BOOLEAN /\ e0.ino \in InodeType
  BY <1>1, StateIs
<1>3. iget(s, i) = Put(s, i, s.used, s.content, s.dinode[i], e)
  <2> DEFINE t == iget(s, i)  x == [e0 EXCEPT !.ref = @ + 1]
  <2>1. t = [s EXCEPT !.mem[i] = x]
    BY DEF iget
  <2> HIDE DEF t, e0
  <2>2. x = e
    BY <1>2 DEF TableEntry
  <2> HIDE DEF x, e
  <2>3. t = [used |-> s.used, content |-> s.content, dinode |-> s.dinode,
             mem |-> [s.mem EXCEPT ![i] = x], panic |-> FALSE]
    BY <1>1, <2>1 DEF FsState
  <2>4. [s.dinode EXCEPT ![i] = s.dinode[i]] = s.dinode
    BY <1>1, StateIs
  <2>5. QED BY <2>2, <2>3, <2>4, Zenon DEF Put, t
<1>4. e \in TableEntry /\ e.ref > 0 /\ e.valid = e0.valid /\ e.ino = e0.ino /\ Seen(s.dinode[i], e) = View(s, i)
  BY <1>2 DEF TableEntry, Seen, View
<1> HIDE DEF e
<1>5. Agree(s.dinode[i], e)
  BY <1>1, <1>4 DEF Agree, TableOK
<1>6. Current(s) /\ e.valid => e.ino = s.dinode[i]
  BY <1>4 DEF Current
<1>7. QED BY <1>3, <1>4, <1>5, <1>6, ViewKept DEF e

-----------------------------------------------------------------------------
(* What the assignments to a state come to *)

LEMMA PutSelf ==
    ASSUME NEW s \in FsState, s.panic = FALSE, NEW i \in Inum
    PROVE  s = Put(s, i, s.used, s.content, s.dinode[i], s.mem[i])
<1> DEFINE d == s.dinode[i]  e == s.mem[i]
<1>1. [s.dinode EXCEPT ![i] = d] = s.dinode /\ [s.mem EXCEPT ![i] = e] = s.mem
  BY StateIs
<1> HIDE DEF d, e
<1>2. s = Put(s, i, s.used, s.content, d, e)
  BY <1>1 DEF Put, FsState
<1>3. QED BY <1>2 DEF d, e

LEMMA PutAt ==
    ASSUME NEW s \in FsState, NEW i \in Inum, NEW u, NEW c, NEW d, NEW e
    PROVE  Put(s, i, u, c, d, e).mem[i] = e
<1> DEFINE D == [s.dinode EXCEPT ![i] = d]  M == [s.mem EXCEPT ![i] = e]  t == Put(s, i, u, c, d, e)
<1>1. M[i] = e
  BY StateIs
<1>2. t = [used |-> u, content |-> c, dinode |-> D, mem |-> M, panic |-> FALSE]
  BY DEF Put
<1> HIDE DEF D, M, t
<1>3. t.mem = M
  BY <1>2
<1>4. QED BY <1>1, <1>3 DEF t

LEMMA PutMem ==
    ASSUME NEW s \in FsState, NEW i \in Inum, NEW u, NEW c, NEW d, NEW e, NEW x
    PROVE  [Put(s, i, u, c, d, e) EXCEPT !.mem[i] = x] = Put(s, i, u, c, d, x)
<1> DEFINE D == [s.dinode EXCEPT ![i] = d]  M == [s.mem EXCEPT ![i] = e]  N == [s.mem EXCEPT ![i] = x]
           t == Put(s, i, u, c, d, e)
<1>1. [M EXCEPT ![i] = x] = N
  BY StateIs
<1>2. t = [used |-> u, content |-> c, dinode |-> D, mem |-> M, panic |-> FALSE]
  BY DEF Put
<1> HIDE DEF D, M, N, t
<1>3. t.mem = M
  BY <1>2
<1>4. ASSUME NEW r, r = [t EXCEPT !.mem = N]
      PROVE  r = [used |-> u, content |-> c, dinode |-> D, mem |-> N, panic |-> FALSE]
  BY <1>2, <1>4
<1>5. [t EXCEPT !.mem = N] = [used |-> u, content |-> c, dinode |-> D, mem |-> N, panic |-> FALSE]
  BY <1>4
<1>6. [t EXCEPT !.mem[i] = x] = [t EXCEPT !.mem = N]
  BY <1>1, <1>3
<1>7. QED BY <1>5, <1>6, Zenon DEF Put, D, N, t

LEMMA PutDisk ==
    ASSUME NEW s \in FsState, NEW i \in Inum, NEW u, NEW c, NEW d, NEW e
    PROVE  iupdate(Put(s, i, u, c, d, e), i) = Put(s, i, u, c, e.ino, e)
<1> DEFINE D == [s.dinode EXCEPT ![i] = d]  M == [s.mem EXCEPT ![i] = e]  E == [s.dinode EXCEPT ![i] = e.ino]
           t == Put(s, i, u, c, d, e)
<1>1. [D EXCEPT ![i] = e.ino] = E
  BY StateIs
<1>2. t = [used |-> u, content |-> c, dinode |-> D, mem |-> M, panic |-> FALSE]
  BY DEF Put
<1>0. M[i] = e
  BY StateIs
<1> HIDE DEF D, M, E, t
<1>3. t.dinode = D /\ t.mem[i] = e
  BY <1>0, <1>2
<1>4. ASSUME NEW r, r = [t EXCEPT !.dinode = E]
      PROVE  r = [used |-> u, content |-> c, dinode |-> E, mem |-> M, panic |-> FALSE]
  BY <1>2, <1>4
<1>5. [t EXCEPT !.dinode = E] = [used |-> u, content |-> c, dinode |-> E, mem |-> M, panic |-> FALSE]
  BY <1>4
<1>6. iupdate(t, i) = [t EXCEPT !.dinode = E]
  BY <1>1, <1>3 DEF iupdate
<1>7. QED BY <1>5, <1>6, Zenon DEF Put, E, M, t

LEMMA PutUsed ==
    ASSUME NEW s \in FsState, NEW i \in Inum, NEW u, NEW c, NEW d, NEW e, NEW x
    PROVE  [Put(s, i, u, c, d, e) EXCEPT !.used = x] = Put(s, i, x, c, d, e)
<1> DEFINE D == [s.dinode EXCEPT ![i] = d]  M == [s.mem EXCEPT ![i] = e]  t == Put(s, i, u, c, d, e)
<1>1. t = [used |-> u, content |-> c, dinode |-> D, mem |-> M, panic |-> FALSE]
  BY DEF Put
<1> HIDE DEF D, M, t
<1>2. ASSUME NEW r, r = [t EXCEPT !.used = x]
      PROVE  r = [used |-> x, content |-> c, dinode |-> D, mem |-> M, panic |-> FALSE]
  BY <1>1, <1>2
<1>3. [t EXCEPT !.used = x] = [used |-> x, content |-> c, dinode |-> D, mem |-> M, panic |-> FALSE]
  BY <1>2
<1>4. QED BY <1>3, Zenon DEF Put, D, M, t

\* Assignments to the entry in the table.
LEMMA PutIno ==
    ASSUME NEW s \in FsState, NEW i \in Inum, NEW u, NEW c, NEW d, NEW e \in TableEntry, NEW n
    PROVE  [Put(s, i, u, c, d, e) EXCEPT !.mem[i].ino = n] =
             Put(s, i, u, c, d, [ref |-> e.ref, valid |-> e.valid, ino |-> n])
<1> DEFINE x == [e EXCEPT !.ino = n]  t == Put(s, i, u, c, d, e)
<1> HIDE DEF t
<1>1. t.mem[i] = e
  BY PutAt DEF t
<1>2. x = [ref |-> e.ref, valid |-> e.valid, ino |-> n]
  BY DEF TableEntry
<1>3. [t EXCEPT !.mem[i].ino = n] = [t EXCEPT !.mem[i] = x]
  BY <1>1
<1> HIDE DEF x
<1>4. QED BY <1>2, <1>3, PutMem DEF t

LEMMA PutRef ==
    ASSUME NEW s \in FsState, NEW i \in Inum, NEW u, NEW c, NEW d, NEW e \in TableEntry, NEW n
    PROVE  [Put(s, i, u, c, d, e) EXCEPT !.mem[i].ref = n] =
             Put(s, i, u, c, d, [ref |-> n, valid |-> e.valid, ino |-> e.ino])
<1> DEFINE x == [e EXCEPT !.ref = n]  t == Put(s, i, u, c, d, e)
<1> HIDE DEF t
<1>1. t.mem[i] = e
  BY PutAt DEF t
<1>2. x = [ref |-> n, valid |-> e.valid, ino |-> e.ino]
  BY DEF TableEntry
<1>3. [t EXCEPT !.mem[i].ref = n] = [t EXCEPT !.mem[i] = x]
  BY <1>1
<1> HIDE DEF x
<1>4. QED BY <1>2, <1>3, PutMem DEF t

LEMMA PutType ==
    ASSUME NEW s \in FsState, NEW i \in Inum, NEW u, NEW c, NEW d, NEW e \in TableEntry, NEW n
    PROVE  [Put(s, i, u, c, d, e) EXCEPT !.mem[i].ino.type = n] =
             Put(s, i, u, c, d, [ref |-> e.ref, valid |-> e.valid, ino |-> [e.ino EXCEPT !.type = n]])
<1> DEFINE x == [e EXCEPT !.ino.type = n]  t == Put(s, i, u, c, d, e)
<1> HIDE DEF t
<1>1. t.mem[i] = e
  BY PutAt DEF t
<1>2. x = [ref |-> e.ref, valid |-> e.valid, ino |-> [e.ino EXCEPT !.type = n]]
  BY DEF TableEntry
<1>3. [t EXCEPT !.mem[i].ino.type = n] = [t EXCEPT !.mem[i] = x]
  BY <1>1
<1> HIDE DEF x
<1>4. QED BY <1>2, <1>3, PutMem DEF t

LEMMA PutNlink ==
    ASSUME NEW s \in FsState, NEW i \in Inum, NEW u, NEW c, NEW d, NEW e \in TableEntry, NEW n
    PROVE  [Put(s, i, u, c, d, e) EXCEPT !.mem[i].ino.nlink = n] =
             Put(s, i, u, c, d, [ref |-> e.ref, valid |-> e.valid, ino |-> [e.ino EXCEPT !.nlink = n]])
<1> DEFINE x == [e EXCEPT !.ino.nlink = n]  t == Put(s, i, u, c, d, e)
<1> HIDE DEF t
<1>1. t.mem[i] = e
  BY PutAt DEF t
<1>2. x = [ref |-> e.ref, valid |-> e.valid, ino |-> [e.ino EXCEPT !.nlink = n]]
  BY DEF TableEntry
<1>3. [t EXCEPT !.mem[i].ino.nlink = n] = [t EXCEPT !.mem[i] = x]
  BY <1>1
<1> HIDE DEF x
<1>4. QED BY <1>2, <1>3, PutMem DEF t

LEMMA OwnIs ==
    ASSUME NEW s \in FsState, BlocksInv(s), NEW i \in Inum
    PROVE  /\ Others(s, i) \subseteq s.used
           /\ View(s, i).type # 0 => OwnBlocks(s.used, s.content, View(s, i), Others(s, i))
<1>1. Others(s, i) \subseteq s.used
  BY DEF Others, Block, BlocksInv, Live
<1>2. ASSUME View(s, i).type # 0 PROVE OwnBlocks(s.used, s.content, View(s, i), Others(s, i))
  <2>1. i \in Live(s)
    BY <1>2 DEF Live
  <2>2. ASSUME NEW p \in Place, V(s, i, p) # 0 PROVE V(s, i, p) \in s.used \ Others(s, i)
    <3>1. V(s, i, p) \in s.used
      BY <2>1, <2>2 DEF BlocksInv
    <3>2. ASSUME V(s, i, p) \in Others(s, i) PROVE FALSE
      <4>1. PICK j \in Live(s) \ {i}, q \in Place : V(s, j, q) = V(s, i, p)
        BY <3>2 DEF Others
      <4>2. QED BY <2>1, <2>2, <4>1 DEF BlocksInv
    <3>3. QED BY <3>1, <3>2
  <2>3. \A p, q \in Place : V(s, i, p) = V(s, i, q) /\ V(s, i, p) # 0 => p = q
    BY <2>1 DEF BlocksInv
  <2>4. QED BY <2>2, <2>3 DEF OwnBlocks, V
<1>3. QED BY <1>1, <1>2

-----------------------------------------------------------------------------
(* itrunc and iput *)

\* What itrunc leaves of an inode.
Truncated(ino) ==
    [ino EXCEPT !.addrs = [NoAddrs EXCEPT ![NDIRECT + 1] = ino.addrs[NDIRECT + 1]], !.size = 0]

LEMMA TruncatedIs ==
    ASSUME NEW ino \in InodeType
    PROVE  LET t == Truncated(ino)
           IN  /\ t \in InodeType /\ t.type = ino.type /\ t.nlink = ino.nlink /\ t.size = 0
               /\ ino.addrs[NDIRECT + 1] = 0 => \A c, p : p \in Place => Ptr(c, t, p) = 0
<1> DEFINE left == [NoAddrs EXCEPT ![NDIRECT + 1] = ino.addrs[NDIRECT + 1]]  t == Truncated(ino)
<1>1. ino.addrs \in Addrs /\ NDIRECT + 1 \in 0 .. NDIRECT + 1
  BY InodeTypeIs, Sizes
<1>2. /\ left \in Addrs
      /\ ino.addrs[NDIRECT + 1] = 0 => \A k \in 0 .. NDIRECT + 1 : left[k] = 0
  BY <1>1, Sizes DEF NoAddrs, Addrs
<1>3. t = [ino EXCEPT !.addrs = left, !.size = 0]
  BY DEF Truncated
<1> HIDE DEF left, t
<1>4. 0 \in FileSize
  BY Sizes DEF FileSize
<1>5. t = [type |-> ino.type, nlink |-> ino.nlink, size |-> 0, addrs |-> left]
  BY <1>3, InodeTypeIs
<1>6. t \in InodeType /\ t.type = ino.type /\ t.nlink = ino.nlink /\ t.size = 0 /\ t.addrs = left
  BY <1>2, <1>4, <1>5, InodeTypeIs
<1>7. ASSUME ino.addrs[NDIRECT + 1] = 0, NEW c, NEW p \in Place PROVE Ptr(c, t, p) = 0
  <2>1. p[1] \in 0 .. NDIRECT + 1
    BY DEF Place
  <2>2. t.addrs[p[1]] = 0
    BY <1>2, <1>6, <1>7, <2>1
  <2>3. QED BY <2>2 DEF Ptr, At
<1>8. QED BY <1>6, <1>7 DEF t

LEMMA PointersIs ==
    ASSUME NEW c, NEW ino
    PROVE  /\ IsInjective(Pointers(c, ino)) <=>
                \A p, q \in Place : Ptr(c, ino, p) = Ptr(c, ino, q) /\ Ptr(c, ino, p) # 0 => p = q
           /\ \A b : b \in BlocksOf(c, ino) <=> b # 0 /\ \E p \in Place : Ptr(c, ino, p) = b
<1> DEFINE set == {p \in Place : Ptr(c, ino, p) # 0}  f == [p \in set |-> Ptr(c, ino, p)]
<1>1. Pointers(c, ino) = f
  BY DEF Pointers
<1>2. \A p : p \in set <=> p \in Place /\ Ptr(c, ino, p) # 0
  OBVIOUS
<1>3. DOMAIN f = set /\ \A p \in set : f[p] = Ptr(c, ino, p)
  OBVIOUS
<1> HIDE DEF set, f
<1>4. IsInjective(f) <=> \A p, q \in set : Ptr(c, ino, p) = Ptr(c, ino, q) => p = q
  BY <1>3 DEF IsInjective
<1>5. \A b : b \in Range(f) <=> \E p \in set : Ptr(c, ino, p) = b
  BY <1>3 DEF Range
<1>6. QED BY <1>1, <1>2, <1>4, <1>5 DEF BlocksOf

\* The inode owns its blocks, so that every bfree finds its block marked.
LEMMA itruncIs ==
    ASSUME NEW s \in FsState, s.panic = FALSE, BlocksInv(s), NEW i \in Inum,
           s.mem[i].valid, s.mem[i].ino.type # 0
    PROVE  LET e == s.mem[i]  x == Truncated(e.ino)
           IN  itrunc(s, i) = Put(s, i, s.used \ BlocksOf(s.content, e.ino), s.content, x,
                                  [ref |-> e.ref, valid |-> TRUE, ino |-> x])
<1> DEFINE e == s.mem[i]  ino == e.ino  x == Truncated(ino)  B == BlocksOf(s.content, ino)
           d == s.dinode[i]  u == s.used \ B  f == bfreeAll(s, ino)
<1>1. View(s, i) = ino /\ e \in TableEntry /\ e.valid = TRUE
  BY StateIs DEF View
<1>2. OwnBlocks(s.used, s.content, ino, Others(s, i))
  BY <1>1, OwnIs
<1>3. IsInjective(Pointers(s.content, ino)) /\ B \subseteq s.used
  BY <1>2, PointersIs DEF OwnBlocks
<1>4. f = [s EXCEPT !.used = u]
  BY <1>3 DEF bfreeAll, BlocksOf
<1>5. s = Put(s, i, s.used, s.content, d, e)
  BY PutSelf
<1>6. itrunc(s, i) = iupdate([f EXCEPT !.mem[i].ino = x], i)
  BY DEF itrunc, Truncated
<1> HIDE DEF e, ino, x, B, u, f, d
<1>7. f = Put(s, i, u, s.content, d, e)
  <2>1. [Put(s, i, s.used, s.content, d, e) EXCEPT !.used = u] = Put(s, i, u, s.content, d, e)
    BY PutUsed
  <2>2. QED BY <1>4, <1>5, <2>1, Zenon
<1>8. [f EXCEPT !.mem[i].ino = x] = Put(s, i, u, s.content, d, [ref |-> e.ref, valid |-> e.valid, ino |-> x])
  <2>1. [Put(s, i, u, s.content, d, e) EXCEPT !.mem[i].ino = x] =
          Put(s, i, u, s.content, d, [ref |-> e.ref, valid |-> e.valid, ino |-> x])
    BY <1>1, PutIno
  <2>2. QED BY <1>7, <2>1, Zenon
<1> DEFINE y == [ref |-> e.ref, valid |-> TRUE, ino |-> x]
<1>9. [f EXCEPT !.mem[i].ino = x] = Put(s, i, u, s.content, d, y) /\ y.ino = x
  BY <1>1, <1>8
<1> HIDE DEF y
<1>10. iupdate(Put(s, i, u, s.content, d, y), i) = Put(s, i, u, s.content, y.ino, y)
  BY PutDisk
<1>11. itrunc(s, i) = Put(s, i, u, s.content, x, y)
  BY <1>6, <1>9, <1>10, Zenon
<1>12. QED BY <1>11, Zenon DEF e, ino, x, B, u, y

\* An inode iput frees.
Freed(ino) == [Truncated(ino) EXCEPT !.type = 0]

LEMMA FreedIs == ASSUME NEW ino \in InodeType PROVE Freed(ino) \in InodeType /\ Freed(ino).type = 0
<1>1. Truncated(ino) \in InodeType
  BY TruncatedIs
<1>2. QED BY <1>1, InodeTypeIs DEF Freed

Dropped(e) == [ref |-> e.ref - 1, valid |-> e.valid, ino |-> e.ino]

LEMMA iputIs ==
    ASSUME NEW s \in FsState, s.panic = FALSE, BlocksInv(s), NEW i \in Inum, s.mem[i].ref > 0,
           s.mem[i].valid => s.mem[i].ino.type # 0
    PROVE  LET e == s.mem[i]  d == s.dinode[i]
               last == e.ref = 1 /\ e.valid /\ e.ino.nlink = 0
           IN  /\ last => iput(s, i) = Put(s, i, s.used \ BlocksOf(s.content, e.ino), s.content,
                                           Freed(e.ino), NoEntry)
               /\ ~last /\ e.ref = 1 => iput(s, i) = Put(s, i, s.used, s.content, d, NoEntry)
               /\ e.ref # 1 => iput(s, i) = Put(s, i, s.used, s.content, d, Dropped(e))
<1> DEFINE e == s.mem[i]  d == s.dinode[i]  x == Truncated(e.ino)  y == Freed(e.ino)
           u == s.used \ BlocksOf(s.content, e.ino)
           f == iupdate([itrunc(s, i) EXCEPT !.mem[i].ino.type = 0], i)
           a == [ref |-> e.ref, valid |-> TRUE, ino |-> x]
           b == [ref |-> e.ref, valid |-> TRUE, ino |-> y]
           t == IF e.ref = 1 /\ e.valid /\ e.ino.nlink = 0 THEN f ELSE s
<1>1. e \in TableEntry /\ e.ref \in Nat /\ e.ino \in InodeType /\ e.valid \in BOOLEAN
  BY StateIs
<1>2. s = Put(s, i, s.used, s.content, d, e)
  BY PutSelf
<1>3. iput(s, i) = IF e.ref = 1 THEN [t EXCEPT !.mem[i] = NoEntry] ELSE [t EXCEPT !.mem[i].ref = @ - 1]
  BY DEF iput
<1>4. ASSUME e.valid PROVE f = Put(s, i, u, s.content, y, b)
  <2>1. itrunc(s, i) = Put(s, i, u, s.content, x, a)
    BY <1>4, itruncIs
  <2>2. a \in TableEntry /\ a.ref = e.ref /\ a.valid = TRUE /\ a.ino = x
    BY <1>1, TruncatedIs DEF TableEntry
  <2>3. [x EXCEPT !.type = 0] = y /\ b.ino = y
    BY DEF Freed
  <2>4. f = iupdate([itrunc(s, i) EXCEPT !.mem[i].ino.type = 0], i)
    OBVIOUS
  <2> HIDE DEF a, x, y, u, f, d, e
  <2>5. [Put(s, i, u, s.content, x, a) EXCEPT !.mem[i].ino.type = 0] =
          Put(s, i, u, s.content, x, [ref |-> a.ref, valid |-> a.valid, ino |-> [a.ino EXCEPT !.type = 0]])
    BY <2>2, PutType
  <2>6. [ref |-> a.ref, valid |-> a.valid, ino |-> [a.ino EXCEPT !.type = 0]] = b
    BY <2>2, <2>3
  <2> HIDE DEF b
  <2>7. iupdate(Put(s, i, u, s.content, x, b), i) = Put(s, i, u, s.content, b.ino, b)
    BY PutDisk
  <2>8. QED BY <2>1, <2>3, <2>4, <2>5, <2>6, <2>7, Zenon
<1> HIDE DEF d, x, y, u, f, a, b
<1>5. ASSUME e.ref = 1, e.valid, e.ino.nlink = 0 PROVE iput(s, i) = Put(s, i, u, s.content, y, NoEntry)
  <2>1. iput(s, i) = [f EXCEPT !.mem[i] = NoEntry]
    BY <1>3, <1>5
  <2>2. [Put(s, i, u, s.content, y, b) EXCEPT !.mem[i] = NoEntry] = Put(s, i, u, s.content, y, NoEntry)
    BY PutMem
  <2>3. QED BY <1>4, <1>5, <2>1, <2>2, Zenon
<1>6. ASSUME e.ref = 1, ~(e.valid /\ e.ino.nlink = 0) PROVE iput(s, i) = Put(s, i, s.used, s.content, d, NoEntry)
  <2>1. iput(s, i) = [s EXCEPT !.mem[i] = NoEntry]
    BY <1>3, <1>6
  <2> HIDE DEF e
  <2>2. [Put(s, i, s.used, s.content, d, e) EXCEPT !.mem[i] = NoEntry] = Put(s, i, s.used, s.content, d, NoEntry)
    BY PutMem
  <2>3. QED BY <1>2, <2>1, <2>2, Zenon
<1>7. ASSUME e.ref # 1 PROVE iput(s, i) = Put(s, i, s.used, s.content, d, Dropped(e))
  <2>1. iput(s, i) = [s EXCEPT !.mem[i].ref = e.ref - 1]
    BY <1>3, <1>7
  <2> HIDE DEF e
  <2>2. [Put(s, i, s.used, s.content, d, e) EXCEPT !.mem[i].ref = e.ref - 1] =
          Put(s, i, s.used, s.content, d, [ref |-> e.ref - 1, valid |-> e.valid, ino |-> e.ino])
    BY <1>1, PutRef
  <2>3. QED BY <1>2, <2>1, <2>2, Zenon DEF Dropped
<1>8. QED BY <1>5, <1>6, <1>7, Zenon DEF d, u, y

\* The disk knows some of the pointers of the inode.
LEMMA FewerPointers ==
    ASSUME NEW c, NEW d, NEW v, \A k \in 0 .. NDIRECT + 1 : d.addrs[k] \in {0, v.addrs[k]}, NEW p \in Place
    PROVE  Ptr(c, d, p) \in {0, Ptr(c, v, p)}
<1>1. p[1] \in 0 .. NDIRECT + 1
  BY DEF Place
<1>2. d.addrs[p[1]] = 0 \/ d.addrs[p[1]] = v.addrs[p[1]]
  BY <1>1
<1>3. QED BY <1>2 DEF Ptr, At

LEMMA iputSound ==
    ASSUME NEW s, Sound(s), NEW i \in File, s.mem[i].ref > 0
    PROVE  LET t == iput(s, i)
           IN  /\ Sound(t) /\ Names(t) = Names(s) /\ Elsewhere(s, t, i)
               /\ t.mem[i].ref = s.mem[i].ref - 1
               /\ t.mem[i].ref > 0 => t.mem[i].valid = s.mem[i].valid
               /\ Tidy(s, t)
<1> DEFINE t == iput(s, i)  e == s.mem[i]  d == s.dinode[i]  B == BlocksOf(s.content, e.ino)
           u == s.used \ B  y == Freed(e.ino)  last == e.ref = 1 /\ e.valid /\ e.ino.nlink = 0
<1>1. /\ s \in FsState /\ s.panic = FALSE /\ BlocksInv(s) /\ TableOK(s, i) /\ Good(s)
      /\ i \in Inum /\ LinkOK(s, i) /\ \A j \in File : LinkOK(s, j)
  BY GoodIs, Inodes DEF Sound
<1>2. /\ e \in TableEntry /\ e.ref \in Nat /\ e.ino \in InodeType /\ d \in InodeType
      /\ s.used \subseteq Block /\ s.content \in BlockWords /\ e.ref > 0 /\ e.valid \in BOOLEAN
  BY <1>1, StateIs
<1>3. d.type # 0 /\ d.nlink \in 0 .. 1
  BY <1>1, <1>2, InodeTypeIs DEF LinkOK
<1>4. e.valid => e.ino.type # 0 /\ e.ino.nlink = d.nlink /\ View(s, i) = e.ino
  BY <1>1, <1>3, ViewIs DEF View, SameButAddrs
<1>5. /\ last => t = Put(s, i, u, s.content, y, NoEntry)
      /\ ~last /\ e.ref = 1 => t = Put(s, i, s.used, s.content, d, NoEntry)
      /\ e.ref # 1 => t = Put(s, i, s.used, s.content, d, Dropped(e))
  BY <1>1, <1>2, <1>4, iputIs
<1>6. NoEntry \in TableEntry /\ NoEntry.ref = 0 /\ NoEntry.valid = FALSE
  <2>1. FreeInode \in InodeType
    BY Sizes DEF InodeType, FreeInode, NoAddrs
  <2>2. QED BY <2>1 DEF NoEntry, TableEntry
<1>7. LinkOK(s, i) /\ (s.dinode[i].nlink = 1 <=> i \in Names(s)) /\ (i \notin Names(s) => e.valid /\ d.nlink = 0)
  BY <1>1, <1>3 DEF LinkOK
<1> HIDE DEF t, e, u, y
<1> DEFINE Result == /\ Sound(t) /\ Names(t) = Names(s) /\ Elsewhere(s, t, i)
                     /\ t.mem[i].ref = e.ref - 1 /\ (t.mem[i].ref > 0 => t.mem[i].valid = e.valid)
                     /\ Tidy(s, t)
<1>0. \A j \in Inum : TableOK(s, j)
  BY GoodIs DEF Sound
<1>8. ASSUME last PROVE Result
  <2>1. Fits(s, i, u, s.content, y, NoEntry)
    <3>1. y \in InodeType /\ y.type = 0
      BY <1>2, FreedIs DEF y
    <3>2. Others(s, i) \subseteq u
      <4>1. OwnBlocks(s.used, s.content, e.ino, Others(s, i)) /\ Others(s, i) \subseteq s.used
        BY <1>1, <1>4, <1>8, OwnIs
      <4>2. \A b \in B : b \notin Others(s, i)
        BY <4>1, PointersIs DEF OwnBlocks
      <4>3. QED BY <4>1, <4>2 DEF u
    <3>3. u \in SUBSET Block
      BY <1>2 DEF u
    <3>4. Agree(y, NoEntry) /\ Seen(y, NoEntry) = y
      BY <1>6 DEF Agree, Seen
    <3>5. QED BY <1>2, <1>6, <3>1, <3>2, <3>3, <3>4 DEF Fits, Typed
  <2>2. t = Put(s, i, u, s.content, y, NoEntry)
    BY <1>5, <1>8
  <2>3. /\ Good(t) /\ Names(t) = Names(s)
        /\ \A j \in File \ {i} : LinkOK(s, j) => LinkOK(t, j)
    BY <1>1, <2>1, <2>2, PutGood
  <2>4. Became(t, s, i, u, s.content, y, NoEntry)
    BY <1>1, <2>1, <2>2, PutIs DEF Fits
  <2>5. i \notin Names(s) /\ y.type = 0
    BY <1>2, <1>4, <1>7, <1>8, FreedIs DEF y
  <2>6. LinkOK(t, i)
    BY <1>6, <2>3, <2>4, <2>5 DEF LinkOK, Became
  <2>7. Sound(t)
    BY <1>1, <2>3, <2>6 DEF Sound
  <2>8. t.mem[i].ref = 0 /\ e.ref = 1 /\ Elsewhere(s, t, i)
    BY <1>6, <1>8, <2>4 DEF Became
  <2>9. Tidy(s, t)
    <3>1. Accounts(s, i, u, s.content, Seen(y, NoEntry))
      <4>1. ASSUME NEW b \in u, NEW p \in Place PROVE b \in s.used /\ V(s, i, p) # b
        <5>1. b \in s.used /\ b \notin B /\ b # 0 /\ V(s, i, p) = Ptr(s.content, e.ino, p)
          BY <1>2, <1>4, <1>8, <4>1 DEF u, Block, V
        <5>2. QED BY <5>1, PointersIs
      <4>2. \A b \in u : b \in s.used
        BY DEF u
      <4>3. QED BY <4>1, <4>2 DEF Accounts
    <3>2. QED BY <1>0, <1>1, <1>6, <2>1, <2>2, <3>1, PutTidy
  <2>10. QED BY <2>3, <2>7, <2>8, <2>9
<1>9. ASSUME ~last, e.ref = 1 PROVE Result
  <2>1. Fits(s, i, s.used, s.content, d, NoEntry)
    <3>1. Others(s, i) \subseteq s.used /\ OwnBlocks(s.used, s.content, View(s, i), Others(s, i))
      <4>1. View(s, i).type # 0
        BY <1>3, <1>4 DEF View, e
      <4>2. QED BY <1>1, <4>1, OwnIs
    <3>2. \A k \in 0 .. NDIRECT + 1 : d.addrs[k] \in {0, View(s, i).addrs[k]}
      BY <1>1 DEF TableOK, View
    <3>3. \A p \in Place : Ptr(s.content, d, p) \in {0, Ptr(s.content, View(s, i), p)}
      BY <3>2, FewerPointers
    <3>4. OwnBlocks(s.used, s.content, d, Others(s, i))
      BY <3>1, <3>3 DEF OwnBlocks
    <3>5. Agree(d, NoEntry) /\ Seen(d, NoEntry) = d
      BY <1>6 DEF Agree, Seen
    <3>6. QED BY <1>2, <1>6, <3>1, <3>4, <3>5 DEF Fits, Typed
  <2>2. t = Put(s, i, s.used, s.content, d, NoEntry)
    BY <1>5, <1>9
  <2>3. /\ Good(t) /\ Names(t) = Names(s)
        /\ \A j \in File \ {i} : LinkOK(s, j) => LinkOK(t, j)
    BY <1>1, <2>1, <2>2, PutGood
  <2>4. Became(t, s, i, s.used, s.content, d, NoEntry)
    BY <1>1, <2>1, <2>2, PutIs DEF Fits
  <2>5. i \in Names(s)
    BY <1>4, <1>7, <1>9
  <2>6. LinkOK(t, i)
    BY <1>3, <1>7, <2>3, <2>4, <2>5 DEF LinkOK, Became
  <2>7. Tidy(s, t)
    <3>1. Seen(d, NoEntry) = d
      BY <1>6 DEF Seen
    <3>2. ASSUME Current(s) PROVE Accounts(s, i, s.used, s.content, d)
      <4>1. View(s, i) = d
        BY <1>1, <3>2, CurrentView DEF d
      <4>2. QED BY <4>1 DEF Accounts, V
    <3>3. QED BY <1>0, <1>1, <1>6, <2>1, <2>2, <3>1, <3>2, PutTidy
  <2>8. QED BY <1>1, <1>6, <1>9, <2>3, <2>4, <2>6, <2>7 DEF Sound, Became
<1>10. ASSUME e.ref # 1 PROVE Result
  <2> DEFINE x == Dropped(e)
  <2>1. x \in TableEntry /\ x.ref = e.ref - 1 /\ x.ref > 0 /\ x.valid = e.valid /\ x.ino = e.ino
    BY <1>2, <1>10 DEF Dropped, TableEntry
  <2> HIDE DEF x
  <2>2. Agree(d, x) /\ Seen(d, x) = View(s, i)
    <3>1. x.ref # 0 /\ (x.valid => s.mem[i].valid) /\ x.ino = s.mem[i].ino
      BY <1>2, <2>1 DEF e
    <3>2. Agree(s.dinode[i], x)
      BY <1>1, <3>1, AgreeKept
    <3>3. QED BY <2>1, <3>2 DEF Seen, View, e, d
  <2>3. t = Put(s, i, s.used, s.content, d, x)
    BY <1>5, <1>10 DEF x
  <2>4. Current(s) /\ x.valid => x.ino = d
    BY <1>1, <2>1 DEF Current, e, d
  <2>5. Sound(t) /\ Names(t) = Names(s) /\ Became(t, s, i, s.used, s.content, d, x) /\ Tidy(s, t)
    BY <1>1, <1>3, <2>1, <2>2, <2>3, <2>4, ViewKept DEF e
  <2>6. QED BY <2>1, <2>5 DEF Became
<1>11. Result
  BY <1>8, <1>9, <1>10
<1>12. QED BY <1>11 DEF t, e

-----------------------------------------------------------------------------
(* Reads and writes of an inode *)

\* The inode is loaded and allocated, as it is for readi and writei.
InUse(s, i) == s.mem[i].valid /\ s.mem[i].ino.type # 0 /\ s.mem[i].ref > 0

LEMMA PointerOwned ==
    ASSUME NEW s \in FsState, s.panic = FALSE, BlocksInv(s), NEW i \in Inum, InUse(s, i)
    PROVE  LET h == Pointer(s, i)
           IN  /\ Owned(h, Others(s, i)) /\ h.used = s.used /\ h.content = s.content
               /\ h.ino = s.mem[i].ino /\ h.panic = FALSE /\ View(s, i) = h.ino
<1> DEFINE h == Pointer(s, i)  ino == s.mem[i].ino
<1>1. ino \in InodeType /\ s.used \subseteq Block /\ s.content \in BlockWords /\ View(s, i) = ino /\ ino.type # 0
  BY StateIs DEF View, InUse
<1>2. h = [used |-> s.used, content |-> s.content, ino |-> ino, addr |-> 0, panic |-> FALSE]
  BY DEF Pointer
<1>3. Others(s, i) \subseteq s.used /\ OwnBlocks(s.used, s.content, ino, Others(s, i))
  BY <1>1, OwnIs
<1> HIDE DEF h, ino
<1>4. h \in Handle /\ h.used = s.used /\ h.content = s.content /\ h.ino = ino /\ h.panic = FALSE
  BY <1>1, <1>2, Sizes DEF Handle
<1>5. Owned(h, Others(s, i))
  BY <1>3, <1>4 DEF Owned, OwnBlocks, P
<1>6. QED BY <1>1, <1>4, <1>5 DEF h, ino

LEMMA ChangedIs ==
    ASSUME NEW s \in FsState, s.panic = FALSE, NEW i \in Inum, NEW g \in Handle, g.panic = FALSE
    PROVE  LET e == [ref |-> s.mem[i].ref, valid |-> s.mem[i].valid, ino |-> g.ino]
           IN  /\ Changed(s, i, g) = Put(s, i, g.used, g.content, s.dinode[i], e)
               /\ iupdate(Changed(s, i, g), i) = Put(s, i, g.used, g.content, g.ino, e)
<1> DEFINE e0 == s.mem[i]  e == [ref |-> e0.ref, valid |-> e0.valid, ino |-> g.ino]  d == s.dinode[i]
           x == [e0 EXCEPT !.ino = g.ino]  t == Changed(s, i, g)
<1>1. t = [s EXCEPT !.used = g.used, !.content = g.content, !.mem[i] = x, !.panic = FALSE]
  BY DEF Changed
<1>2. x = e
  <2>1. e0 \in TableEntry
    BY StateIs
  <2> HIDE DEF e0
  <2>2. QED BY <2>1 DEF TableEntry
<1>3. [s.dinode EXCEPT ![i] = d] = s.dinode
  BY StateIs
<1>0. e.ino = g.ino
  OBVIOUS
<1> HIDE DEF t, x, e, d
<1>4. t = [used |-> g.used, content |-> g.content, dinode |-> s.dinode,
           mem |-> [s.mem EXCEPT ![i] = x], panic |-> FALSE]
  BY <1>1 DEF FsState
<1>5. t = Put(s, i, g.used, g.content, d, e)
  BY <1>2, <1>3, <1>4, Zenon DEF Put
<1>6. iupdate(Put(s, i, g.used, g.content, d, e), i) = Put(s, i, g.used, g.content, e.ino, e)
  BY PutDisk
<1>7. iupdate(t, i) = Put(s, i, g.used, g.content, g.ino, e)
  BY <1>0, <1>5, <1>6, Zenon
<1>8. QED BY <1>5, <1>7, Zenon DEF t, d, e

Holding(s, i, ino) == [ref |-> s.mem[i].ref, valid |-> TRUE, ino |-> ino]

IsHolding(e, ref, ino) == e \in TableEntry /\ e.ref = ref /\ e.valid = TRUE /\ e.ino = ino

LEMMA HoldingIs ==
    ASSUME NEW s \in FsState, NEW i \in Inum, s.mem[i].ref > 0, NEW ino \in InodeType
    PROVE  IsHolding(Holding(s, i, ino), s.mem[i].ref, ino)
BY StateIs DEF Holding, IsHolding, TableEntry

\* The inode written to disk.
LEMMA WriteFits ==
    ASSUME NEW s \in FsState, NEW i \in Inum, s.mem[i].ref > 0, NEW g, Owned(g, Others(s, i)),
           \A b \in Others(s, i) : g.content[b] = s.content[b]
    PROVE  Fits(s, i, g.used, g.content, g.ino, Holding(s, i, g.ino))
<1> DEFINE e == Holding(s, i, g.ino)
<1>1. g \in Handle /\ g.ino \in InodeType /\ g.content \in BlockWords /\ g.used \in SUBSET Block
  BY DEF Owned, Handle
<1>2. e \in TableEntry /\ e.ref = s.mem[i].ref /\ e.valid = TRUE /\ e.ino = g.ino /\ Seen(g.ino, e) = g.ino
  <2>1. IsHolding(e, s.mem[i].ref, g.ino)
    BY <1>1, HoldingIs
  <2> HIDE DEF e
  <2>2. QED BY <2>1 DEF IsHolding, Seen
<1>3. g.ino = [g.ino EXCEPT !.addrs = g.ino.addrs]
  BY <1>1, SelfAgree
<1> HIDE DEF e
<1>4. Agree(g.ino, e)
  <2> DEFINE v == g.ino
  <2> HIDE DEF v
  <2>1. e.ino = v /\ v = [v EXCEPT !.addrs = v.addrs]
    BY <1>2, <1>3 DEF v
  <2>2. e.ino = [v EXCEPT !.addrs = e.ino.addrs]
    BY <2>1
  <2>3. Agree(v, e)
    BY <1>2, <2>1, <2>2 DEF Agree
  <2>4. QED BY <2>3 DEF v
<1>5. OwnBlocks(g.used, g.content, g.ino, Others(s, i)) /\ Others(s, i) \subseteq g.used
  BY DEF Owned, OwnBlocks, P
<1>6. QED BY <1>1, <1>2, <1>4, <1>5 DEF Fits, Typed, e

\* The inode in the table only, as readi leaves it.
LEMMA ReadFits ==
    ASSUME NEW s, Good(s), NEW i \in Inum, InUse(s, i), NEW g, Owned(g, Others(s, i)),
           Grew(Pointer(s, i), g, Others(s, i))
    PROVE  Fits(s, i, g.used, g.content, s.dinode[i], Holding(s, i, g.ino))
<1> DEFINE e == Holding(s, i, g.ino)  h == Pointer(s, i)  d == s.dinode[i]  v == s.mem[i].ino
<1>1. g \in Handle /\ g.ino \in InodeType /\ g.content \in BlockWords /\ g.used \in SUBSET Block
  BY DEF Owned, Handle
<1>2. s \in FsState /\ s.panic = FALSE /\ BlocksInv(s) /\ TableOK(s, i)
  BY GoodIs
<1>3. e \in TableEntry /\ e.ref = s.mem[i].ref /\ e.valid = TRUE /\ e.ino = g.ino /\ Seen(d, e) = g.ino
  <2>1. s.mem[i].ref > 0
    BY DEF InUse
  <2>2. IsHolding(e, s.mem[i].ref, g.ino)
    BY <1>1, <1>2, <2>1, HoldingIs
  <2> HIDE DEF d, e
  <2>3. QED BY <2>2 DEF IsHolding, Seen
<1>4. h.content = s.content /\ h.ino = v
  BY <1>2, PointerOwned
<1>5. /\ d \in InodeType /\ v \in InodeType /\ v = [d EXCEPT !.addrs = v.addrs]
      /\ \A k \in 0 .. NDIRECT + 1 : d.addrs[k] \in {0, v.addrs[k]}
  BY <1>2, StateIs DEF TableOK, InUse
<1> HIDE DEF e, h, d, v
<1>6. SameButAddrs(g.ino, v) /\ \A b \in Others(s, i) : g.content[b] = s.content[b]
  BY <1>4 DEF Grew, h
<1>7. \A k \in 0 .. NDIRECT + 1 : d.addrs[k] \in {0, g.ino.addrs[k]}
  <2>1. ASSUME NEW k \in 0 .. NDIRECT + 1, d.addrs[k] # 0 PROVE d.addrs[k] = g.ino.addrs[k]
    <3> DEFINE q == <<k, Here, Here>>
    <3>1. q \in Place /\ P(h, q) = v.addrs[k] /\ P(g, q) = g.ino.addrs[k]
      BY <1>4, PlaceIs, PtrIs1 DEF P
    <3> HIDE DEF q
    <3>2. v.addrs[k] = d.addrs[k] /\ P(h, q) # 0
      BY <1>5, <2>1, <3>1
    <3>3. P(g, q) = P(h, q)
      BY <3>1, <3>2 DEF Grew, h
    <3>4. QED BY <3>1, <3>2, <3>3
  <2>2. QED BY <2>1
<1>8. g.ino = [d EXCEPT !.addrs = g.ino.addrs]
  <2>1. v.type = d.type /\ v.nlink = d.nlink /\ v.size = d.size
    BY <1>5, InodeTypeIs
  <2> DEFINE x == g.ino
  <2> HIDE DEF x
  <2>2. x \in InodeType /\ x.type = d.type /\ x.nlink = d.nlink /\ x.size = d.size
    BY <1>1, <1>6, <2>1 DEF SameButAddrs, x
  <2>3. x = [d EXCEPT !.addrs = x.addrs]
    BY <1>5, <2>2, InodeTypeIs
  <2>4. QED BY <2>3 DEF x
<1>9. Agree(d, e)
  BY <1>2, <1>3, <1>7, <1>8 DEF Agree, InUse
<1>10. OwnBlocks(g.used, g.content, g.ino, Others(s, i)) /\ Others(s, i) \subseteq g.used
  BY DEF Owned, OwnBlocks, P
<1>11. QED BY <1>1, <1>3, <1>5, <1>6, <1>9, <1>10 DEF Fits, Typed, e, d

\* The blocks that bmap allocates are in the inode.
LEMMA GrewAccounts ==
    ASSUME NEW s, Good(s), NEW i \in Inum, InUse(s, i), NEW g, Grew(Pointer(s, i), g, Others(s, i)),
           NEW c, NEW v, v.type # 0, \A p \in Place : Ptr(c, v, p) = P(g, p)
    PROVE  Accounts(s, i, g.used, c, v)
<1> DEFINE h == Pointer(s, i)
<1>1. s \in FsState /\ s.panic = FALSE /\ BlocksInv(s) /\ s.used \subseteq Block
  BY GoodIs, StateIs
<1>2. h.used = s.used /\ h.content = s.content /\ View(s, i) = h.ino
  BY <1>1, PointerOwned
<1>3. \A p : V(s, i, p) = P(h, p)
  BY <1>2 DEF V, P
<1> HIDE DEF h
<1>4. ASSUME NEW b \in g.used, ~(b \in s.used /\ \A p \in Place : V(s, i, p) # b)
      PROVE  \E p \in Place : Ptr(c, v, p) = b
  <2>1. CASE b \notin s.used
    BY <1>2, <1>4, <2>1 DEF Grew, h
  <2>2. CASE b \in s.used
    <3>1. PICK p \in Place : P(h, p) = b
      BY <1>3, <1>4, <2>2
    <3>2. b # 0
      BY <1>1, <2>2 DEF Block
    <3>3. P(g, p) = b
      BY <3>1, <3>2 DEF Grew, h
    <3>4. QED BY <3>3
  <2>3. QED BY <2>1, <2>2
<1>5. QED BY <1>4 DEF Accounts

\* What a write leaves of the state, when it is not refused: d is the end of the
\* loop, g the inode that is then written to disk.
Wrote(s, i, d, g, w) ==
    /\ Owned(g, Others(s, i)) /\ g.content = d.at.content /\ g.used = d.at.used
    /\ Owned(d.at, Others(s, i)) /\ SameButAddrs(d.at.ino, s.mem[i].ino)
    /\ \A p : P(g, p) = P(d.at, p)
    /\ g.ino = [d.at.ino EXCEPT !.size = IF d.off > d.at.ino.size THEN d.off ELSE d.at.ino.size]
    /\ w.st = Put(s, i, g.used, g.content, g.ino, Holding(s, i, g.ino))
    /\ Fits(s, i, g.used, g.content, g.ino, Holding(s, i, g.ino)) /\ Tidy(s, w.st)

LEMMA writeiIs ==
    ASSUME NEW s, Good(s), NEW i \in Inum, InUse(s, i), NEW off \in Nat, NEW ws, Len(ws) \in Nat,
           \A k \in 1 .. Len(ws) : ws[k] \in Cell, off + Len(ws) <= MAXFILE * BSIZE
    PROVE  LET d == WriteLoop(Pointer(s, i), off, ws)
               g == [d.at EXCEPT !.ino = Grown(@, d.off)]
               w == writei(s, i, off, ws)
           IN  Wrote(s, i, d, g, w) /\ w.n = d.off - off
<1> DEFINE h == Pointer(s, i)  O == Others(s, i)  d == WriteLoop(h, off, ws)
           g == [d.at EXCEPT !.ino = Grown(@, d.off)]  w == writei(s, i, off, ws)
           e == Holding(s, i, g.ino)
<1>1. s \in FsState /\ s.panic = FALSE /\ BlocksInv(s) /\ \A j \in Inum : TableOK(s, j)
  BY GoodIs
<1>2. Owned(h, O) /\ h.content = s.content /\ h.ino = s.mem[i].ino /\ h.panic = FALSE
  BY <1>1, PointerOwned
<1>3. w = [st |-> iupdate(Changed(s, i, g), i), n |-> d.off - off]
  <2>1. ~(off + Len(ws) > MAXFILE * BSIZE)
    BY Sizes
  <2>2. QED BY <2>1, Zenon DEF writei
<1> HIDE DEF h, O, w
<1>4. Owned(d.at, O) /\ Grew(h, d.at, O) /\ d.off \in off .. off + Len(ws)
  BY <1>2, WriteLoopFacts
<1> HIDE DEF d
<1>5. d.off \in FileSize
  BY <1>4, Sizes DEF FileSize
<1>6. /\ Owned(g, O) /\ g.content = d.at.content /\ g.used = d.at.used /\ g.panic = d.at.panic
      /\ \A p : P(g, p) = P(d.at, p)
      /\ g.ino = [d.at.ino EXCEPT !.size = IF d.off > d.at.ino.size THEN d.off ELSE d.at.ino.size]
  BY <1>4, <1>5, Resized
<1> HIDE DEF g
<1>7. SameButAddrs(d.at.ino, s.mem[i].ino) /\ \A b \in O : g.content[b] = s.content[b]
  BY <1>2, <1>4, <1>6 DEF Grew
<1>8. Fits(s, i, g.used, g.content, g.ino, e)
  BY <1>1, <1>6, <1>7, WriteFits DEF O, InUse
<1>9. g \in Handle /\ g.panic = FALSE
  BY <1>2, <1>4, <1>6 DEF Owned, Grew
<1>10. iupdate(Changed(s, i, g), i) = Put(s, i, g.used, g.content, g.ino, e)
  <2>1. s.mem[i].valid = TRUE
    BY <1>1, StateIs DEF InUse
  <2>2. e = [ref |-> s.mem[i].ref, valid |-> s.mem[i].valid, ino |-> g.ino]
    BY <2>1 DEF Holding
  <2>3. QED BY <1>1, <1>9, <2>2, ChangedIs
<1> HIDE DEF e
<1>11. w.st = Put(s, i, g.used, g.content, g.ino, e) /\ w.n = d.off - off
  BY <1>3, <1>10
<1>12. Tidy(s, w.st)
  <2>1. e.valid = TRUE /\ e.ino = g.ino /\ Seen(g.ino, e) = g.ino
    BY DEF e, Holding, Seen
  <2>2. g.ino.type # 0
    <3> DEFINE x == d.at.ino  v == g.ino  m == IF d.off > x.size THEN d.off ELSE x.size
    <3>1. x \in InodeType /\ v = [x EXCEPT !.size = m] /\ x.type # 0
      BY <1>4, <1>6, <1>7 DEF Owned, Handle, SameButAddrs, InUse
    <3> HIDE DEF x, v, m
    <3>2. v.type = x.type
      BY <3>1, InodeTypeIs
    <3>3. QED BY <3>1, <3>2 DEF v
  <2>3. \A p \in Place : Ptr(g.content, g.ino, p) = P(d.at, p)
    BY <1>6 DEF P
  <2>4. Accounts(s, i, g.used, g.content, g.ino)
    <3> DEFINE a == d.at  c == g.content  v == g.ino
    <3>1. Grew(Pointer(s, i), a, Others(s, i)) /\ v.type # 0 /\ \A p \in Place : Ptr(c, v, p) = P(a, p)
      BY <1>4, <2>2, <2>3 DEF h, O
    <3>2. a.used = g.used
      BY <1>6
    <3> HIDE DEF a, c, v
    <3>3. Accounts(s, i, a.used, c, v)
      BY <3>1, GrewAccounts
    <3>4. QED BY <3>2, <3>3 DEF c, v
  <2>5. QED BY <1>1, <1>8, <1>11, <2>1, <2>4, PutTidy
<1>13. Wrote(s, i, d, g, w)
  BY <1>4, <1>6, <1>7, <1>8, <1>11, <1>12 DEF Wrote, O, e
<1>14. QED BY <1>11, <1>13 DEF g, d, h, w

\* What reads and writes of a file come to.
Kept(s, t, i) ==
    /\ Sound(t) /\ Names(t) = Names(s) /\ Elsewhere(s, t, i)
    /\ t.mem[i].ref = s.mem[i].ref /\ t.mem[i].valid = TRUE

LEMMA PutKept ==
    ASSUME NEW s, Sound(s), NEW i \in File, InUse(s, i), NEW u, NEW c, NEW d, NEW ino \in InodeType,
           Fits(s, i, u, c, d, Holding(s, i, ino)),
           d.type = s.dinode[i].type, d.nlink = s.dinode[i].nlink
    PROVE  Kept(s, Put(s, i, u, c, d, Holding(s, i, ino)), i)
<1> DEFINE e == Holding(s, i, ino)  t == Put(s, i, u, c, d, e)
<1>1. Good(s) /\ s \in FsState /\ i \in Inum /\ LinkOK(s, i) /\ \A j \in File : LinkOK(s, j)
  BY GoodIs, Inodes DEF Sound
<1>2. Good(t) /\ Names(t) = Names(s) /\ \A j \in File \ {i} : LinkOK(s, j) => LinkOK(t, j)
  BY <1>1, PutGood
<1>3. Became(t, s, i, u, c, d, e)
  BY <1>1, PutIs DEF Fits
<1>4. e.ref = s.mem[i].ref /\ e.valid = TRUE
  BY DEF Holding
<1> HIDE DEF t, e
<1>5. LinkOK(t, i)
  BY <1>1, <1>2, <1>3, <1>4 DEF LinkOK, Became
<1>6. QED BY <1>1, <1>2, <1>3, <1>4, <1>5 DEF Kept, Sound, Became, t, e

LEMMA writeiSound ==
    ASSUME NEW s, Sound(s), NEW i \in File, InUse(s, i), NEW off \in Nat, NEW ws, Len(ws) \in Nat,
           \A k \in 1 .. Len(ws) : ws[k] \in Cell
    PROVE  Kept(s, writei(s, i, off, ws).st, i) /\ Tidy(s, writei(s, i, off, ws).st)
<1>1. Good(s) /\ s \in FsState /\ i \in Inum /\ TableOK(s, i)
  BY GoodIs, Inodes DEF Sound
<1>2. CASE off + Len(ws) <= MAXFILE * BSIZE
  <2> DEFINE d == WriteLoop(Pointer(s, i), off, ws)
             g == [d.at EXCEPT !.ino = Grown(@, d.off)]
  <2>1. /\ Owned(g, Others(s, i)) /\ Owned(d.at, Others(s, i)) /\ SameButAddrs(d.at.ino, s.mem[i].ino)
        /\ g.ino = [d.at.ino EXCEPT !.size = IF d.off > d.at.ino.size THEN d.off ELSE d.at.ino.size]
        /\ writei(s, i, off, ws).st = Put(s, i, g.used, g.content, g.ino, Holding(s, i, g.ino))
        /\ Fits(s, i, g.used, g.content, g.ino, Holding(s, i, g.ino))
        /\ Tidy(s, writei(s, i, off, ws).st)
    <3>1. Wrote(s, i, d, g, writei(s, i, off, ws))
      BY <1>1, <1>2, writeiIs
    <3> HIDE DEF d, g
    <3>2. QED BY <3>1 DEF Wrote
  <2> HIDE DEF d, g
  <2>2. g.ino \in InodeType
    BY <2>1 DEF Owned, Handle
  <2>3. g.ino.type = s.dinode[i].type /\ g.ino.nlink = s.dinode[i].nlink
    <3>1. SameButAddrs(s.mem[i].ino, s.dinode[i])
      BY <1>1, ViewIs DEF View, InUse
    <3> DEFINE x == d.at.ino
               n == IF d.off > x.size THEN d.off ELSE x.size
               y == g.ino
    <3>2. x \in InodeType /\ y = [x EXCEPT !.size = n]
      BY <2>1 DEF Owned, Handle
    <3> HIDE DEF x, n, y
    <3>3. y.type = x.type /\ y.nlink = x.nlink
      BY <3>2, InodeTypeIs
    <3>4. QED BY <2>1, <3>1, <3>3 DEF SameButAddrs, x, y
  <2> DEFINE x == g.ino  t == Put(s, i, g.used, g.content, x, Holding(s, i, x))
  <2>4. Fits(s, i, g.used, g.content, x, Holding(s, i, x)) /\ writei(s, i, off, ws).st = t
    BY <2>1
  <2> HIDE DEF x
  <2>5. x \in InodeType /\ x.type = s.dinode[i].type /\ x.nlink = s.dinode[i].nlink
    BY <2>2, <2>3 DEF x
  <2>6. Kept(s, t, i)
    BY <2>4, <2>5, PutKept
  <2> HIDE DEF t
  <2>7. QED BY <2>1, <2>4, <2>6
<1>3. CASE ~(off + Len(ws) <= MAXFILE * BSIZE)
  <2>1. writei(s, i, off, ws).st = s
    <3>1. off + Len(ws) > MAXFILE * BSIZE
      BY <1>3, Sizes
    <3>2. writei(s, i, off, ws) = [st |-> s, n |-> -1]
      BY <3>1, Zenon DEF writei
    <3>3. QED BY <3>2
  <2>2. s.mem[i].valid = TRUE
    BY <1>1, StateIs DEF InUse
  <2>3. QED BY <2>1, <2>2, TidySelf DEF Kept, Elsewhere
<1>4. QED BY <1>2, <1>3

LEMMA readiFacts ==
    ASSUME NEW h, NEW O, Owned(h, O), NEW off \in Nat, NEW n \in Nat
    PROVE  Owned(readi(h, off, n).at, O) /\ Grew(h, readi(h, off, n).at, O) /\ Filled(h, readi(h, off, n).at, O)
<1> DEFINE size == h.ino.size  last == IF off > size THEN off ELSE IF off + n > size THEN size ELSE off + n
<1>1. size \in 0 .. MAXFILE * BSIZE
  BY InodeTypeIs DEF Owned, Handle, FileSize
<1>2. readi(h, off, n) = ReadLoop(h, off, last)
  BY DEF readi
<1> HIDE DEF size
<1>3. last \in Nat /\ off <= last
  BY <1>1, Sizes
<1>4. CASE off > size
  <2>1. last = off
    BY <1>4
  <2> HIDE DEF last
  <2>2. last - off = 0 /\ 0 \in Nat
    BY <2>1
  <2>3. PICK f : ReadLoop(h, off, last) = f[last - off] /\ ReadRuns(f, h, off, last)
    BY <1>3, <2>2, ReadLoopIs
  <2>4. ReadLoop(h, off, last).at = h
    BY <2>2, <2>3 DEF ReadRuns, ReadStart
  <2>5. QED BY <1>2, <2>4, FilledSelf DEF Filled
<1>5. CASE ~(off > size)
  <2>1. last <= MAXFILE * BSIZE
    BY <1>1, <1>3, <1>5, Sizes
  <2> HIDE DEF last
  <2>2. Owned(ReadLoop(h, off, last).at, O) /\ Filled(h, ReadLoop(h, off, last).at, O)
    BY <1>3, <2>1, ReadLoopFacts
  <2>3. QED BY <1>2, <2>2 DEF Filled
<1>6. QED BY <1>4, <1>5

LEMMA readiSound ==
    ASSUME NEW s, Sound(s), NEW i \in File, InUse(s, i), NEW off \in Nat, NEW n \in Nat
    PROVE  LET t == Changed(s, i, readi(Pointer(s, i), off, n).at) IN Kept(s, t, i) /\ NoneLost(s, t)
<1> DEFINE g == readi(Pointer(s, i), off, n).at  O == Others(s, i)  d == s.dinode[i]
           e == Holding(s, i, g.ino)  t == Changed(s, i, g)
<1>1. /\ Good(s) /\ s \in FsState /\ s.panic = FALSE /\ BlocksInv(s) /\ i \in Inum
      /\ \A j \in Inum : TableOK(s, j)
  BY GoodIs, Inodes DEF Sound
<1>2. Owned(Pointer(s, i), O) /\ Pointer(s, i).panic = FALSE /\ Pointer(s, i).ino = s.mem[i].ino
  BY <1>1, PointerOwned
<1>3. Owned(g, O) /\ Grew(Pointer(s, i), g, O)
  BY <1>2, readiFacts
<1> HIDE DEF g, t
<1>4. g \in Handle /\ g.panic = FALSE /\ g.ino \in InodeType
  BY <1>2, <1>3 DEF Owned, Handle, Grew
<1>5. Fits(s, i, g.used, g.content, d, e)
  BY <1>1, <1>3, ReadFits
<1>6. t = Put(s, i, g.used, g.content, d, e)
  <2>1. s.mem[i].valid = TRUE
    BY <1>1, StateIs DEF InUse
  <2>2. e = [ref |-> s.mem[i].ref, valid |-> s.mem[i].valid, ino |-> g.ino]
    BY <2>1 DEF Holding
  <2>3. QED BY <1>1, <1>4, <2>2, ChangedIs DEF t
<1>7. Kept(s, Put(s, i, g.used, g.content, d, e), i)
  BY <1>4, <1>5, PutKept
<1>8. NoneLost(s, Put(s, i, g.used, g.content, d, e))
  <2>1. Seen(d, e) = g.ino
    BY DEF e, Holding, Seen
  <2>2. g.ino.type # 0
    BY <1>2, <1>3 DEF Grew, SameButAddrs, InUse
  <2>3. Accounts(s, i, g.used, g.content, g.ino)
    <3> DEFINE c == g.content  v == g.ino
    <3>1. v.type # 0 /\ \A p \in Place : Ptr(c, v, p) = P(g, p)
      BY <2>2 DEF P
    <3> HIDE DEF c, v
    <3>2. Accounts(s, i, g.used, c, v)
      BY <1>1, <1>3, <3>1, GrewAccounts
    <3>3. QED BY <3>2 DEF c, v
  <2>4. QED BY <1>1, <1>5, <2>1, <2>3, PutNoneLost
<1>9. QED BY <1>6, <1>7, <1>8, Zenon DEF t, g

\* Truncation of a file that does not reach the double indirect block.
LEMMA itruncSound ==
    ASSUME NEW s, Sound(s), NEW i \in File, InUse(s, i), s.mem[i].ino.addrs[NDIRECT + 1] = 0
    PROVE  Kept(s, itrunc(s, i), i) /\ Tidy(s, itrunc(s, i))
<1> DEFINE ino == s.mem[i].ino  x == Truncated(ino)  B == BlocksOf(s.content, ino)  u == s.used \ B
           e == Holding(s, i, x)  t == Put(s, i, u, s.content, x, e)
<1>1. /\ Good(s) /\ s \in FsState /\ s.panic = FALSE /\ BlocksInv(s) /\ i \in Inum
      /\ \A j \in Inum : TableOK(s, j)
  BY GoodIs, Inodes DEF Sound
<1>2. itrunc(s, i) = t
  BY <1>1, itruncIs, Zenon DEF Holding, InUse
<1>3. /\ ino \in InodeType /\ ino.type # 0 /\ View(s, i) = ino
      /\ s.used \subseteq Block /\ s.content \in BlockWords /\ s.mem[i].ref > 0
  BY <1>1, StateIs DEF InUse, View
<1>4. x \in InodeType /\ x.type = ino.type /\ x.nlink = ino.nlink /\ \A p \in Place : Ptr(s.content, x, p) = 0
  BY <1>3, TruncatedIs
<1>5. ino.type = s.dinode[i].type /\ ino.nlink = s.dinode[i].nlink
  BY <1>1, <1>3, ViewIs DEF SameButAddrs
<1>6. OwnBlocks(s.used, s.content, ino, Others(s, i)) /\ Others(s, i) \subseteq s.used
  BY <1>1, <1>3, OwnIs
<1>7. \A b \in B : b \notin Others(s, i)
  BY <1>6, PointersIs DEF OwnBlocks
<1>0. \A b \in u : b \in s.used /\ \A p \in Place : V(s, i, p) # b
  <2>1. ASSUME NEW b \in u, NEW p \in Place PROVE V(s, i, p) # b
    <3>1. b \notin B /\ b # 0 /\ V(s, i, p) = Ptr(s.content, ino, p)
      BY <1>3, <2>1 DEF Block, V
    <3>2. QED BY <3>1, PointersIs
  <2>2. QED BY <2>1
<1> HIDE DEF ino, x, B
<1>8. Others(s, i) \subseteq u /\ u \in SUBSET Block
  BY <1>3, <1>6, <1>7
<1> DEFINE g == [used |-> u, content |-> s.content, ino |-> x, addr |-> 0, panic |-> FALSE]
<1>9. Owned(g, Others(s, i)) /\ g.used = u /\ g.content = s.content /\ g.ino = x
  <2> HIDE DEF u
  <2>1. g \in Handle /\ g.used = u /\ g.content = s.content /\ g.ino = x
    BY <1>3, <1>4, <1>8, Sizes DEF Handle
  <2> HIDE DEF g
  <2>2. QED BY <1>4, <1>8, <2>1 DEF Owned, P
<1> HIDE DEF g, u
<1>10. Fits(s, i, g.used, g.content, g.ino, Holding(s, i, g.ino))
  BY <1>1, <1>3, <1>9, WriteFits
<1>11. Fits(s, i, u, s.content, x, e)
  BY <1>9, <1>10, Zenon
<1>12. Kept(s, t, i)
  BY <1>4, <1>5, <1>11, PutKept
<1>13. Tidy(s, t)
  <2>1. e.valid = TRUE /\ e.ino = x
    BY DEF Holding
  <2> HIDE DEF e
  <2>2. Accounts(s, i, u, s.content, Seen(x, e))
    BY <1>0 DEF Accounts
  <2>3. QED BY <1>1, <1>11, <2>1, <2>2, PutTidy DEF e
<1>14. QED BY <1>2, <1>12, <1>13, Zenon
=============================================================================
