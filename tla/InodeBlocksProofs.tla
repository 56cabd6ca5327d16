-------------------------- MODULE InodeBlocksProofs --------------------------
(***************************************************************************)
(* The directory and the system calls of InodeBlocks: they keep the          *)
(* inductive invariant and implement the file store, for applications that   *)
(* stay clear of the defect of itrunc; and what follows from that.           *)
(***************************************************************************)
EXTENDS InodeFunctionProofs

-----------------------------------------------------------------------------
(* The root directory *)

RootOpen(s) == Good(s) /\ InUse(s, ROOTINO)

LEMMA RootIs ==
    ASSUME NEW s, RootOpen(s)
    PROVE  /\ View(s, ROOTINO) = s.mem[ROOTINO].ino /\ DirSize(s) \in FileSize /\ DirSize(s) \in Nat
           /\ DirOffsets(s) = 0 .. DirSize(s) - 1 /\ \A o : Entry(s, o) = Dent(s, o)
           /\ s.mem[ROOTINO].ino.type = 1
<1>1. s \in FsState /\ ROOTINO \in Inum /\ TableOK(s, ROOTINO) /\ s.dinode[ROOTINO].type = 1 /\ s.mem[ROOTINO].valid
  BY Inodes DEF RootOpen, Good, InUse
<1>2. View(s, ROOTINO) = s.mem[ROOTINO].ino /\ View(s, ROOTINO) \in InodeType
  BY <1>1, StateIs DEF View
<1>3. DirSize(s) \in FileSize
  BY <1>2, InodeTypeIs DEF DirSize
<1>4. DirSize(s) \in Nat
  BY <1>3, Sizes DEF FileSize
<1>5. s.mem[ROOTINO].ino.type = 1
  BY <1>1, <1>2, ViewIs DEF SameButAddrs
<1>6. QED BY <1>2, <1>3, <1>4, <1>5 DEF DirOffsets, DirSize, Entry, Dent

LEMMA dirlookupIs ==
    ASSUME NEW s, RootOpen(s), NEW i \in Names(s)
    PROVE  dirlookup(s, i) \in 0 .. DirSize(s) - 1 /\ Dent(s, dirlookup(s, i)) = i
<1> DEFINE at == {o \in DirOffsets(s) : Entry(s, o) = i}
<1>1. DirOffsets(s) = 0 .. DirSize(s) - 1 /\ DirSize(s) \in Nat /\ \A o : Entry(s, o) = Dent(s, o)
  BY RootIs
<1>2. at # {}
  BY <1>1 DEF Names
<1>3. at \in SUBSET (0 .. DirSize(s) - 1) /\ 0 \in Nat /\ DirSize(s) - 1 \in Int
  BY <1>1
<1>4. Least(at) \in at
  <2> HIDE DEF at
  <2>1. QED BY <1>2, <1>3, LeastUpTo
<1>5. dirlookup(s, i) = Least(at)
  BY <1>2 DEF dirlookup
<1>6. QED BY <1>1, <1>3, <1>4, <1>5

\* The block pointers of the words of the directory.
Slot(s, o) == V(s, ROOTINO, DataPlace(o \div BSIZE))

\* The directory after one of its words, or the one after them, was written.
DirWrote(s, t, off, x, n) ==
    /\ t \in FsState /\ t.panic = FALSE /\ BlocksInv(t) /\ \A j \in Inum : TableOK(t, j)
    /\ Elsewhere(s, t, ROOTINO) /\ t.dinode[ROOTINO].type = 1
    /\ t.mem[ROOTINO].ref = s.mem[ROOTINO].ref /\ t.mem[ROOTINO].valid = TRUE
    /\ n \in {0, 1} /\ (off < DirSize(s) => n = 1) /\ (n = 1 => Dent(t, off) = x)
    /\ DirSize(t) = IF n = 1 /\ off = DirSize(s) THEN off + 1 ELSE DirSize(s)
    /\ \A o \in 0 .. DirSize(s) - 1 : o # off => Dent(t, o) = Dent(s, o)
    /\ \A o \in 0 .. DirSize(t) - 1 : Slot(t, o) # 0
    /\ Tidy(s, t)

LEMMA DirWritten ==
    ASSUME NEW s, RootOpen(s), NEW off \in 0 .. DirSize(s), off < MAXFILE * BSIZE, NEW x \in Cell
    PROVE  LET w == writei(s, ROOTINO, off, <<x>>) IN DirWrote(s, w.st, off, x, w.n)
<1> DEFINE ws == <<x>>
           w == writei(s, ROOTINO, off, ws)  t == w.st  n == w.n
           h == Pointer(s, ROOTINO)  O == Others(s, ROOTINO)  d == WriteLoop(h, off, ws)
           g == [d.at EXCEPT !.ino = Grown(@, d.off)]
           e == Holding(s, ROOTINO, g.ino)
           size == DirSize(s)
<1>1. /\ Good(s) /\ s \in FsState /\ s.panic = FALSE /\ BlocksInv(s) /\ (\A j \in Inum : TableOK(s, j))
      /\ ROOTINO \in Inum /\ InUse(s, ROOTINO) /\ s.mem[ROOTINO].ref > 0
      /\ \A o \in 0 .. size - 1 : Slot(s, o) # 0
  BY GoodIs, Inodes DEF RootOpen, Good, DirOK, Slot
<1>2. /\ View(s, ROOTINO) = s.mem[ROOTINO].ino /\ size \in FileSize /\ size \in Nat
      /\ s.mem[ROOTINO].ino.type = 1 /\ off \in Nat
  BY RootIs
<1>3. /\ Owned(h, O) /\ h.content = s.content /\ h.ino = View(s, ROOTINO)
  BY <1>1, PointerOwned
<1>4. /\ \A o : W(h, o) = Dent(s, o) /\ AddrAt(h, o) = Slot(s, o)
  BY <1>3 DEF W, Dent, AddrAt, Slot, V, P
<1>5. Len(ws) = 1 /\ \A k \in 1 .. Len(ws) : ws[k] \in Cell
  OBVIOUS
<1> HIDE DEF ws
<1>6. Len(ws) \in Nat /\ off + Len(ws) <= MAXFILE * BSIZE
  BY <1>2, <1>5, Sizes
<1>0. Wrote(s, ROOTINO, d, g, w) /\ w.n = d.off - off
  <2>1. Good(s) /\ InUse(s, ROOTINO) /\ ROOTINO \in Inum /\ off \in Nat
    BY <1>1, <1>2
  <2>2. QED BY <1>5, <1>6, <2>1, writeiIs
<1>8. /\ Grew(h, d.at, O) /\ d.off \in {off, off + 1}
      /\ d.off = off + 1 => W(d.at, off) = x /\ AddrAt(d.at, off) # 0
      /\ AddrAt(h, off) # 0 => d.off = off + 1
      /\ \A o \in Nat : o < MAXFILE * BSIZE /\ o # off /\ AddrAt(h, o) # 0 => W(d.at, o) = W(h, o)
  BY <1>2, <1>3, WordLinked DEF ws
<1> HIDE DEF w, d, g
<1>7. /\ Owned(g, O) /\ g.content = d.at.content
      /\ Owned(d.at, O) /\ SameButAddrs(d.at.ino, s.mem[ROOTINO].ino) /\ \A p : P(g, p) = P(d.at, p)
      /\ g.ino = [d.at.ino EXCEPT !.size = IF d.off > d.at.ino.size THEN d.off ELSE d.at.ino.size]
      /\ t = Put(s, ROOTINO, g.used, g.content, g.ino, e) /\ n = d.off - off
      /\ Fits(s, ROOTINO, g.used, g.content, g.ino, e) /\ Tidy(s, t)
  BY <1>0 DEF Wrote
<1> HIDE DEF t, n, h, O, e
<1>9. g.ino \in InodeType /\ d.at.ino \in InodeType
  BY <1>7 DEF Owned, Handle
<1>10. g.ino.type = 1 /\ g.ino.size = IF d.off > size THEN d.off ELSE size
  <2> DEFINE y == d.at.ino  v == g.ino  m == IF d.off > y.size THEN d.off ELSE y.size
  <2>1. y \in InodeType /\ v = [y EXCEPT !.size = m] /\ y.type = 1 /\ y.size = size
    BY <1>2, <1>7, <1>9 DEF SameButAddrs, DirSize
  <2>2. m = IF d.off > size THEN d.off ELSE size
    BY <2>1
  <2> HIDE DEF y, v, m
  <2>3. v.type = y.type /\ v.size = m
    BY <2>1, InodeTypeIs
  <2>4. QED BY <2>1, <2>2, <2>3 DEF v
<1> HIDE DEF size
<1>11. Became(t, s, ROOTINO, g.used, g.content, g.ino, e)
  BY <1>1, <1>7, PutIs DEF Fits
<1>12. BlocksInv(t) /\ \A j \in Inum : TableOK(t, j)
  BY <1>1, <1>7, PutBlocks
<1>13. e.ref = s.mem[ROOTINO].ref /\ e.valid = TRUE /\ Seen(g.ino, e) = g.ino
  <2> DEFINE v == g.ino
  <2>1. v \in InodeType /\ s \in FsState /\ s.mem[ROOTINO].ref > 0 /\ ROOTINO \in Inum
    BY <1>1, <1>9
  <2> HIDE DEF v
  <2>2. IsHolding(Holding(s, ROOTINO, v), s.mem[ROOTINO].ref, v)
    BY <2>1, HoldingIs
  <2>3. e.ref = s.mem[ROOTINO].ref /\ e.valid = TRUE /\ Seen(v, e) = v
    <3>1. IsHolding(e, s.mem[ROOTINO].ref, v)
      BY <2>2 DEF e, v
    <3> HIDE DEF e
    <3>2. QED BY <3>1 DEF IsHolding, Seen
  <2>4. QED BY <2>3 DEF v
<1>14. t.content = g.content /\ View(t, ROOTINO) = g.ino /\ t \in FsState /\ t.panic = FALSE
       /\ Elsewhere(s, t, ROOTINO) /\ t.mem[ROOTINO] = e /\ t.dinode[ROOTINO] = g.ino
  BY <1>11, <1>13 DEF Became
<1>15. \A o : Dent(t, o) = W(d.at, o) /\ Slot(t, o) = AddrAt(d.at, o)
  BY <1>7, <1>14 DEF Dent, W, Slot, V, AddrAt, P, WordAt
<1>16. n \in {0, 1} /\ (n = 1 <=> d.off = off + 1) /\ (n = 0 <=> d.off = off)
  BY <1>2, <1>7, <1>8
<1>17. off < size => n = 1
  BY <1>1, <1>2, <1>4, <1>8, <1>16
<1>18. DirSize(t) = IF n = 1 /\ off = size THEN off + 1 ELSE size
  <2>1. DirSize(t) = IF d.off > size THEN d.off ELSE size
    BY <1>10, <1>14 DEF DirSize
  <2>2. off <= size
    BY DEF size
  <2>3. QED BY <1>2, <1>8, <1>16, <2>1, <2>2
<1>19. ASSUME NEW o \in 0 .. size - 1
       PROVE  (o # off => Dent(t, o) = Dent(s, o)) /\ Slot(t, o) # 0
  <2>1. o \in Nat /\ o < MAXFILE * BSIZE /\ Slot(s, o) # 0
    BY <1>1, <1>2, Sizes DEF FileSize
  <2>2. o # off => Dent(t, o) = Dent(s, o)
    BY <1>4, <1>8, <1>15, <2>1
  <2>3. DataPlace(o \div BSIZE) \in Place
    BY <2>1, WordPlace, DataPlaceTyped
  <2>4. AddrAt(d.at, o) = AddrAt(h, o)
    BY <1>4, <1>8, <2>1, <2>3 DEF AddrAt, Grew
  <2>5. QED BY <1>4, <1>15, <2>1, <2>2, <2>4
<1>20. ASSUME NEW o \in 0 .. DirSize(t) - 1 PROVE Slot(t, o) # 0
  <2>1. CASE o \in 0 .. size - 1
    BY <1>19, <2>1
  <2>2. CASE ~(o \in 0 .. size - 1)
    <3>1. n = 1 /\ o = off
      BY <1>2, <1>18, <2>2
    <3>2. QED BY <1>8, <1>15, <1>16, <3>1
  <2>3. QED BY <2>1, <2>2
<1>21. n = 1 => Dent(t, off) = x
  BY <1>8, <1>15, <1>16
<1>22. QED
  <2>1. /\ t.dinode[ROOTINO].type = 1 /\ t.mem[ROOTINO].ref = s.mem[ROOTINO].ref /\ t.mem[ROOTINO].valid = TRUE
    BY <1>10, <1>13, <1>14
  <2>2. DirWrote(s, t, off, x, n)
    BY <1>7, <1>12, <1>14, <1>16, <1>17, <1>18, <1>19, <1>20, <1>21, <2>1 DEF DirWrote, size
  <2>3. QED BY <2>2 DEF t, n, w, ws

LEMMA RootLoaded ==
    ASSUME NEW s, Good(s), s.mem[ROOTINO].valid = TRUE
    PROVE  RootOpen(s) /\ s.mem[ROOTINO].ref \in Nat
<1>1. s \in FsState /\ TableOK(s, ROOTINO) /\ ROOTINO \in Inum /\ s.dinode[ROOTINO].type = 1 /\ s.mem[ROOTINO].ref > 0
  BY Inodes DEF Good
<1>2. View(s, ROOTINO) = s.mem[ROOTINO].ino
  BY DEF View
<1>3. s.mem[ROOTINO].ref \in Nat
  BY <1>1, StateIs
<1>4. s.mem[ROOTINO].ino.type = 1
  BY <1>1, <1>2, ViewIs DEF SameButAddrs
<1>5. QED BY <1>1, <1>3, <1>4 DEF RootOpen, InUse

\* The rest of Good does not depend on the entries.
LEMMA DirGood ==
    ASSUME NEW s, RootOpen(s), NEW t, NEW off, NEW x, NEW n, DirWrote(s, t, off, x, n),
           \A o, q \in 0 .. DirSize(t) - 1 : Dent(t, o) = Dent(t, q) /\ Dent(t, o) \in File => o = q
    PROVE  Good(t) /\ RootOpen(t)
<1>1. s.mem[ROOTINO].ref > 0
  BY DEF RootOpen, InUse
<1>2. Good(t)
  BY <1>1 DEF DirWrote, Good, DirOK, Slot
<1>3. QED BY <1>2, RootLoaded DEF DirWrote

LEMMA DirFull ==
    ASSUME NEW s, RootOpen(s), NEW t, NEW off \in 0 .. DirSize(s), NEW x, DirWrote(s, t, off, x, 0)
    PROVE  RootOpen(t) /\ Names(t) = Names(s)
<1>1. DirSize(s) \in Nat
  BY RootIs
<1>2. off = DirSize(s) /\ DirSize(t) = DirSize(s)
  BY <1>1 DEF DirWrote
<1>3. \A o \in 0 .. DirSize(s) - 1 : Dent(t, o) = Dent(s, o)
  BY <1>1, <1>2 DEF DirWrote
<1>4. \A o, q \in 0 .. DirSize(t) - 1 : Dent(t, o) = Dent(t, q) /\ Dent(t, o) \in File => o = q
  BY <1>2, <1>3 DEF RootOpen, Good, DirOK
<1>5. RootOpen(t)
  BY <1>4, DirGood
<1>6. QED BY <1>2, <1>3, <1>5 DEF Names

LEMMA DirAdded ==
    ASSUME NEW s, RootOpen(s), NEW t, NEW off \in 0 .. DirSize(s), NEW i \in File, i \notin Names(s),
           DirWrote(s, t, off, i, 1), off < DirSize(s) => Dent(s, off) = 0
    PROVE  RootOpen(t) /\ Names(t) = Names(s) \cup {i}
<1>1. DirSize(s) \in Nat /\ 0 \notin File
  BY RootIs, Inodes
<1>2. /\ Dent(t, off) = i /\ off \in 0 .. DirSize(t) - 1
      /\ 0 .. DirSize(t) - 1 = (0 .. DirSize(s) - 1) \cup {off}
  BY <1>1 DEF DirWrote
<1>3. \A o \in 0 .. DirSize(s) - 1 : o # off => Dent(t, o) = Dent(s, o)
  BY DEF DirWrote
<1>4. \A o \in 0 .. DirSize(s) - 1 : Dent(s, o) # i
  BY DEF Names
<1>5. ASSUME NEW o \in 0 .. DirSize(t) - 1, NEW q \in 0 .. DirSize(t) - 1,
             Dent(t, o) = Dent(t, q), Dent(t, o) \in File
      PROVE  o = q
  <2>1. CASE o = off
    BY <1>2, <1>3, <1>4, <1>5, <2>1
  <2>2. CASE q = off
    BY <1>2, <1>3, <1>4, <1>5, <2>2
  <2>3. CASE o # off /\ q # off
    <3>1. o \in 0 .. DirSize(s) - 1 /\ q \in 0 .. DirSize(s) - 1
      BY <1>2, <2>3
    <3>2. Dent(s, o) = Dent(s, q) /\ Dent(s, o) \in File
      BY <1>3, <1>5, <2>3, <3>1
    <3>3. QED BY <3>1, <3>2 DEF RootOpen, Good, DirOK
  <2>4. QED BY <2>1, <2>2, <2>3
<1>6. RootOpen(t)
  BY <1>5, DirGood
<1>7. Names(t) = Names(s) \cup {i}
  <2>1. ASSUME NEW j \in Names(s) PROVE j \in Names(t)
    <3>1. PICK o \in 0 .. DirSize(s) - 1 : Dent(s, o) = j
      BY DEF Names
    <3>2. j \in File
      BY DEF Names
    <3>3. o # off
      BY <1>1, <3>1, <3>2
    <3>4. o \in 0 .. DirSize(t) - 1 /\ Dent(t, o) = j
      BY <1>2, <1>3, <3>1, <3>3
    <3>5. QED BY <3>2, <3>4 DEF Names
  <2>2. i \in Names(t)
    BY <1>2 DEF Names
  <2>3. ASSUME NEW j \in Names(t), j # i PROVE j \in Names(s)
    <3>1. PICK o \in 0 .. DirSize(t) - 1 : Dent(t, o) = j
      BY DEF Names
    <3>2. o # off /\ o \in 0 .. DirSize(s) - 1 /\ j \in File
      BY <1>2, <2>3, <3>1 DEF Names
    <3>3. Dent(s, o) = j
      BY <1>3, <3>1, <3>2
    <3>4. QED BY <3>2, <3>3 DEF Names
  <2>4. QED BY <2>1, <2>2, <2>3
<1>8. QED BY <1>6, <1>7

LEMMA DirRemoved ==
    ASSUME NEW s, RootOpen(s), NEW t, NEW off \in 0 .. DirSize(s) - 1, NEW i \in File, Dent(s, off) = i,
           DirWrote(s, t, off, 0, 1)
    PROVE  RootOpen(t) /\ Names(t) = Names(s) \ {i}
<1>1. DirSize(s) \in Nat /\ 0 \notin File
  BY RootIs, Inodes
<1>2. Dent(t, off) = 0 /\ DirSize(t) = DirSize(s)
  BY <1>1 DEF DirWrote
<1>3. \A o \in 0 .. DirSize(s) - 1 : o # off => Dent(t, o) = Dent(s, o)
  BY DEF DirWrote
<1>4. \A o, q \in 0 .. DirSize(s) - 1 : Dent(s, o) = Dent(s, q) /\ Dent(s, o) \in File => o = q
  BY DEF RootOpen, Good, DirOK
<1>5. \A o, q \in 0 .. DirSize(t) - 1 : Dent(t, o) = Dent(t, q) /\ Dent(t, o) \in File => o = q
  BY <1>1, <1>2, <1>3, <1>4
<1>6. RootOpen(t)
  BY <1>5, DirGood
<1>7. Names(t) = Names(s) \ {i}
  <2>1. ASSUME NEW j \in Names(s), j # i PROVE j \in Names(t)
    <3>1. PICK o \in 0 .. DirSize(s) - 1 : Dent(s, o) = j
      BY DEF Names
    <3>2. j \in File /\ o # off
      BY <2>1, <3>1 DEF Names
    <3>3. QED BY <1>2, <1>3, <3>1, <3>2 DEF Names
  <2>2. ASSUME NEW j \in Names(t) PROVE j \in Names(s) \ {i}
    <3>1. PICK o \in 0 .. DirSize(t) - 1 : Dent(t, o) = j
      BY DEF Names
    <3>2. j \in File /\ o # off /\ o \in 0 .. DirSize(s) - 1
      BY <1>1, <1>2, <3>1 DEF Names
    <3>3. Dent(s, o) = j
      BY <1>3, <3>1, <3>2
    <3>4. j # i
      <4>1. ASSUME j = i PROVE FALSE
        BY <1>4, <3>2, <3>3, <4>1
      <4>2. QED BY <4>1
    <3>5. QED BY <3>2, <3>3, <3>4 DEF Names
  <2>3. QED BY <2>1, <2>2
<1>8. QED BY <1>6, <1>7

\* iupdate of an inode with another number of links.
Relinked(s, i, n) == iupdate([s EXCEPT !.mem[i].ino.nlink = n], i)

LinkSet(s, t, i, n) ==
    /\ Good(t) /\ Names(t) = Names(s) /\ Elsewhere(s, t, i)
    /\ \A j \in File \ {i} : LinkOK(s, j) => LinkOK(t, j)
    /\ t.mem[i].ref = s.mem[i].ref /\ t.mem[i].valid = TRUE
    /\ t.mem[i].ino.type = s.mem[i].ino.type /\ t.mem[i].ino.nlink = n
    /\ t.mem[i].ino.size = s.mem[i].ino.size /\ t.mem[i].ino.addrs = s.mem[i].ino.addrs
    /\ t.content = s.content
    /\ t.dinode[i] = t.mem[i].ino /\ t.mem[ROOTINO] = s.mem[ROOTINO] /\ Tidy(s, t)

LEMMA RelinkedIs ==
    ASSUME NEW s, Good(s), NEW i \in File, InUse(s, i), NEW n \in 0 .. 1
    PROVE  LinkSet(s, Relinked(s, i, n), i, n)
<1> DEFINE t == Relinked(s, i, n)  ino == s.mem[i].ino  y == [ino EXCEPT !.nlink = n]
           e == s.mem[i]  d == s.dinode[i]  f == Holding(s, i, y)
           h == Pointer(s, i)  g == [used |-> s.used, content |-> s.content, ino |-> y, addr |-> 0, panic |-> FALSE]
<1>1. /\ s \in FsState /\ s.panic = FALSE /\ BlocksInv(s) /\ i \in Inum /\ ROOTINO \in Inum \ {i}
      /\ \A j \in Inum : TableOK(s, j)
  BY GoodIs, Inodes
<1>2. /\ e \in TableEntry /\ e.ino \in InodeType /\ e.ref > 0 /\ e.valid = TRUE
      /\ s.used \in SUBSET Block /\ s.content \in BlockWords
  BY <1>1, StateIs DEF InUse
<1>3. y \in InodeType /\ y.type = ino.type /\ y.nlink = n /\ y.addrs = ino.addrs /\ y.size = ino.size
  BY <1>2, InodeTypeIs
<1>4. t = Put(s, i, s.used, s.content, y, f)
  <2>1. s = Put(s, i, s.used, s.content, d, e)
    BY <1>1, PutSelf
  <2>2. f = [ref |-> e.ref, valid |-> e.valid, ino |-> [e.ino EXCEPT !.nlink = n]] /\ f.ino = y
    BY <1>2 DEF Holding
  <2>3. t = iupdate([s EXCEPT !.mem[i].ino.nlink = n], i)
    BY DEF Relinked
  <2> HIDE DEF d, e, f, y, t
  <2>4. [Put(s, i, s.used, s.content, d, e) EXCEPT !.mem[i].ino.nlink = n] =
          Put(s, i, s.used, s.content, d, [ref |-> e.ref, valid |-> e.valid, ino |-> [e.ino EXCEPT !.nlink = n]])
    BY <1>1, <1>2, PutNlink
  <2>5. iupdate(Put(s, i, s.used, s.content, d, f), i) = Put(s, i, s.used, s.content, f.ino, f)
    BY <1>1, PutDisk
  <2>6. QED BY <2>1, <2>2, <2>3, <2>4, <2>5, Zenon
<1>5. Owned(h, Others(s, i)) /\ h.used = s.used /\ h.content = s.content /\ h.ino = ino
  BY <1>1, PointerOwned
<1> HIDE DEF t, ino, y, e, d, h
<1>6. g \in Handle /\ g.used = s.used /\ g.content = s.content /\ g.ino = y
  BY <1>2, <1>3, Sizes DEF Handle
<1> HIDE DEF g, f
<1>7. \A p : P(g, p) = P(h, p)
  BY <1>3, <1>5, <1>6 DEF P, Ptr
<1>8. Owned(g, Others(s, i))
  BY <1>5, <1>6, <1>7 DEF Owned
<1>9. Fits(s, i, s.used, s.content, y, f)
  <2>1. Fits(s, i, g.used, g.content, g.ino, Holding(s, i, g.ino))
    BY <1>1, <1>2, <1>6, <1>8, WriteFits DEF e
  <2>2. QED BY <1>6, <2>1, Zenon DEF f
<1>10. Good(t) /\ Names(t) = Names(s) /\ \A j \in File \ {i} : LinkOK(s, j) => LinkOK(t, j)
  BY <1>4, <1>9, PutGood
<1>11. Became(t, s, i, s.used, s.content, y, f)
  BY <1>1, <1>4, <1>9, PutIs DEF Fits
<1>12. f.ref = s.mem[i].ref /\ f.valid = TRUE /\ f.ino = y
  BY <1>2, <1>3 DEF f, e, Holding
<1>13. t.mem[ROOTINO] = s.mem[ROOTINO]
  BY <1>1, <1>11 DEF Became, Elsewhere
<1>14. Tidy(s, t)
  <2>1. View(s, i) = ino /\ ino.type # 0 /\ Seen(y, f) = y
    BY <1>2, <1>12 DEF View, Seen, InUse, e, ino
  <2>2. \A p : Ptr(s.content, y, p) = V(s, i, p)
    BY <1>3, <2>1 DEF V, Ptr
  <2>3. Accounts(s, i, s.used, s.content, y)
    BY <1>3, <2>1, <2>2 DEF Accounts
  <2>4. QED BY <1>1, <1>4, <1>9, <1>12, <2>1, <2>3, PutTidy
<1>15. LinkSet(s, t, i, n)
  BY <1>3, <1>10, <1>11, <1>12, <1>13, <1>14 DEF LinkSet, Became, ino
<1>16. QED BY <1>15 DEF t

-----------------------------------------------------------------------------
(* A name more or less *)

\* unlink() up to iput: the file has neither name nor link, and is loaded.
LEMMA RemovedSound ==
    ASSUME NEW s, Sound(s), RootOpen(s), NEW i \in Names(s), InUse(s, i)
    PROVE  LET w == writei(s, ROOTINO, dirlookup(s, i), <<0>>)
               n == w.st.mem[i].ino.nlink
               f == Relinked(w.st, i, n - 1)
           IN  /\ w.n = 1 /\ s.mem[i].ino.nlink = 1 /\ n = 1
               /\ Sound(f) /\ Elsewhere(s, w.st, ROOTINO) /\ Elsewhere(w.st, f, i)
               /\ w.st.mem[ROOTINO].ref = s.mem[ROOTINO].ref /\ w.st.mem[ROOTINO].valid = TRUE
               /\ f.mem[i].ref = s.mem[i].ref /\ f.mem[i].valid = TRUE /\ Tidy(s, f)
               /\ Names(f) = Names(s) \ {i} /\ Good(w.st) /\ InUse(w.st, i)
<1> DEFINE off == dirlookup(s, i)  w == writei(s, ROOTINO, off, <<0>>)  t == w.st
           n == t.mem[i].ino.nlink  f == Relinked(t, i, n - 1)
<1>1. off \in 0 .. DirSize(s) - 1 /\ Dent(s, off) = i /\ DirSize(s) \in FileSize
  BY dirlookupIs, RootIs
<1>2. i \in File /\ i \in Inum /\ s \in FsState /\ TableOK(s, i) /\ LinkOK(s, i)
  BY GoodIs, Inodes DEF Sound, Names
<1>3. off \in 0 .. DirSize(s) /\ off < MAXFILE * BSIZE /\ off < DirSize(s) /\ 0 \in Cell
  BY <1>1, Sizes DEF FileSize, Cell
<1> HIDE DEF off
<1>4. DirWrote(s, t, off, 0, w.n)
  BY <1>3, DirWritten
<1> HIDE DEF w
<1>5. w.n = 1
  BY <1>3, <1>4 DEF DirWrote
<1> HIDE DEF t
<1>6. RootOpen(t) /\ Names(t) = Names(s) \ {i}
  BY <1>1, <1>2, <1>4, <1>5, DirRemoved
<1>7. Elsewhere(s, t, ROOTINO) /\ t.mem[ROOTINO].ref = s.mem[ROOTINO].ref /\ t.mem[ROOTINO].valid = TRUE
  BY <1>4 DEF DirWrote
<1>8. \A j \in File : t.mem[j] = s.mem[j] /\ t.dinode[j] = s.dinode[j]
  BY <1>7, Inodes DEF Elsewhere
<1>9. s.mem[i].ino.nlink = 1 /\ s.mem[i].ino.type # 0
  <2>1. s.dinode[i].type # 0 /\ s.dinode[i].nlink = 1
    BY <1>2 DEF LinkOK
  <2>2. View(s, i) = s.mem[i].ino
    BY DEF View, InUse
  <2>3. QED BY <1>2, <2>1, <2>2, ViewIs DEF SameButAddrs
<1>10. InUse(t, i) /\ n = 1 /\ n - 1 = 0 /\ Good(t)
  BY <1>2, <1>6, <1>8, <1>9 DEF InUse, RootOpen
<1>11. \A j \in File \ {i} : LinkOK(t, j)
  <2>1. ASSUME NEW j \in File \ {i} PROVE LinkOK(t, j)
    <3>1. LinkOK(s, j) /\ t.mem[j] = s.mem[j] /\ t.dinode[j] = s.dinode[j] /\ (j \in Names(t) <=> j \in Names(s))
      BY <1>6, <1>8 DEF Sound
    <3>2. QED BY <3>1 DEF LinkOK
  <2>2. QED BY <2>1
<1> HIDE DEF n
<1>12. LinkSet(t, f, i, 0)
  <2> DEFINE m == n - 1
  <2>1. m = 0 /\ m \in 0 .. 1
    BY <1>10
  <2> HIDE DEF m
  <2>2. LinkSet(t, Relinked(t, i, m), i, m)
    BY <1>2, <1>10, <2>1, RelinkedIs
  <2>3. f = Relinked(t, i, m)
    BY DEF m
  <2> HIDE DEF f
  <2>4. QED BY <2>1, <2>2, <2>3
<1> HIDE DEF f
<1>13. LinkOK(f, i)
  BY <1>6, <1>8, <1>2, <1>9, <1>12 DEF LinkOK, LinkSet
<1>14. Sound(f)
  BY <1>11, <1>12, <1>13 DEF Sound, LinkSet
<1>15. Tidy(s, f)
  BY <1>4, <1>12, TidyTwice DEF DirWrote, LinkSet
<1>16. QED BY <1>2, <1>5, <1>6, <1>7, <1>8, <1>9, <1>10, <1>12, <1>14, <1>15 DEF LinkSet, f, n, t, w, off

LEMMA PutDinode ==
    ASSUME NEW s \in FsState, NEW i \in Inum, NEW u, NEW c, NEW d, NEW e, NEW x
    PROVE  [Put(s, i, u, c, d, e) EXCEPT !.dinode[i] = x] = Put(s, i, u, c, x, e)
<1> DEFINE D == [s.dinode EXCEPT ![i] = d]  E == [s.dinode EXCEPT ![i] = x]  M == [s.mem EXCEPT ![i] = e]
           t == Put(s, i, u, c, d, e)
<1>1. [D EXCEPT ![i] = x] = E
  BY StateIs
<1>2. t = [used |-> u, content |-> c, dinode |-> D, mem |-> M, panic |-> FALSE]
  BY DEF Put
<1> HIDE DEF D, M, E, t
<1>3. t.dinode = D
  BY <1>2
<1>4. ASSUME NEW r, r = [t EXCEPT !.dinode = E]
      PROVE  r = [used |-> u, content |-> c, dinode |-> E, mem |-> M, panic |-> FALSE]
  BY <1>2, <1>4
<1>5. [t EXCEPT !.dinode = E] = [used |-> u, content |-> c, dinode |-> E, mem |-> M, panic |-> FALSE]
  BY <1>4
<1>6. [t EXCEPT !.dinode[i] = x] = [t EXCEPT !.dinode = E]
  BY <1>1, <1>3
<1>7. QED BY <1>5, <1>6, Zenon DEF Put, E, M, t

LEMMA PutPut ==
    ASSUME NEW s \in FsState, NEW i \in Inum, NEW u, NEW c, NEW d, NEW e,
           NEW u1, NEW c1, NEW d1, NEW e1
    PROVE  Put(Put(s, i, u, c, d, e), i, u1, c1, d1, e1) = Put(s, i, u1, c1, d1, e1)
<1> DEFINE D == [s.dinode EXCEPT ![i] = d]  M == [s.mem EXCEPT ![i] = e]  t == Put(s, i, u, c, d, e)
<1>1. /\ [D EXCEPT ![i] = d1] = [s.dinode EXCEPT ![i] = d1]
      /\ [M EXCEPT ![i] = e1] = [s.mem EXCEPT ![i] = e1]
  BY StateIs
<1>2. t = [used |-> u, content |-> c, dinode |-> D, mem |-> M, panic |-> FALSE]
  BY DEF Put
<1> HIDE DEF D, M, t
<1>3. t.dinode = D /\ t.mem = M
  BY <1>2
<1>4. Put(t, i, u1, c1, d1, e1) = Put(s, i, u1, c1, d1, e1)
  BY <1>1, <1>3, Zenon DEF Put
<1>5. QED BY <1>4 DEF t

\* The inode create() has allocated and given its link, before it has a name.
Fresh(s, i) ==
    LET t == ilock(iget([s EXCEPT !.dinode[i] = [FreeInode EXCEPT !.type = 2]], i), i)
    IN  iupdate([t EXCEPT !.mem[i].ino = [@ EXCEPT !.nlink = 1, !.size = 0]], i)

Created(s, t, i) ==
    /\ i \in File /\ s.mem[i] = NoEntry /\ i \notin Names(s)
    /\ Good(t) /\ Names(t) = Names(s) /\ Elsewhere(s, t, i) /\ \A j \in File \ {i} : LinkOK(t, j)
    /\ t.mem[i].ref = 1 /\ t.mem[i].valid = TRUE /\ t.dinode[i] = t.mem[i].ino
    /\ t.mem[i].ino.type = 2 /\ t.mem[i].ino.nlink = 1 /\ t.mem[i].ino.size = 0
    /\ t.mem[i].ino.addrs = NoAddrs /\ t.content = s.content /\ Tidy(s, t)

LEMMA FreshIs ==
    ASSUME NEW s, Sound(s), NEW i \in Inum, s.dinode[i].type = 0
    PROVE  Created(s, Fresh(s, i), i)
<1> DEFINE u == s.used  c == s.content
           d0 == [FreeInode EXCEPT !.type = 2]  d1 == [d0 EXCEPT !.nlink = 1, !.size = 0]
           e1 == [ref |-> 1, valid |-> FALSE, ino |-> FreeInode]
           e2 == [ref |-> 1, valid |-> TRUE, ino |-> d0]
           e3 == [ref |-> 1, valid |-> TRUE, ino |-> d1]
           a == iget([s EXCEPT !.dinode[i] = d0], i)  t == ilock(a, i)  f == Fresh(s, i)
<1>1. /\ Good(s) /\ s \in FsState /\ s.panic = FALSE /\ BlocksInv(s) /\ TableOK(s, i)
      /\ s.dinode[ROOTINO].type = 1 /\ (\A j \in File : LinkOK(s, j)) /\ \A j \in Inum : TableOK(s, j)
  BY GoodIs DEF Sound, Good
<1>2. i \in File
  BY <1>1, Inodes
<1>3. s.mem[i] = NoEntry /\ i \notin Names(s)
  BY <1>1, <1>2 DEF LinkOK, TableOK
<1>4. /\ FreeInode \in InodeType /\ d0 \in InodeType /\ d1 \in InodeType
      /\ d0.type = 2 /\ d1.type = 2 /\ d1.nlink = 1 /\ d1.addrs = NoAddrs /\ d1.size = 0
  <2>1. /\ FreeInode \in InodeType /\ FreeInode.addrs = NoAddrs
    BY Sizes DEF InodeType, FreeInode, NoAddrs
  <2>2. d0 \in InodeType /\ d0.type = 2 /\ d0.addrs = NoAddrs
    BY <2>1, InodeTypeIs
  <2> HIDE DEF d0
  <2>3. d1 \in InodeType /\ d1.type = 2 /\ d1.nlink = 1 /\ d1.addrs = NoAddrs /\ d1.size = 0
    <3>1. 0 \in FileSize
      BY Sizes DEF FileSize
    <3>2. d1 = [d0 EXCEPT !.nlink = 1, !.size = 0]
      OBVIOUS
    <3> HIDE DEF d1
    <3>3. d1 = [type |-> d0.type, nlink |-> 1, size |-> 0, addrs |-> d0.addrs]
      BY <2>2, <3>2, InodeTypeIs
    <3>4. d1.type = 2 /\ d1.nlink = 1 /\ d1.addrs = NoAddrs /\ d1.size = 0
      BY <2>2, <3>3
    <3>5. d0.addrs \in Addrs
      BY <2>2, InodeTypeIs
    <3>6. d1 \in InodeType
      BY <2>2, <3>1, <3>3, <3>5, InodeTypeIs
    <3>7. QED BY <3>4, <3>6
  <2>4. QED BY <2>1, <2>2, <2>3
<1>5. /\ NoEntry = [ref |-> 0, valid |-> FALSE, ino |-> FreeInode] /\ NoEntry \in TableEntry
      /\ NoEntry.ref = 0 /\ NoEntry.valid = FALSE /\ NoEntry.ino = FreeInode
      /\ e1 \in TableEntry /\ e1.ref = 1 /\ e1.valid = FALSE
      /\ e2 \in TableEntry /\ e2.ref = 1 /\ e2.valid = TRUE /\ e2.ino = d0
      /\ e3 \in TableEntry /\ e3.ref = 1 /\ e3.valid = TRUE /\ e3.ino = d1
  BY <1>4 DEF NoEntry, TableEntry
<1>6. f = iupdate([t EXCEPT !.mem[i].ino = [t.mem[i].ino EXCEPT !.nlink = 1, !.size = 0]], i)
  BY DEF Fresh
<1>7. u \in SUBSET Block /\ c \in BlockWords
  BY <1>1, StateIs
<1>8. [d0 EXCEPT !.nlink = 1, !.size = 0] = d1
  OBVIOUS
<1>9. /\ e1 = [ref |-> 1, valid |-> FALSE, ino |-> FreeInode]
      /\ e2 = [ref |-> 1, valid |-> TRUE, ino |-> d0]
      /\ e3 = [ref |-> 1, valid |-> TRUE, ino |-> d1]
  OBVIOUS
<1> HIDE DEF d0, d1, e1, e2, e3, t, f, u, c
<1>10. [s EXCEPT !.dinode[i] = d0] = Put(s, i, u, c, d0, NoEntry)
  <2> DEFINE d == s.dinode[i]
  <2>1. s = Put(s, i, s.used, s.content, s.dinode[i], s.mem[i])
    BY <1>1, PutSelf
  <2>2. s = Put(s, i, u, c, d, NoEntry)
    BY <1>3, <2>1, Zenon DEF u, c
  <2> HIDE DEF d
  <2>3. [Put(s, i, u, c, d, NoEntry) EXCEPT !.dinode[i] = d0] = Put(s, i, u, c, d0, NoEntry)
    BY <1>1, PutDinode
  <2>4. QED BY <2>2, <2>3, Zenon
<1>11. a = Put(s, i, u, c, d0, e1)
  <2> DEFINE q == Put(s, i, u, c, d0, NoEntry)
  <2>1. q.mem[i] = NoEntry
    BY <1>1, PutAt
  <2>2. a = [q EXCEPT !.mem[i].ref = q.mem[i].ref + 1]
    BY <1>10 DEF iget
  <2>3. q.mem[i].ref + 1 = 1
    BY <1>5, <2>1
  <2> HIDE DEF a, q
  <2>4. a = [q EXCEPT !.mem[i].ref = 1]
    BY <2>2, <2>3, Zenon
  <2> DEFINE one == 1
  <2>6. [ref |-> one, valid |-> NoEntry.valid, ino |-> NoEntry.ino] = e1 /\ a = [q EXCEPT !.mem[i].ref = one]
    BY <1>5, <1>9, <2>4
  <2> DEFINE e0 == NoEntry
  <2>7. e0 \in TableEntry
    BY <1>5
  <2> HIDE DEF one, e0
  <2>5. [Put(s, i, u, c, d0, e0) EXCEPT !.mem[i].ref = one] =
          Put(s, i, u, c, d0, [ref |-> one, valid |-> e0.valid, ino |-> e0.ino])
    BY <1>1, <2>7, PutRef
  <2>8. QED BY <2>5, <2>6, Zenon DEF q, e0
<1> HIDE DEF a
<1>12. Became(a, s, i, u, c, d0, e1)
  BY <1>1, <1>4, <1>5, <1>7, <1>11, PutIs DEF Typed
<1>13. a \in FsState /\ a.panic = FALSE /\ a.dinode[i] = d0 /\ a.mem[i] = e1 /\ a.used = u /\ a.content = c
       /\ View(a, i) = d0
  BY <1>5, <1>12 DEF Became, Seen
<1>14. t = Put(s, i, u, c, d0, e2)
  <2>0. a.mem[i].ref > 0 /\ a.dinode[i].type # 0
    BY <1>4, <1>5, <1>13
  <2>1. t = Loaded(a, i)
    BY <1>13, <2>0, ilockIs DEF t
  <2>2. Loaded(a, i) = Put(a, i, u, c, d0, [ref |-> e1.ref, valid |-> TRUE, ino |-> d0])
    BY <1>13, Zenon DEF Loaded
  <2>3. [ref |-> e1.ref, valid |-> TRUE, ino |-> d0] = e2
    BY <1>5, <1>9
  <2>4. Put(Put(s, i, u, c, d0, e1), i, u, c, d0, e2) = Put(s, i, u, c, d0, e2)
    BY <1>1, PutPut
  <2>5. QED BY <1>11, <2>1, <2>2, <2>3, <2>4, Zenon
<1>15. f = Put(s, i, u, c, d1, e3)
  <2>1. t.mem[i].ino = d0
    BY <1>1, <1>5, <1>14, PutAt
  <2>2. f = iupdate([t EXCEPT !.mem[i].ino = d1], i)
    BY <1>6, <1>8, <2>1, Zenon
  <2>3. [Put(s, i, u, c, d0, e2) EXCEPT !.mem[i].ino = d1] =
          Put(s, i, u, c, d0, [ref |-> e2.ref, valid |-> e2.valid, ino |-> d1])
    BY <1>1, <1>5, PutIno
  <2>4. [ref |-> e2.ref, valid |-> e2.valid, ino |-> d1] = e3
    BY <1>5, <1>9
  <2>5. iupdate(Put(s, i, u, c, d0, e3), i) = Put(s, i, u, c, e3.ino, e3)
    BY <1>1, PutDisk
  <2>6. QED BY <1>5, <1>14, <2>2, <2>3, <2>4, <2>5, Zenon
<1>16. Fits(s, i, u, c, d1, e3)
  <2>1. d1 = [d1 EXCEPT !.addrs = d1.addrs]
    BY <1>4, SelfAgree
  <2>2. e3.ino = [d1 EXCEPT !.addrs = e3.ino.addrs]
    BY <1>5, <2>1
  <2>3. Agree(d1, e3) /\ Seen(d1, e3) = d1
    BY <1>5, <2>2 DEF Agree, Seen
  <2>4. \A p \in Place : Ptr(c, d1, p) = 0
    BY <1>4 DEF Ptr, At, NoAddrs, Place
  <2>5. Others(s, i) \subseteq u
    BY <1>1, OwnIs DEF u
  <2>6. OwnBlocks(u, c, d1, Others(s, i))
    BY <2>4 DEF OwnBlocks
  <2>7. QED BY <1>4, <1>5, <1>7, <2>3, <2>5, <2>6 DEF Fits, Typed, c
<1>17. Good(f) /\ Names(f) = Names(s) /\ \A j \in File \ {i} : LinkOK(s, j) => LinkOK(f, j)
  BY <1>1, <1>2, <1>15, <1>16, PutGood
<1>18. Became(f, s, i, u, c, d1, e3)
  BY <1>1, <1>15, <1>16, PutIs DEF Fits
<1>19. Tidy(s, f)
  <2>1. View(s, i).type = 0
    BY <1>3, <1>5 DEF View
  <2>2. Accounts(s, i, u, c, Seen(d1, e3))
    BY <2>1 DEF Accounts, u
  <2>3. QED BY <1>1, <1>5, <1>15, <1>16, <2>2, PutTidy
<1>20. Created(s, f, i)
  BY <1>1, <1>2, <1>3, <1>4, <1>5, <1>17, <1>18, <1>19 DEF Created, Became, c
<1>21. QED BY <1>20 DEF f

\* The directory has the new name, or it is full and has not changed.
Linked(s, w, i) ==
    /\ RootOpen(w.st) /\ Elsewhere(s, w.st, ROOTINO)
    /\ w.st.mem[ROOTINO].ref = s.mem[ROOTINO].ref /\ w.st.mem[ROOTINO].valid = TRUE
    /\ Names(w.st) = IF w.n = 1 THEN Names(s) \cup {i} ELSE Names(s)
    /\ Tidy(s, w.st)

LEMMA dirlinkIs ==
    ASSUME NEW s, RootOpen(s), s.mem[ROOTINO].valid = TRUE, NEW i \in File, i \notin Names(s)
    PROVE  Linked(s, dirlink(s, i), i)
<1> DEFINE empty == {o \in DirOffsets(s) : Entry(s, o) = 0}
           off == IF empty = {} THEN s.mem[ROOTINO].ino.size ELSE Least(empty)
           w == writei(s, ROOTINO, off, <<i>>)
<1>1. /\ DirOffsets(s) = 0 .. DirSize(s) - 1 /\ DirSize(s) \in Nat /\ (\A o : Entry(s, o) = Dent(s, o))
      /\ s.mem[ROOTINO].ino.size = DirSize(s)
  BY RootIs DEF DirSize
<1>2. off \in 0 .. DirSize(s) /\ (off < DirSize(s) => Dent(s, off) = 0)
  <2>1. CASE empty = {}
    BY <1>1, <2>1
  <2>2. CASE empty # {}
    <3>1. empty \in SUBSET (0 .. DirSize(s) - 1) /\ 0 \in Nat /\ DirSize(s) - 1 \in Int
      BY <1>1
    <3>2. Least(empty) \in empty
      <4> HIDE DEF empty
      <4>1. QED BY <2>2, <3>1, LeastUpTo
    <3>3. QED BY <1>1, <2>2, <3>1, <3>2
  <2>3. QED BY <2>1, <2>2
<1>3. dirlink(s, i) = w
  BY DEF dirlink
<1> HIDE DEF off, w
<1>4. off \in Nat /\ MAXFILE * BSIZE \in Nat
  BY <1>1, <1>2, Sizes
<1>5. CASE off < MAXFILE * BSIZE
  <2>1. i \in Cell
    BY Inodes DEF Cell
  <2>2. DirWrote(s, w.st, off, i, w.n)
    BY <1>2, <1>5, <2>1, DirWritten DEF w
  <2>3. /\ Elsewhere(s, w.st, ROOTINO) /\ w.st.mem[ROOTINO].ref = s.mem[ROOTINO].ref
        /\ w.st.mem[ROOTINO].valid = TRUE /\ w.n \in {0, 1} /\ Tidy(s, w.st)
    BY <2>2 DEF DirWrote
  <2> DEFINE t == w.st  n == w.n
  <2> HIDE DEF t, n
  <2>4. CASE n = 1
    <3>1. DirWrote(s, t, off, i, 1)
      BY <2>2, <2>4 DEF t, n
    <3>2. RootOpen(t) /\ Names(t) = Names(s) \cup {i}
      BY <1>2, <3>1, DirAdded
    <3>3. QED BY <1>3, <2>3, <2>4, <3>2 DEF Linked, t, n
  <2>5. CASE n = 0
    <3>1. DirWrote(s, t, off, i, 0)
      BY <2>2, <2>5 DEF t, n
    <3>2. RootOpen(t) /\ Names(t) = Names(s)
      BY <1>2, <3>1, DirFull
    <3>3. QED BY <1>3, <2>3, <2>5, <3>2 DEF Linked, t, n
  <2>6. QED BY <2>3, <2>4, <2>5 DEF n
<1>6. CASE ~(off < MAXFILE * BSIZE)
  <2>1. Len(<<i>>) = 1
    OBVIOUS
  <2>2. off + Len(<<i>>) > MAXFILE * BSIZE
    BY <1>4, <1>6, <2>1
  <2>3. w = [st |-> s, n |-> -1]
    BY <2>2, Zenon DEF writei, w
  <2>4. w.st = s /\ w.n # 1
    BY <2>3
  <2>5. QED BY <1>3, <2>4, TidySelf DEF Linked, Elsewhere
<1>7. QED BY <1>5, <1>6

LEMMA iallocIs ==
    ASSUME NEW s
    PROVE  \/ ialloc(s, 2).inum = 0
           \/ \E i \in Inum :
                /\ s.dinode[i].type = 0 /\ ialloc(s, 2).inum = i
                /\ ialloc(s, 2).st = iget([s EXCEPT !.dinode[i] = [FreeInode EXCEPT !.type = 2]], i)
<1> DEFINE free == {i \in Inum : s.dinode[i].type = 0}  i == Least(free)
           st == iget([s EXCEPT !.dinode[i] = [FreeInode EXCEPT !.type = 2]], i)
<1>1. ialloc(s, 2) = IF free = {} THEN [st |-> s, inum |-> 0] ELSE [st |-> st, inum |-> i]
  BY DEF ialloc
<1>2. free # {} => i \in free
  <2>1. free \in SUBSET (1 .. NINODES - 1) /\ 1 \in Nat /\ NINODES - 1 \in Int
    BY InodeAssumption DEF Inum
  <2> HIDE DEF free
  <2>2. QED BY <2>1, LeastUpTo
<1>3. CASE free = {}
  BY <1>1, <1>3
<1>4. CASE free # {}
  <2>1. i \in Inum /\ s.dinode[i].type = 0
    BY <1>2, <1>4
  <2> HIDE DEF free, i, st
  <2>2. ialloc(s, 2).inum = i /\ ialloc(s, 2).st = st
    BY <1>1, <1>4
  <2>3. QED BY <2>1, <2>2 DEF st
<1>5. QED BY <1>3, <1>4

-----------------------------------------------------------------------------
(* What the files contain *)

\* Word o of file i for the file system, and as the inode on disk has it.
FileWord(s, i, o) == WordAt(s.content, View(s, i), o)
DiskWord(s, i, o) == WordAt(s.content, s.dinode[i], o)

DataOK(s, i) ==
    /\ s.dinode[i].type = 0 => s.dinode[i].size = 0
    /\ s.dinode[i].type # 0 => \A o \in Within :
         /\ o >= View(s, i).size => FileWord(s, i, o) = 0
         /\ DiskWord(s, i, o) = FileWord(s, i, o)

\* From s to t file i has not changed.
Same(s, t, i) ==
    /\ t.dinode[i].type = s.dinode[i].type /\ t.dinode[i].size = s.dinode[i].size
    /\ View(t, i).size = View(s, i).size
    /\ s.dinode[i].type # 0 => \A o \in Within :
         FileWord(t, i, o) = FileWord(s, i, o) /\ DiskWord(t, i, o) = DiskWord(s, i, o)

\* Neither has any file but i.
SameBut(s, t, i) == \A j \in File \ {i} : Same(s, t, j)
SameFiles(s, t) == \A j \in File : Same(s, t, j)

LEMMA SameData == ASSUME NEW s, NEW t, NEW i, Same(s, t, i), DataOK(s, i) PROVE DataOK(t, i)
BY DEF Same, DataOK

LEMMA SameTwice ==
    ASSUME NEW s, NEW t, NEW r, NEW i, Same(s, t, i), Same(t, r, i)
    PROVE  Same(s, r, i)
BY DEF Same

LEMMA SameButTwice ==
    ASSUME NEW s, NEW t, NEW r, NEW i
    PROVE  /\ SameBut(s, t, i) /\ SameBut(t, r, i) => SameBut(s, r, i)
           /\ SameFiles(s, t) /\ SameBut(t, r, i) => SameBut(s, r, i)
           /\ SameBut(s, t, i) /\ SameFiles(t, r) => SameBut(s, r, i)
           /\ SameFiles(s, t) /\ SameFiles(t, r) => SameFiles(s, r)
BY SameTwice DEF SameBut, SameFiles

LEMMA SameRoot ==
    ASSUME NEW s, NEW t
    PROVE  SameBut(s, t, ROOTINO) <=> SameFiles(s, t)
BY Inodes DEF SameBut, SameFiles

LEMMA SameAll ==
    ASSUME NEW s, NEW t, NEW i, SameBut(s, t, i), i \in File => Same(s, t, i)
    PROVE  SameFiles(s, t)
BY DEF SameBut, SameFiles

\* The words of an inode are in its blocks.
LEMMA WordsKept ==
    ASSUME NEW c, NEW d, NEW ino, \A q \in Place : Ptr(c, ino, q) # 0 => d[Ptr(c, ino, q)] = c[Ptr(c, ino, q)]
    PROVE  \A o \in Within : WordAt(d, ino, o) = WordAt(c, ino, o)
<1>1. ASSUME NEW o \in Within PROVE WordAt(d, ino, o) = WordAt(c, ino, o)
  <2> DEFINE p == DataPlace(o \div BSIZE)  k == o % BSIZE
  <2>1. p \in Place
    BY WordPlace, DataPlaceTyped DEF Within
  <2>2. WordAt(c, ino, o) = At(c, Ptr(c, ino, p), k) /\ WordAt(d, ino, o) = At(d, Ptr(d, ino, p), k)
    BY DEF WordAt
  <2> HIDE DEF p, k
  <2>3. Ptr(d, ino, p) = Ptr(c, ino, p)
    BY <2>1, PtrKept
  <2>4. QED BY <2>1, <2>2, <2>3 DEF At
<1>2. QED BY <1>1

\* Pointers and words depend on the pointers of the inode only.
LEMMA AddrsOnly ==
    ASSUME NEW d, NEW v, d.addrs = v.addrs, NEW c
    PROVE  (\A p : Ptr(c, d, p) = Ptr(c, v, p)) /\ \A o : WordAt(c, d, o) = WordAt(c, v, o)
<1>1. \A p : Ptr(c, d, p) = Ptr(c, v, p)
  BY DEF Ptr
<1>2. QED BY <1>1 DEF WordAt

\* A change of one inode and its blocks leaves the files of others alone.
LEMMA PutSame ==
    ASSUME NEW s, Good(s), NEW i \in Inum, NEW u, NEW c, NEW d, NEW e, Fits(s, i, u, c, d, e)
    PROVE  SameBut(s, Put(s, i, u, c, d, e), i)
<1> DEFINE t == Put(s, i, u, c, d, e)
<1>1. s \in FsState /\ BlocksInv(s) /\ \A j \in Inum : TableOK(s, j)
  BY GoodIs
<1>2. Became(t, s, i, u, c, d, e)
  BY <1>1, PutIs DEF Fits
<1> HIDE DEF t
<1>3. ASSUME NEW j \in File \ {i} PROVE Same(s, t, j)
  <2> DEFINE v == View(s, j)  x == s.dinode[j]
  <2>1. j \in Inum \ {i} /\ View(t, j) = v /\ t.dinode[j] = x /\ t.content = c /\ TableOK(s, j)
    BY <1>1, <1>2, Inodes DEF Became, Elsewhere
  <2>2. x.type = v.type /\ \A k \in 0 .. NDIRECT + 1 : x.addrs[k] \in {0, v.addrs[k]}
    <3>1. SameButAddrs(v, x)
      BY <1>1, <2>1, ViewIs
    <3>2. QED BY <2>1, <3>1 DEF TableOK, View, SameButAddrs
  <2> HIDE DEF v, x
  <2>3. ASSUME x.type # 0
        PROVE  \A p \in Place : Ptr(s.content, v, p) # 0 => c[Ptr(s.content, v, p)] = s.content[Ptr(s.content, v, p)]
    <3>1. ASSUME NEW p \in Place, Ptr(s.content, v, p) # 0 PROVE Ptr(s.content, v, p) \in Others(s, i)
      <4>1. V(s, j, p) = Ptr(s.content, v, p) /\ j \in Live(s) \ {i}
        BY <2>1, <2>2, <2>3 DEF V, v, Live
      <4>2. V(s, j, p) \in Block
        BY <1>1, <3>1, <4>1, StateIs DEF BlocksInv
      <4>3. QED BY <4>1, <4>2 DEF Others
    <3>2. QED BY <3>1 DEF Fits
  <2>4. ASSUME x.type # 0
        PROVE  \A p \in Place : Ptr(s.content, x, p) # 0 => c[Ptr(s.content, x, p)] = s.content[Ptr(s.content, x, p)]
    <3>1. \A p \in Place : Ptr(s.content, x, p) \in {0, Ptr(s.content, v, p)}
      BY <2>2, FewerPointers
    <3>2. QED BY <2>3, <2>4, <3>1
  <2>5. x.type # 0 => \A o \in Within :
          WordAt(c, v, o) = WordAt(s.content, v, o) /\ WordAt(c, x, o) = WordAt(s.content, x, o)
    BY <2>3, <2>4, WordsKept
  <2>6. QED BY <2>1, <2>5 DEF Same, FileWord, DiskWord, v, x
<1>4. QED BY <1>3 DEF SameBut, t

\* Blocks that do not change.
LEMMA ContentSame ==
    ASSUME NEW s, NEW t, t.content = s.content, NEW i \in Inum, Elsewhere(s, t, i)
    PROVE  /\ SameBut(s, t, i)
           /\ t.dinode[i] = s.dinode[i] /\ View(t, i) = View(s, i) => SameFiles(s, t)
<1>1. \A j \in File \ {i} : Same(s, t, j)
  BY Inodes DEF Elsewhere, Same, FileWord, DiskWord
<1>2. ASSUME t.dinode[i] = s.dinode[i], View(t, i) = View(s, i) PROVE Same(s, t, i)
  BY <1>2 DEF Same, FileWord, DiskWord
<1>3. QED BY <1>1, <1>2 DEF SameBut, SameFiles

LEMMA ilockSame ==
    ASSUME NEW s, Sound(s), NEW i \in Inum, s.mem[i].ref > 0, s.dinode[i].type # 0
    PROVE  SameFiles(s, ilock(s, i))
<1> DEFINE t == ilock(s, i)  e == [ref |-> s.mem[i].ref, valid |-> TRUE, ino |-> View(s, i)]
<1>1. Became(t, s, i, s.used, s.content, s.dinode[i], e) /\ Seen(s.dinode[i], e) = View(s, i)
  BY ilockSound DEF Seen
<1> HIDE DEF t, e
<1>2. QED BY <1>1, ContentSame DEF Became, t

LEMMA igetSame ==
    ASSUME NEW s, Sound(s), NEW i \in Inum, s.dinode[i].type # 0
    PROVE  SameFiles(s, iget(s, i))
<1> DEFINE t == iget(s, i)
           e == [ref |-> s.mem[i].ref + 1, valid |-> s.mem[i].valid, ino |-> s.mem[i].ino]
<1>1. Became(t, s, i, s.used, s.content, s.dinode[i], e) /\ Seen(s.dinode[i], e) = View(s, i)
  BY igetSound DEF Seen, View
<1> HIDE DEF t, e
<1>2. QED BY <1>1, ContentSame DEF Became, t
\* The last iput of a file without a link frees it; any other leaves the file.
LEMMA iputData ==
    ASSUME NEW s, Sound(s), NEW i \in File, s.mem[i].ref > 0, DataOK(s, i)
    PROVE  LET t == iput(s, i)
               last == s.mem[i].ref = 1 /\ s.mem[i].valid /\ s.mem[i].ino.nlink = 0
           IN  /\ SameBut(s, t, i)
               /\ last => t.dinode[i].type = 0 /\ t.dinode[i].size = 0 /\ View(t, i).size = 0
               /\ ~last => Same(s, t, i)
<1> DEFINE t == iput(s, i)  e == s.mem[i]  d == s.dinode[i]  u == s.used \ BlocksOf(s.content, e.ino)
           y == Freed(e.ino)  last == e.ref = 1 /\ e.valid /\ e.ino.nlink = 0
<1>1. /\ s \in FsState /\ s.panic = FALSE /\ BlocksInv(s) /\ TableOK(s, i)
      /\ i \in Inum /\ LinkOK(s, i)
  BY GoodIs, Inodes DEF Sound
<1>2. /\ e \in TableEntry /\ e.ref \in Nat /\ e.ino \in InodeType /\ d \in InodeType
      /\ s.used \in SUBSET Block /\ s.content \in BlockWords /\ e.ref > 0 /\ e.valid \in BOOLEAN
  BY <1>1, StateIs
<1>3. d.type # 0 /\ SameButAddrs(View(s, i), d)
  BY <1>1, <1>2, ViewIs DEF LinkOK
<1>4. e.valid => e.ino.type # 0
  BY <1>3 DEF View, SameButAddrs
<1>5. /\ last => t = Put(s, i, u, s.content, y, NoEntry)
      /\ ~last /\ e.ref = 1 => t = Put(s, i, s.used, s.content, d, NoEntry)
      /\ e.ref # 1 => t = Put(s, i, s.used, s.content, d, Dropped(e))
  BY <1>1, <1>2, <1>4, iputIs
<1>6. NoEntry \in TableEntry /\ NoEntry.valid = FALSE
  <2>1. FreeInode \in InodeType
    BY Sizes DEF InodeType, FreeInode, NoAddrs
  <2>2. QED BY <2>1 DEF NoEntry, TableEntry
<1>7. y \in InodeType /\ y.type = 0 /\ y.size = 0
  <2>1. Truncated(e.ino) \in InodeType /\ Truncated(e.ino).size = 0
    BY <1>2, TruncatedIs
  <2>2. y = [Truncated(e.ino) EXCEPT !.type = 0]
    BY DEF Freed
  <2>3. QED BY <2>1, <2>2, InodeTypeIs
<1>8. u \in SUBSET Block
  BY <1>2
<1> HIDE DEF t, e, d, u, y
<1>9. ASSUME NEW v \in SUBSET Block, NEW x \in InodeType, NEW f \in TableEntry, t = Put(s, i, v, s.content, x, f)
      PROVE  SameBut(s, t, i) /\ t.content = s.content /\ t.dinode[i] = x /\ View(t, i) = Seen(x, f)
  <2>1. Became(t, s, i, v, s.content, x, f)
    BY <1>1, <1>2, <1>9, PutIs DEF Typed
  <2>2. QED BY <1>1, <2>1, ContentSame DEF Became
<1>10. ASSUME last
       PROVE  SameBut(s, t, i) /\ t.dinode[i].type = 0 /\ t.dinode[i].size = 0 /\ View(t, i).size = 0
  BY <1>5, <1>6, <1>7, <1>8, <1>9, <1>10 DEF Seen
<1>11. ASSUME ~last, e.ref = 1 PROVE SameBut(s, t, i) /\ Same(s, t, i)
  <2>1. SameBut(s, t, i) /\ t.content = s.content /\ t.dinode[i] = d /\ View(t, i) = d
    BY <1>2, <1>5, <1>6, <1>9, <1>11 DEF Seen
  <2>2. \A o : FileWord(t, i, o) = DiskWord(s, i, o) /\ DiskWord(t, i, o) = DiskWord(s, i, o)
    BY <2>1 DEF FileWord, DiskWord, d
  <2>3. \A o \in Within : DiskWord(s, i, o) = FileWord(s, i, o)
    BY <1>3 DEF DataOK, d
  <2>4. QED BY <1>3, <2>1, <2>2, <2>3 DEF Same, SameButAddrs, d
<1>12. ASSUME e.ref # 1 PROVE SameBut(s, t, i) /\ Same(s, t, i)
  <2>1. /\ Dropped(e) \in TableEntry /\ Dropped(e).valid = e.valid /\ Dropped(e).ino = e.ino
    <3>1. e.ref - 1 \in Nat
      BY <1>2
    <3>2. QED BY <1>2, <3>1 DEF Dropped, TableEntry
  <2>2. SameBut(s, t, i) /\ t.content = s.content /\ t.dinode[i] = d /\ View(t, i) = View(s, i)
    BY <1>2, <1>5, <1>9, <1>12, <2>1 DEF Seen, View, e, d
  <2>3. QED BY <2>2 DEF Same, FileWord, DiskWord, d
<1>13. QED BY <1>10, <1>11, <1>12 DEF t, e

\* What the inode on disk knows of a file whose holes a read has filled.
LEMMA DiskFilled ==
    ASSUME NEW h, NEW g, NEW O, Owned(h, O), Owned(g, O), Filled(h, g, O),
           NEW d, \A k \in 0 .. NDIRECT + 1 : d.addrs[k] \in {0, h.ino.addrs[k]},
           NEW o \in Within, WordAt(h.content, d, o) = W(h, o)
    PROVE  WordAt(g.content, d, o) = WordAt(h.content, d, o)
<1> DEFINE p == DataPlace(o \div BSIZE)  k == o % BSIZE  a == p[1]
<1>1. p \in Place /\ a \in 0 .. NDIRECT + 1
  BY WordPlace, DataPlaceTyped DEF Within, Place
<1>2. \A c, v : WordAt(c, v, o) = At(c, Ptr(c, v, p), k)
  BY DEF WordAt
<1> HIDE DEF p, k
<1>3. CASE d.addrs[a] = 0
  <2>1. \A c : Ptr(c, d, p) = 0
    BY <1>3 DEF Ptr, At
  <2>2. QED BY <1>2, <2>1 DEF At
<1>4. CASE d.addrs[a] # 0
  <2> DEFINE q == <<a, Here, Here>>
  <2>1. d.addrs[a] = h.ino.addrs[a]
    BY <1>1, <1>4
  <2>2. q \in Place /\ P(h, q) = h.ino.addrs[a] /\ P(g, q) = g.ino.addrs[a]
    BY <1>1, PlaceIs, PtrIs1 DEF P
  <2> HIDE DEF q
  <2>3. g.ino.addrs[a] = d.addrs[a]
    BY <1>4, <2>1, <2>2 DEF Filled, Grew
  <2> HIDE DEF a
  <2>4. Ptr(g.content, d, p) = Ptr(g.content, g.ino, p)
    BY <2>3 DEF Ptr, a
  <2>5. WordAt(g.content, d, o) = W(g, o)
    BY <1>2, <2>4 DEF W
  <2>6. QED BY <2>5, FilledWords
<1>5. QED BY <1>3, <1>4

\* A read changes no file.
LEMMA readiSame ==
    ASSUME NEW s, Sound(s), NEW i \in File, InUse(s, i), DataOK(s, i), NEW off \in Nat, NEW n \in Nat
    PROVE  SameFiles(s, Changed(s, i, readi(Pointer(s, i), off, n).at))
<1> DEFINE h == Pointer(s, i)  g == readi(h, off, n).at  O == Others(s, i)  d == s.dinode[i]
           e == Holding(s, i, g.ino)  t == Changed(s, i, g)
<1>1. /\ Good(s) /\ s \in FsState /\ s.panic = FALSE /\ BlocksInv(s) /\ i \in Inum /\ TableOK(s, i)
      /\ s.mem[i].valid = TRUE
  BY GoodIs, Inodes, StateIs DEF Sound, InUse
<1>2. /\ Owned(h, O) /\ h.panic = FALSE /\ h.ino = s.mem[i].ino /\ h.content = s.content /\ View(s, i) = h.ino
  BY <1>1, PointerOwned
<1> HIDE DEF h
<1>3. Owned(g, O) /\ Filled(h, g, O) /\ Grew(h, g, O)
  BY <1>2, readiFacts
<1> HIDE DEF g, t
<1>4. g \in Handle /\ g.panic = FALSE
  BY <1>2, <1>3 DEF Owned, Grew
<1>5. Fits(s, i, g.used, g.content, d, e)
  BY <1>1, <1>3, ReadFits DEF h
<1>6. t = Put(s, i, g.used, g.content, d, e)
  <2>1. e = [ref |-> s.mem[i].ref, valid |-> s.mem[i].valid, ino |-> g.ino]
    BY <1>1 DEF Holding
  <2> HIDE DEF e
  <2>2. Changed(s, i, g) = Put(s, i, g.used, g.content, d, e)
    BY <1>1, <1>4, <2>1, ChangedIs
  <2>3. QED BY <2>2 DEF t, g, h
<1>7. Became(t, s, i, g.used, g.content, d, e) /\ SameBut(s, t, i)
  BY <1>1, <1>5, <1>6, PutIs, PutSame DEF Fits
<1>8. t.content = g.content /\ t.dinode[i] = d /\ View(t, i) = g.ino
  BY <1>7 DEF Became, Seen, Holding
<1>9. \A k \in 0 .. NDIRECT + 1 : d.addrs[k] \in {0, h.ino.addrs[k]}
  BY <1>1, <1>2 DEF TableOK
<1>10. d.type # 0
  <2>1. SameButAddrs(View(s, i), d)
    BY <1>1, ViewIs
  <2>2. QED BY <1>2, <2>1 DEF SameButAddrs, InUse
<1>11. ASSUME NEW o \in Within
       PROVE  FileWord(t, i, o) = FileWord(s, i, o) /\ DiskWord(t, i, o) = DiskWord(s, i, o)
  <2>1. FileWord(s, i, o) = W(h, o) /\ FileWord(t, i, o) = W(g, o)
    BY <1>2, <1>8 DEF FileWord, W
  <2>2. W(g, o) = W(h, o)
    BY <1>2, <1>3, FilledWords
  <2>3. DiskWord(s, i, o) = WordAt(h.content, d, o) /\ DiskWord(t, i, o) = WordAt(g.content, d, o)
    BY <1>2, <1>8 DEF DiskWord
  <2>4. WordAt(h.content, d, o) = W(h, o)
    BY <1>10, <2>1, <2>3 DEF DataOK
  <2> HIDE DEF d, O
  <2>5. WordAt(g.content, d, o) = WordAt(h.content, d, o)
    BY <1>2, <1>3, <1>9, <2>4, DiskFilled
  <2>6. QED BY <2>1, <2>2, <2>3, <2>5
<1>12. Same(s, t, i)
  BY <1>2, <1>3, <1>8, <1>11 DEF Same, Grew, SameButAddrs
<1>13. SameFiles(s, t)
  BY <1>7, <1>12, SameAll
<1>14. QED BY <1>13 DEF t, g, h

\* From s to t the first n of the words ws were stored in inode i at off.
Stored(s, t, i, off, ws, n) ==
    /\ n \in 0 .. Len(ws) /\ t.dinode[i].type = View(s, i).type /\ View(t, i) = t.dinode[i]
    /\ View(t, i).size = IF off + n > View(s, i).size THEN off + n ELSE View(s, i).size
    /\ \A o \in Within : FileWord(t, i, o) = IF off <= o /\ o < off + n THEN ws[o - off + 1]
                                             ELSE FileWord(s, i, o)

LEMMA writeiStores ==
    ASSUME NEW s, Good(s), NEW i \in Inum, InUse(s, i), NEW off \in Nat, NEW ws, Len(ws) \in Nat,
           \A k \in 1 .. Len(ws) : ws[k] \in Cell, off + Len(ws) <= MAXFILE * BSIZE
    PROVE  LET w == writei(s, i, off, ws) IN SameBut(s, w.st, i) /\ Stored(s, w.st, i, off, ws, w.n)
<1> DEFINE h == Pointer(s, i)  O == Others(s, i)  d == WriteLoop(h, off, ws)
           g == [d.at EXCEPT !.ino = Grown(@, d.off)]  w == writei(s, i, off, ws)
           e == Holding(s, i, g.ino)
<1>1. s \in FsState /\ s.panic = FALSE /\ BlocksInv(s)
  BY GoodIs
<1>2. Owned(h, O) /\ h.content = s.content /\ h.ino = s.mem[i].ino /\ View(s, i) = h.ino
  BY <1>1, PointerOwned
<1>3. Wrote(s, i, d, g, w) /\ w.n = d.off - off
  BY writeiIs
<1> HIDE DEF h
<1>4. Owned(d.at, O) /\ d.off \in off .. off + Len(ws) /\ WrittenOver(h, d, off, ws)
  BY <1>2, WriteLoopFacts
<1> HIDE DEF d
<1> HIDE DEF g, w
<1>5. /\ Owned(g, O) /\ g.content = d.at.content /\ SameButAddrs(d.at.ino, s.mem[i].ino)
      /\ \A p : P(g, p) = P(d.at, p)
      /\ g.ino = [d.at.ino EXCEPT !.size = IF d.off > d.at.ino.size THEN d.off ELSE d.at.ino.size]
      /\ w.st = Put(s, i, g.used, g.content, g.ino, e) /\ Fits(s, i, g.used, g.content, g.ino, e)
  BY <1>3 DEF Wrote
<1> DEFINE t == w.st
<1>6. Became(t, s, i, g.used, g.content, g.ino, e) /\ SameBut(s, t, i)
  BY <1>1, <1>5, PutIs, PutSame DEF Fits
<1> HIDE DEF t
<1>7. t.content = g.content /\ t.dinode[i] = g.ino /\ View(t, i) = g.ino
  BY <1>6 DEF Became, Seen, Holding
<1>8. /\ g.ino.type = h.ino.type
      /\ g.ino.size = IF d.off > h.ino.size THEN d.off ELSE h.ino.size
  <2> DEFINE x == d.at.ino  n == IF d.off > x.size THEN d.off ELSE x.size  y == g.ino
  <2>1. x \in InodeType /\ y = [x EXCEPT !.size = n] /\ x.size = h.ino.size /\ x.type = h.ino.type
    BY <1>2, <1>4, <1>5 DEF Owned, Handle, SameButAddrs
  <2>2. n = IF d.off > h.ino.size THEN d.off ELSE h.ino.size
    BY <2>1
  <2> HIDE DEF x, n, y
  <2>3. y.size = n /\ y.type = x.type
    BY <2>1, InodeTypeIs
  <2>4. QED BY <2>1, <2>2, <2>3 DEF y
<1>9. \A o \in Within : FileWord(t, i, o) = IF off <= o /\ o < d.off THEN ws[o - off + 1] ELSE FileWord(s, i, o)
  <2>1. \A o : FileWord(s, i, o) = W(h, o) /\ FileWord(t, i, o) = W(g, o)
    BY <1>2, <1>7 DEF FileWord, W
  <2>2. \A o : W(g, o) = W(d.at, o)
    BY <1>5 DEF W, WordAt, P
  <2>3. QED BY <1>4, <2>1, <2>2 DEF WrittenOver
<1>10. off + w.n = d.off /\ w.n \in 0 .. Len(ws)
  BY <1>3, <1>4
<1>11. Stored(s, t, i, off, ws, w.n)
  BY <1>2, <1>7, <1>8, <1>9, <1>10 DEF Stored
<1>12. QED BY <1>6, <1>11 DEF t, w

\* What a write refuses or stores leaves the end of the file zero.
LEMMA StoredData ==
    ASSUME NEW s, Sound(s), NEW i \in File, InUse(s, i), DataOK(s, i), NEW t, NEW off \in Nat, NEW ws, Len(ws) \in Nat,
           NEW n, Stored(s, t, i, off, ws, n)
    PROVE  DataOK(t, i)
<1>1. s \in FsState /\ i \in Inum /\ TableOK(s, i)
  BY GoodIs, Inodes DEF Sound
<1>2. View(s, i) \in InodeType /\ View(s, i).type # 0 /\ SameButAddrs(View(s, i), s.dinode[i])
  BY <1>1, StateIs, ViewIs DEF InUse, View
<1>3. View(s, i).size \in Nat /\ t.dinode[i].type # 0 /\ s.dinode[i].type # 0
  BY <1>2, InodeTypeIs, Sizes DEF Stored, SameButAddrs, FileSize
<1>4. ASSUME NEW o \in Within, o >= View(t, i).size PROVE FileWord(t, i, o) = 0
  <2>1. o \in Nat /\ n \in Nat /\ o >= off + n /\ o >= View(s, i).size
    BY <1>3, <1>4 DEF Stored, Within
  <2>2. FileWord(t, i, o) = FileWord(s, i, o)
    BY <2>1 DEF Stored
  <2>3. QED BY <1>3, <2>1, <2>2 DEF DataOK
<1>5. \A o : DiskWord(t, i, o) = FileWord(t, i, o)
  BY DEF Stored, DiskWord, FileWord
<1>6. QED BY <1>3, <1>4, <1>5 DEF DataOK

\* A file without contents.
Empty(s, i) ==
    /\ View(s, i) = s.dinode[i] /\ View(s, i).size = 0
    /\ \A o \in Within : FileWord(s, i, o) = 0

LEMMA EmptyData == ASSUME NEW s, NEW i, Empty(s, i) PROVE DataOK(s, i)
BY DEF Empty, DataOK, FileWord, DiskWord

LEMMA NoWords ==
    ASSUME NEW c, NEW v, \A p \in Place : Ptr(c, v, p) = 0, NEW o \in Within
    PROVE  WordAt(c, v, o) = 0
<1>1. DataPlace(o \div BSIZE) \in Place
  BY WordPlace, DataPlaceTyped DEF Within
<1>2. QED BY <1>1 DEF WordAt, At

\* Truncation leaves nothing.
LEMMA itruncEmpties ==
    ASSUME NEW s, Sound(s), NEW i \in File, InUse(s, i), s.mem[i].ino.addrs[NDIRECT + 1] = 0
    PROVE  SameBut(s, itrunc(s, i), i) /\ Empty(itrunc(s, i), i)
<1> DEFINE ino == s.mem[i].ino  x == Truncated(ino)  u == s.used \ BlocksOf(s.content, ino)
           e == Holding(s, i, x)  t == Put(s, i, u, s.content, x, e)
<1>1. s \in FsState /\ s.panic = FALSE /\ BlocksInv(s) /\ i \in Inum
  BY GoodIs, Inodes DEF Sound
<1>2. itrunc(s, i) = t
  BY <1>1, itruncIs, Zenon DEF Holding, InUse
<1>3. ino \in InodeType /\ s.used \in SUBSET Block /\ s.content \in BlockWords /\ s.mem[i].ref > 0
  BY <1>1, StateIs DEF InUse
<1>4. x \in InodeType /\ x.size = 0 /\ \A p \in Place : Ptr(s.content, x, p) = 0
  BY <1>3, TruncatedIs
<1> HIDE DEF ino, x
<1>5. u \in SUBSET Block /\ IsHolding(e, s.mem[i].ref, x)
  BY <1>1, <1>3, <1>4, HoldingIs
<1> HIDE DEF u, e, t
<1>6. Became(t, s, i, u, s.content, x, e)
  BY <1>1, <1>3, <1>4, <1>5, PutIs DEF Typed, IsHolding, t
<1>7. SameBut(s, t, i) /\ t.content = s.content /\ t.dinode[i] = x /\ View(t, i) = x
  BY <1>1, <1>5, <1>6, ContentSame DEF Became, Seen, IsHolding
<1>8. \A o \in Within : FileWord(t, i, o) = 0
  BY <1>4, <1>7, NoWords DEF FileWord
<1>9. QED BY <1>2, <1>4, <1>7, <1>8 DEF Empty

LEMMA RelinkedSame ==
    ASSUME NEW s, Good(s), NEW i \in File, InUse(s, i), DataOK(s, i), NEW n \in 0 .. 1
    PROVE  SameFiles(s, Relinked(s, i, n))
<1> DEFINE t == Relinked(s, i, n)  v == s.mem[i].ino  x == t.mem[i].ino
<1>1. s \in FsState /\ i \in Inum /\ TableOK(s, i) /\ View(s, i) = v
  BY GoodIs, Inodes DEF InUse, View
<1>2. LinkSet(s, t, i, n)
  BY RelinkedIs
<1> HIDE DEF t, v
<1>3. SameBut(s, t, i) /\ t.content = s.content
  BY <1>1, <1>2, ContentSame DEF LinkSet
<1>4. x.type = v.type /\ x.size = v.size /\ x.addrs = v.addrs /\ t.dinode[i] = x /\ View(t, i) = x
  BY <1>2 DEF LinkSet, View, v
<1> HIDE DEF x
<1>5. SameButAddrs(v, s.dinode[i]) /\ v.type # 0
  BY <1>1, ViewIs DEF InUse, v
<1>6. \A o : WordAt(s.content, x, o) = WordAt(s.content, v, o)
  BY <1>4, AddrsOnly
<1>7. \A o : FileWord(t, i, o) = FileWord(s, i, o) /\ DiskWord(t, i, o) = FileWord(s, i, o)
  BY <1>1, <1>3, <1>4, <1>6 DEF FileWord, DiskWord
<1>8. Same(s, t, i)
  BY <1>1, <1>4, <1>5, <1>7 DEF Same, SameButAddrs, DataOK
<1>9. QED BY <1>3, <1>8, SameAll DEF t

LEMMA FreshEmpty ==
    ASSUME NEW s, Sound(s), NEW i \in Inum, s.dinode[i].type = 0
    PROVE  SameBut(s, Fresh(s, i), i) /\ Empty(Fresh(s, i), i)
<1> DEFINE t == Fresh(s, i)
<1>1. Created(s, t, i)
  BY FreshIs
<1> HIDE DEF t
<1>2. SameBut(s, t, i) /\ t.content = s.content
  BY <1>1, ContentSame DEF Created
<1>3. View(t, i) = t.dinode[i] /\ View(t, i).size = 0 /\ View(t, i).addrs = NoAddrs
  BY <1>1 DEF Created, View
<1>4. \A p \in Place : Ptr(t.content, View(t, i), p) = 0
  BY <1>3 DEF Ptr, At, NoAddrs, Place
<1>5. \A o \in Within : FileWord(t, i, o) = 0
  BY <1>4, NoWords DEF FileWord
<1>6. QED BY <1>2, <1>3, <1>5 DEF Empty, t

-----------------------------------------------------------------------------
(* The system calls *)

\* What a call does to the blocks, as BlocksKept has it.
LosesNone == DiskInodeCurrent => Lost' \subseteq Lost
StaysCurrent == DiskInodeCurrent => DiskInodeCurrent'

LEMMA StepIs ==
    ASSUME StructInv, NEW t, Sound(t), Become(t), NEW o, opens' = o, OpensOK(t, o)
    PROVE  /\ StructInv'
           /\ NoneLost(Now, t) => LosesNone
           /\ Tidy(Now, t) => LosesNone /\ StaysCurrent
<1>1. t \in FsState /\ t.panic = FALSE
  BY GoodIs DEF Sound
<1>2. used' = t.used /\ content' = t.content /\ dinode' = t.dinode /\ mem' = t.mem /\ panicked' = panicked
  BY <1>1 DEF Become
<1>3. panicked = FALSE
  BY WholeIs
<1>4. Now' = t
  <2>1. Now' = [used |-> t.used, content |-> t.content, dinode |-> t.dinode, mem |-> t.mem, panic |-> FALSE]
    BY <1>2 DEF Now
  <2>2. QED BY <1>1, <2>1 DEF FsState
<1>5. Whole(t, o)
  BY DEF Whole, Sound
<1>6. StructInv'
  BY <1>2, <1>3, <1>4, <1>5, WholeNextIs
<1>7. Lost = Gone(Now) /\ (DiskInodeCurrent <=> Current(Now))
  BY LostIs
<1>8. Lost' = Gone(t) /\ (DiskInodeCurrent' <=> Current(t))
  <2>1. (Lost = Gone(Now) /\ (DiskInodeCurrent <=> Current(Now)))'
    BY <1>6, LostNext
  <2>2. Lost' = Gone(Now') /\ (DiskInodeCurrent' <=> Current(Now'))
    BY <2>1
  <2>3. QED BY <1>4, <2>2
<1>9. QED BY <1>6, <1>7, <1>8 DEF Tidy, NoneLost, LosesNone, StaysCurrent

\* The open files on the other inodes.
LEMMA OpensKept ==
    ASSUME NEW s, NEW t, NEW o, OpensOK(s, o), NEW i \in Inum, Elsewhere(s, t, i),
           NEW n \in Nat, n <= t.mem[i].ref, n > 0 => t.mem[i].valid
    PROVE  OpensOK(t, [o EXCEPT ![i] = n])
<1>1. \A j \in Inum \ {i} : t.mem[j] = s.mem[j]
  BY DEF Elsewhere
<1>2. QED BY <1>1 DEF OpensOK

LEMMA OpensSame ==
    ASSUME NEW s, NEW t, NEW o, OpensOK(s, o), NEW i \in Inum, Elsewhere(s, t, i),
           s.mem[i].ref \in Nat, t.mem[i].ref \in Nat,
           s.mem[i].ref <= t.mem[i].ref, s.mem[i].valid => t.mem[i].valid
    PROVE  OpensOK(t, o)
<1>1. \A j \in Inum \ {i} : t.mem[j] = s.mem[j]
  BY DEF Elsewhere
<1>2. o[i] \in Nat /\ o[i] <= s.mem[i].ref /\ (o[i] > 0 => s.mem[i].valid)
  BY DEF OpensOK
<1>3. QED BY <1>1, <1>2 DEF OpensOK

LEMMA SoundNow == ASSUME StructInv PROVE Sound(Now) /\ OpensOK(Now, opens) /\ panicked = FALSE
BY WholeIs DEF Whole, Sound

\* Every lookup locks the root first.
LEMMA RootedSound ==
    ASSUME StructInv
    PROVE  /\ Sound(Rooted) /\ OpensOK(Rooted, opens) /\ Names(Rooted) = Names(Now)
           /\ Became(Rooted, Now, ROOTINO, used, content, dinode[ROOTINO], Holding(Now, ROOTINO, View(Now, ROOTINO)))
           /\ \A i \in File : Named(i) <=> i \in Names(Now)
           /\ Tidy(Now, Rooted)
<1>1. Sound(Now) /\ OpensOK(Now, opens) /\ ROOTINO \in Inum
  BY SoundNow, Inodes
<1>2. /\ Now \in FsState /\ Now.dinode[ROOTINO].type = 1 /\ Now.mem[ROOTINO].ref > 0
      /\ Now.used = used /\ Now.content = content /\ Now.dinode = dinode /\ Now.mem = mem
  BY <1>1 DEF Sound, Good, Now
<1>3. /\ Sound(Rooted) /\ Names(Rooted) = Names(Now) /\ Tidy(Now, Rooted)
      /\ Became(Rooted, Now, ROOTINO, Now.used, Now.content, Now.dinode[ROOTINO],
                Holding(Now, ROOTINO, View(Now, ROOTINO)))
  BY <1>1, <1>2, ilockSound DEF Rooted, Holding
<1>4. OpensOK(Rooted, opens)
  <2> DEFINE e == Holding(Now, ROOTINO, View(Now, ROOTINO))
  <2>1. e.ref = Now.mem[ROOTINO].ref /\ e.valid = TRUE /\ Now.mem[ROOTINO].ref \in Nat
    BY <1>1, <1>2, StateIs DEF Holding
  <2> HIDE DEF e
  <2>2. Rooted.mem[ROOTINO] = e /\ Elsewhere(Now, Rooted, ROOTINO)
    BY <1>3 DEF Became, e
  <2>3. QED BY <1>1, <2>1, <2>2, OpensSame
<1>5. \A i \in File : Named(i) <=> i \in Names(Now)
  BY <1>2, NamedIs
<1>6. QED BY <1>2, <1>3, <1>4, <1>5, <1>1

LEMMA ElsewhereTwice ==
    ASSUME NEW s, NEW t, NEW r, NEW i, Elsewhere(s, t, i), Elsewhere(t, r, i)
    PROVE  Elsewhere(s, r, i)
BY DEF Elsewhere

\* A name leads to an allocated inode.
LEMMA NamedLive ==
    ASSUME NEW s, Sound(s), NEW i \in Names(s)
    PROVE  i \in File /\ i \in Inum /\ s.dinode[i].type # 0 /\ View(s, i).type # 0 /\ s.mem[i].ref \in Nat
<1>1. i \in File /\ i \in Inum /\ s \in FsState /\ TableOK(s, i) /\ LinkOK(s, i)
  BY GoodIs, Inodes DEF Names, Sound
<1>2. s.dinode[i].type # 0
  BY <1>1 DEF LinkOK
<1>3. QED BY <1>1, <1>2, ViewIs, StateIs DEF SameButAddrs

\* open() and unlink() find the name, take a reference and lock the inode.
LEMMA FoundSound ==
    ASSUME StructInv, NEW i \in File, Named(i)
    PROVE  LET s == ilock(iget(Rooted, i), i)
           IN  /\ Sound(s) /\ Names(s) = Names(Now) /\ Elsewhere(Rooted, s, i) /\ InUse(s, i)
               /\ s.mem[i].ref = Rooted.mem[i].ref + 1 /\ Rooted.mem[i].ref \in Nat
               /\ s.mem[i].ino = View(Now, i) /\ s.mem[i].valid = TRUE /\ s.dinode = Rooted.dinode
               /\ s.mem[ROOTINO] = Rooted.mem[ROOTINO] /\ s.used = Rooted.used /\ s.content = Rooted.content
               /\ Tidy(Now, s)
<1> DEFINE r == Rooted  g == iget(r, i)  s == ilock(g, i)
           e == [ref |-> r.mem[i].ref + 1, valid |-> r.mem[i].valid, ino |-> r.mem[i].ino]
           f == [ref |-> g.mem[i].ref, valid |-> TRUE, ino |-> View(g, i)]
<1>1. Sound(r) /\ Names(r) = Names(Now) /\ i \in Names(r) /\ Elsewhere(Now, r, ROOTINO) /\ Tidy(Now, r)
  BY RootedSound DEF Became
<1>2. /\ i \in Inum /\ ROOTINO \in Inum /\ r.dinode[i].type # 0 /\ View(r, i).type # 0
      /\ r.mem[i].ref \in Nat /\ i # ROOTINO /\ r \in FsState
  BY <1>1, NamedLive, Inodes, GoodIs DEF Sound
<1>3. View(r, i) = View(Now, i)
  BY <1>1, <1>2 DEF Elsewhere
<1> HIDE DEF r
<1>4. Sound(g) /\ Names(g) = Names(r) /\ Became(g, r, i, r.used, r.content, r.dinode[i], e) /\ Tidy(r, g)
  BY <1>1, <1>2, igetSound
<1> HIDE DEF g
<1>5. e.ref = r.mem[i].ref + 1 /\ Seen(r.dinode[i], e) = View(r, i)
  BY DEF Seen, View
<1> HIDE DEF e
<1>6. g.mem[i].ref > 0 /\ g.dinode[i] = r.dinode[i] /\ View(g, i) = View(r, i) /\ Elsewhere(r, g, i)
      /\ g.used = r.used /\ g.content = r.content /\ g.mem[i].ref = r.mem[i].ref + 1 /\ g \in FsState
  BY <1>2, <1>4, <1>5 DEF Became
<1>7. Sound(s) /\ Names(s) = Names(g) /\ Became(s, g, i, g.used, g.content, g.dinode[i], f) /\ Tidy(g, s)
  BY <1>2, <1>4, <1>6, ilockSound
<1> HIDE DEF s
<1>8. f.ref = g.mem[i].ref /\ f.valid = TRUE /\ f.ino = View(g, i)
  OBVIOUS
<1> HIDE DEF f
<1>9. /\ s.mem[i].ref = r.mem[i].ref + 1 /\ s.mem[i].valid = TRUE /\ s.mem[i].ino = View(r, i)
      /\ s.dinode[i] = r.dinode[i] /\ s.used = r.used /\ s.content = r.content /\ Elsewhere(g, s, i) /\ s \in FsState
  BY <1>6, <1>7, <1>8 DEF Became
<1>10. Elsewhere(r, s, i)
  BY <1>6, <1>9, ElsewhereTwice
<1>11. s.dinode = r.dinode
  BY <1>2, <1>9, <1>10 DEF Elsewhere, FsState
<1>12. s.mem[ROOTINO] = r.mem[ROOTINO]
  BY <1>2, <1>10 DEF Elsewhere
<1>13. InUse(s, i)
  BY <1>2, <1>9 DEF InUse
<1>14. Tidy(Now, s)
  BY <1>1, <1>4, <1>7, TidyTwice
<1>15. QED BY <1>1, <1>2, <1>3, <1>4, <1>7, <1>9, <1>10, <1>11, <1>12, <1>13, <1>14 DEF s, g, r

LEMMA LookUpStep == ASSUME StructInv, NEW i \in File, LookUp(i) PROVE StructInv' /\ LosesNone /\ StaysCurrent
<1> DEFINE r == Rooted  t == iget(r, i)
           e == [ref |-> r.mem[i].ref + 1, valid |-> r.mem[i].valid, ino |-> r.mem[i].ino]
<1>1. Sound(r) /\ OpensOK(r, opens) /\ i \in Names(r) /\ Tidy(Now, r)
  BY RootedSound DEF LookUp
<1>2. i \in Inum /\ r.dinode[i].type # 0 /\ r.mem[i].ref \in Nat
  BY <1>1, NamedLive
<1> HIDE DEF r
<1>3. Sound(t) /\ Became(t, r, i, r.used, r.content, r.dinode[i], e) /\ Tidy(r, t)
  BY <1>1, <1>2, igetSound
<1> HIDE DEF t
<1>4. e.ref = r.mem[i].ref + 1 /\ e.valid = r.mem[i].valid
  OBVIOUS
<1> HIDE DEF e
<1>5. OpensOK(t, opens)
  BY <1>1, <1>2, <1>3, <1>4, OpensSame DEF Became
<1>6. Become(t) /\ opens' = opens
  BY DEF LookUp, t, r
<1>7. Tidy(Now, t)
  BY <1>1, <1>3, TidyTwice
<1>8. QED BY <1>3, <1>5, <1>6, <1>7, StepIs

LEMMA OpenStep == ASSUME StructInv, NEW i \in File, Open(i) PROVE StructInv' /\ LosesNone /\ StaysCurrent
<1> DEFINE r == Rooted  t == ilock(iget(r, i), i)
<1>1. OpensOK(r, opens) /\ i \in Inum
  BY RootedSound, Inodes
<1>2. /\ Sound(t) /\ Elsewhere(r, t, i) /\ t.mem[i].ref = r.mem[i].ref + 1 /\ r.mem[i].ref \in Nat
      /\ t.mem[i].valid /\ Tidy(Now, t)
  BY FoundSound DEF Open
<1>3. Become(t) /\ opens' = [opens EXCEPT ![i] = opens[i] + 1]
  BY DEF Open
<1> HIDE DEF r, t
<1>4. opens[i] + 1 \in Nat /\ opens[i] + 1 <= t.mem[i].ref
  BY <1>1, <1>2 DEF OpensOK
<1>5. OpensOK(t, [opens EXCEPT ![i] = opens[i] + 1])
  BY <1>1, <1>2, <1>4, OpensKept
<1>6. QED BY <1>2, <1>3, <1>5, StepIs

LEMMA TruncSmallStep == ASSUME StructInv, NEW i \in File, TruncSmall(i) PROVE StructInv' /\ LosesNone /\ StaysCurrent
<1> DEFINE r == Rooted  s == ilock(iget(r, i), i)  t == itrunc(s, i)
<1>1. OpensOK(r, opens) /\ i \in Inum
  BY RootedSound, Inodes
<1>2. /\ Sound(s) /\ Elsewhere(r, s, i) /\ s.mem[i].ref = r.mem[i].ref + 1 /\ r.mem[i].ref \in Nat
      /\ InUse(s, i) /\ s.mem[i].ino = View(Now, i) /\ Tidy(Now, s)
  BY FoundSound DEF TruncSmall, OpenTrunc
<1>3. Become(t) /\ opens' = [opens EXCEPT ![i] = opens[i] + 1]
  BY DEF TruncSmall, OpenTrunc
<1>4. View(Now, i).addrs[NDIRECT + 1] = 0
  BY InodeIs DEF TruncSmall
<1> HIDE DEF r, s
<1>5. Kept(s, t, i) /\ Tidy(s, t)
  BY <1>2, <1>4, itruncSound
<1> HIDE DEF t
<1>6. Elsewhere(r, t, i) /\ t.mem[i].ref = s.mem[i].ref /\ t.mem[i].valid /\ Sound(t)
  BY <1>2, <1>5, ElsewhereTwice DEF Kept
<1>7. opens[i] + 1 \in Nat /\ opens[i] + 1 <= t.mem[i].ref
  BY <1>1, <1>2, <1>6 DEF OpensOK
<1>8. OpensOK(t, [opens EXCEPT ![i] = opens[i] + 1])
  BY <1>1, <1>6, <1>7, OpensKept
<1>9. Tidy(Now, t)
  BY <1>2, <1>5, TidyTwice
<1>10. QED BY <1>3, <1>6, <1>8, <1>9, StepIs

LEMMA CloseStep == ASSUME StructInv, NEW i \in File, Close(i) PROVE StructInv' /\ LosesNone /\ StaysCurrent
<1> DEFINE t == iput(Now, i)
<1>1. Sound(Now) /\ OpensOK(Now, opens) /\ i \in Inum /\ Now \in FsState
  BY SoundNow, Inodes, GoodIs DEF Sound
<1>2. opens[i] > 0 /\ Become(t) /\ opens' = [opens EXCEPT ![i] = opens[i] - 1]
  BY DEF Close
<1>3. opens[i] \in Nat /\ opens[i] <= Now.mem[i].ref /\ Now.mem[i].valid /\ Now.mem[i].ref \in Nat
  BY <1>1, <1>2, StateIs DEF OpensOK
<1>0. Now.mem[i].ref > 0
  <2> DEFINE m == Now.mem[i].ref  n == opens[i]
  <2>1. n \in Nat /\ m \in Nat /\ n > 0 /\ n <= m
    BY <1>2, <1>3
  <2> HIDE DEF m, n
  <2>2. m > 0
    BY <2>1
  <2>3. QED BY <2>2 DEF m
<1>4. /\ Sound(t) /\ Elsewhere(Now, t, i) /\ t.mem[i].ref = Now.mem[i].ref - 1
      /\ (t.mem[i].ref > 0 => t.mem[i].valid = Now.mem[i].valid) /\ Tidy(Now, t)
  BY <1>0, <1>1, iputSound
<1> HIDE DEF t
<1>5. OpensOK(t, [opens EXCEPT ![i] = opens[i] - 1])
  <2> DEFINE n == opens[i] - 1
  <2>1. n \in Nat /\ n <= t.mem[i].ref /\ (n > 0 => t.mem[i].valid)
    <3> DEFINE m == Now.mem[i].ref  k == t.mem[i].ref  o == opens[i]  v == t.mem[i].valid
    <3>1. /\ o \in Nat /\ o > 0 /\ o <= m /\ m \in Nat /\ k = m - 1
      BY <1>2, <1>3, <1>4
    <3>2. k > 0 => v
      BY <1>3, <1>4
    <3> HIDE DEF m, k, o, v
    <3>3. o - 1 \in Nat /\ o - 1 <= k /\ (o - 1 > 0 => k > 0)
      BY <3>1
    <3>4. QED BY <3>2, <3>3 DEF k, o, v
  <2> HIDE DEF n
  <2>2. OpensOK(t, [opens EXCEPT ![i] = n])
    BY <1>1, <1>4, <2>1, OpensKept
  <2>3. QED BY <2>2 DEF n
<1>6. QED BY <1>2, <1>4, <1>5, StepIs

\* read() and write() lock an open file.
LEMMA LockedSound ==
    ASSUME StructInv, NEW i \in File, opens[i] > 0
    PROVE  LET s == ilock(Now, i)
           IN  /\ Sound(s) /\ Elsewhere(Now, s, i) /\ InUse(s, i) /\ s.mem[i].ref = Now.mem[i].ref
               /\ s.mem[i].ref \in Nat /\ Tidy(Now, s)
<1> DEFINE s == ilock(Now, i)  e == [ref |-> Now.mem[i].ref, valid |-> TRUE, ino |-> View(Now, i)]
<1>1. Sound(Now) /\ OpensOK(Now, opens) /\ i \in Inum /\ Now \in FsState /\ TableOK(Now, i) /\ LinkOK(Now, i)
  BY SoundNow, Inodes, GoodIs DEF Sound
<1>0. opens[i] \in Nat /\ opens[i] <= Now.mem[i].ref /\ Now.mem[i].ref \in Nat
  BY <1>1, StateIs DEF OpensOK
<1>2. Now.mem[i].ref > 0 /\ Now.mem[i].ref \in Nat
  <2> DEFINE m == Now.mem[i].ref  n == opens[i]
  <2>1. n \in Nat /\ m \in Nat /\ n > 0 /\ n <= m
    BY <1>0
  <2> HIDE DEF m, n
  <2>2. m > 0
    BY <2>1
  <2>3. QED BY <2>1, <2>2 DEF m
<1>3. Now.dinode[i].type # 0
  BY <1>1, <1>2 DEF LinkOK
<1>4. View(Now, i).type # 0
  BY <1>1, <1>3, ViewIs DEF SameButAddrs
<1>5. Sound(s) /\ Became(s, Now, i, Now.used, Now.content, Now.dinode[i], e) /\ Tidy(Now, s)
  BY <1>1, <1>2, <1>3, ilockSound
<1>6. e.ref = Now.mem[i].ref /\ e.valid = TRUE /\ e.ino = View(Now, i)
  OBVIOUS
<1> HIDE DEF s, e
<1>7. QED BY <1>2, <1>4, <1>5, <1>6 DEF Became, InUse, s

LEMMA KeptStep ==
    ASSUME StructInv, NEW i \in File, opens[i] > 0, NEW t, Kept(ilock(Now, i), t, i), Become(t), opens' = opens
    PROVE  /\ StructInv'
           /\ NoneLost(ilock(Now, i), t) => LosesNone
           /\ Tidy(ilock(Now, i), t) => LosesNone /\ StaysCurrent
<1> DEFINE s == ilock(Now, i)
<1>1. Elsewhere(Now, s, i) /\ s.mem[i].ref = Now.mem[i].ref /\ s.mem[i].ref \in Nat /\ Tidy(Now, s)
  BY LockedSound
<1> HIDE DEF s
<1>2. Sound(t) /\ Elsewhere(Now, t, i) /\ t.mem[i].ref = Now.mem[i].ref /\ t.mem[i].valid
  BY <1>1, ElsewhereTwice DEF Kept, s
<1>3. OpensOK(t, opens)
  <2>1. OpensOK(Now, opens) /\ i \in Inum
    BY SoundNow, Inodes
  <2>2. QED BY <1>1, <1>2, <2>1, OpensSame
<1>4. (NoneLost(s, t) => NoneLost(Now, t)) /\ (Tidy(s, t) => Tidy(Now, t))
  BY <1>1, TidyTwice
<1>5. QED BY <1>2, <1>3, <1>4, StepIs DEF s

LEMMA ReadStep ==
    ASSUME StructInv, NEW i \in File, NEW off \in ReadOffset, NEW n \in Length, Read(i, off, n)
    PROVE  StructInv' /\ LosesNone
<1> DEFINE s == ilock(Now, i)  t == Changed(s, i, readi(Pointer(s, i), off, n).at)
<1>1. off \in Nat /\ n \in Nat
  BY InodeAssumption DEF Length
<1>2. opens[i] > 0 /\ Become(t) /\ opens' = opens
  BY DEF Read
<1>3. Sound(s) /\ InUse(s, i)
  BY <1>2, LockedSound
<1> HIDE DEF s
<1>4. Kept(s, t, i) /\ NoneLost(s, t)
  BY <1>1, <1>3, readiSound
<1> HIDE DEF t
<1>5. QED BY <1>2, <1>4, KeptStep DEF s

LEMMA WordsAre == ASSUME NEW ws \in Words PROVE Len(ws) \in Nat /\ \A k \in 1 .. Len(ws) : ws[k] \in Cell
<1>1. PICK n \in Length : ws \in [1 .. n -> Word]
  BY DEF Words
<1>2. n \in Nat
  BY <1>1, InodeAssumption DEF Length
<1>3. ws \in Seq(Word) /\ Len(ws) = n
  BY <1>1, <1>2
<1>4. QED BY <1>1, <1>2, <1>3 DEF Cell

LEMMA WriteStep ==
    ASSUME StructInv, NEW i \in File, NEW off \in Offset, NEW ws \in Words, Write(i, off, ws)
    PROVE  StructInv' /\ LosesNone /\ StaysCurrent
<1> DEFINE s == ilock(Now, i)  t == writei(s, i, off, ws).st
<1>1. off \in Nat /\ Len(ws) \in Nat /\ \A k \in 1 .. Len(ws) : ws[k] \in Cell
  BY InodeAssumption, WordsAre
<1>2. opens[i] > 0 /\ Become(t) /\ opens' = opens
  BY DEF Write
<1>3. Sound(s) /\ InUse(s, i)
  BY <1>2, LockedSound
<1> HIDE DEF s
<1>4. Kept(s, t, i) /\ Tidy(s, t)
  BY <1>1, <1>3, writeiSound
<1> HIDE DEF t
<1>5. QED BY <1>2, <1>4, KeptStep DEF s

LEMMA UnlinkStep == ASSUME StructInv, NEW i \in File, Unlink(i) PROVE StructInv' /\ LosesNone /\ StaysCurrent
<1> DEFINE r == Rooted  s == ilock(iget(r, i), i)
           w == writei(s, ROOTINO, dirlookup(s, i), <<0>>)
           n == w.st.mem[i].ino.nlink
           f == Relinked(w.st, i, n - 1)
           bad == s.mem[i].ino.nlink < 1 \/ w.n # 1
           b == [f EXCEPT !.panic = @ \/ bad]
           t == iput(b, i)
<1>1. /\ Sound(s) /\ Names(s) = Names(Now) /\ Elsewhere(r, s, i) /\ InUse(s, i)
      /\ s.mem[i].ref = r.mem[i].ref + 1 /\ r.mem[i].ref \in Nat /\ s.mem[ROOTINO] = r.mem[ROOTINO]
      /\ Tidy(Now, s)
  BY FoundSound DEF Unlink
<1>2. Become(t) /\ opens' = opens
  BY DEF Unlink, Relinked
<1>3. i \in Names(s) /\ OpensOK(r, opens) /\ i \in Inum /\ ROOTINO \in Inum /\ i # ROOTINO
  BY <1>1, RootedSound, Inodes DEF Unlink
<1>4. RootOpen(s) /\ r.mem[ROOTINO].ref \in Nat
  <2>1. Good(s) /\ r.mem[ROOTINO].valid = TRUE
    BY <1>1, RootedSound DEF Sound, Became, Holding
  <2> HIDE DEF r, s
  <2>2. s.mem[ROOTINO].valid = TRUE
    BY <1>1, <2>1
  <2>3. RootOpen(s) /\ s.mem[ROOTINO].ref \in Nat
    BY <2>1, <2>2, RootLoaded
  <2>4. QED BY <1>1, <2>3
<1> HIDE DEF r, s
<1>5. /\ w.n = 1 /\ s.mem[i].ino.nlink = 1 /\ n = 1
      /\ Sound(f) /\ Elsewhere(s, w.st, ROOTINO) /\ Elsewhere(w.st, f, i)
      /\ w.st.mem[ROOTINO].ref = s.mem[ROOTINO].ref /\ w.st.mem[ROOTINO].valid = TRUE
      /\ f.mem[i].ref = s.mem[i].ref /\ f.mem[i].valid = TRUE /\ Tidy(s, f)
      /\ Names(f) = Names(s) \ {i} /\ Good(w.st) /\ InUse(w.st, i)
  BY <1>1, <1>3, <1>4, RemovedSound
<1> DEFINE q == w.st
<1> HIDE DEF f, q, w
<1>6. b = f
  <2>1. f \in FsState /\ f.panic = FALSE
    BY <1>5, GoodIs DEF Sound
  <2>0. bad = FALSE
    BY <1>5
  <2> HIDE DEF bad
  <2>2. (f.panic \/ bad) = f.panic
    BY <2>0, <2>1
  <2>3. b = [f EXCEPT !.panic = f.panic]
    BY <2>2
  <2> HIDE DEF b
  <2>4. QED BY <2>1, <2>3 DEF FsState
<1> HIDE DEF b
<1>7. f.mem[i].ref > 0
  BY <1>1, <1>5
<1>8. /\ Sound(t) /\ Elsewhere(f, t, i) /\ t.mem[i].ref = f.mem[i].ref - 1
      /\ (t.mem[i].ref > 0 => t.mem[i].valid = f.mem[i].valid) /\ Tidy(f, t)
  BY <1>5, <1>6, <1>7, iputSound
<1> HIDE DEF t
<1>9. Elsewhere(q, t, i) /\ Elsewhere(s, q, ROOTINO) /\ q.mem[ROOTINO].ref = s.mem[ROOTINO].ref
      /\ q.mem[ROOTINO].valid = TRUE
  BY <1>5, <1>8, ElsewhereTwice DEF q
<1>10. t.mem[i].ref = r.mem[i].ref /\ (t.mem[i].ref > 0 => t.mem[i].valid)
  BY <1>1, <1>5, <1>8
<1>11. OpensOK(t, opens)
  <2>1. ASSUME NEW j \in Inum PROVE opens[j] <= t.mem[j].ref /\ (opens[j] > 0 => t.mem[j].valid)
    <3>1. opens[j] \in Nat /\ opens[j] <= r.mem[j].ref /\ (opens[j] > 0 => r.mem[j].valid)
      BY <1>3 DEF OpensOK
    <3>2. CASE j = i
      BY <1>1, <1>10, <3>1, <3>2
    <3>3. CASE j = ROOTINO
      <4>1. t.mem[j] = q.mem[j] /\ q.mem[j].ref = r.mem[j].ref /\ q.mem[j].valid
        BY <1>1, <1>3, <1>9, <3>3 DEF Elsewhere
      <4>2. QED BY <3>1, <4>1
    <3>4. CASE j # i /\ j # ROOTINO
      <4>1. t.mem[j] = q.mem[j] /\ q.mem[j] = s.mem[j] /\ s.mem[j] = r.mem[j]
        BY <1>1, <1>9, <3>4 DEF Elsewhere
      <4>2. QED BY <3>1, <4>1
    <3>5. QED BY <3>2, <3>3, <3>4
  <2>2. QED BY <1>3, <2>1 DEF OpensOK
<1>12. Tidy(Now, t)
  BY <1>1, <1>5, <1>8, TidyTwice
<1>13. QED BY <1>2, <1>8, <1>11, <1>12, StepIs

LEMMA OpenCreateStep == ASSUME StructInv, OpenCreate PROVE StructInv' /\ LosesNone /\ StaysCurrent
<1> DEFINE r == Rooted  a == ialloc(r, 2)  i == a.inum
           t0 == ilock(a.st, i)
           f == iupdate([t0 EXCEPT !.mem[i].ino = [@ EXCEPT !.nlink = 1, !.size = 0]], i)
           w == dirlink(f, i)
           g == iupdate([w.st EXCEPT !.mem[i].ino.nlink = 0], i)
           t == iput(g, i)
<1>1. /\ Sound(r) /\ OpensOK(r, opens) /\ r.mem[ROOTINO].valid = TRUE /\ r.mem[ROOTINO].ref \in Nat
      /\ Tidy(Now, r)
  <2>1. Sound(r) /\ OpensOK(r, opens) /\ r.mem[ROOTINO].valid = TRUE /\ Tidy(Now, r)
    BY RootedSound DEF Became, Holding
  <2> HIDE DEF r
  <2>2. QED BY <2>1, RootLoaded DEF Sound
<1>2. \/ i = 0 /\ Become(r) /\ opens' = opens
      \/ i # 0 /\ w.n # 1 /\ Become(t) /\ opens' = opens
      \/ i # 0 /\ w.n = 1 /\ Become(w.st) /\ opens' = [opens EXCEPT ![i] = 1]
  BY DEF OpenCreate
<1>3. CASE i = 0
  <2>1. 0 \notin Inum
    BY Inodes
  <2>2. Become(r) /\ opens' = opens
    BY <1>2, <1>3
  <2>3. QED BY <1>1, <2>2, StepIs
<1>4. CASE i # 0
  <2>1. i \in Inum /\ r.dinode[i].type = 0 /\ a.st = iget([r EXCEPT !.dinode[i] = [FreeInode EXCEPT !.type = 2]], i)
    <3> HIDE DEF r
    <3>1. QED BY <1>4, iallocIs
  <2>2. f = Fresh(r, i)
    BY <2>1 DEF Fresh
  <2> HIDE DEF r, a, i, f
  <2>3. Created(r, f, i)
    BY <1>1, <2>1, <2>2, FreshIs
  <2>4. /\ i \in File /\ i \notin Names(r) /\ r.mem[i].ref = 0 /\ ROOTINO \in Inum \ {i}
        /\ Good(f) /\ Names(f) = Names(r) /\ Elsewhere(r, f, i) /\ f.mem[ROOTINO] = r.mem[ROOTINO]
        /\ f.mem[i].ref = 1 /\ f.mem[i].valid = TRUE
    BY <2>3, Inodes DEF Created, NoEntry, Elsewhere
  <2>5. RootOpen(f) /\ f.mem[ROOTINO].valid = TRUE
    BY <1>1, <2>4, RootLoaded
  <2>6. Linked(f, w, i)
    BY <2>4, <2>5, dirlinkIs
  <2> HIDE DEF w
  <2> DEFINE x == w.st
  <2>7. /\ RootOpen(x) /\ Elsewhere(f, x, ROOTINO) /\ x.mem[ROOTINO].ref = r.mem[ROOTINO].ref
        /\ x.mem[ROOTINO].valid = TRUE /\ Names(x) = IF w.n = 1 THEN Names(r) \cup {i} ELSE Names(r)
        /\ Tidy(f, x)
    BY <2>4, <2>6 DEF Linked
  <2> HIDE DEF x
  <2>0. Tidy(Now, x)
    BY <1>1, <2>3, <2>7, TidyTwice DEF Created
  <2>8. \A j \in File : x.mem[j] = f.mem[j] /\ x.dinode[j] = f.dinode[j]
    BY <2>7, Inodes DEF Elsewhere
  <2>9. \A j \in File \ {i} : LinkOK(x, j)
    <3>1. ASSUME NEW j \in File \ {i} PROVE LinkOK(x, j)
      <4>1. LinkOK(f, j) /\ x.mem[j] = f.mem[j] /\ x.dinode[j] = f.dinode[j] /\ (j \in Names(x) <=> j \in Names(f))
        BY <2>3, <2>4, <2>7, <2>8 DEF Created
      <4>2. QED BY <4>1 DEF LinkOK
    <3>2. QED BY <3>1
  <2>10. /\ x.mem[i].ref = 1 /\ x.mem[i].valid = TRUE /\ x.dinode[i] = x.mem[i].ino
         /\ x.mem[i].ino.type = 2 /\ x.mem[i].ino.nlink = 1
    BY <2>3, <2>8 DEF Created
  <2>11. opens[i] = 0 /\ opens \in [Inum -> Nat]
    <3>1. opens[i] \in Nat /\ opens[i] <= 0 /\ opens \in [Inum -> Nat]
      BY <1>1, <2>1, <2>4 DEF OpensOK
    <3>2. QED BY <3>1
  <2>12. ASSUME NEW n \in 0 .. 1, NEW q, Elsewhere(x, q, i), n <= q.mem[i].ref, n > 0 => q.mem[i].valid
         PROVE  OpensOK(q, [opens EXCEPT ![i] = n])
    <3> DEFINE o == [opens EXCEPT ![i] = n]
    <3>1. o \in [Inum -> Nat] /\ o[i] = n /\ \A j \in Inum \ {i} : o[j] = opens[j]
      BY <2>1, <2>11
    <3> HIDE DEF o
    <3>2. ASSUME NEW j \in Inum PROVE o[j] <= q.mem[j].ref /\ (o[j] > 0 => q.mem[j].valid)
      <4>1. CASE j = i
        BY <2>12, <3>1, <4>1
      <4>2. CASE j = ROOTINO
        <5>1. q.mem[j] = x.mem[j] /\ x.mem[j].ref = r.mem[j].ref /\ x.mem[j].valid /\ o[j] = opens[j]
          BY <2>4, <2>7, <2>12, <3>1, <4>2 DEF Elsewhere
        <5>2. QED BY <1>1, <5>1 DEF OpensOK
      <4>3. CASE j # i /\ j # ROOTINO
        <5>1. q.mem[j] = r.mem[j] /\ o[j] = opens[j]
          BY <2>4, <2>7, <2>12, <3>1, <4>3 DEF Elsewhere
        <5>2. QED BY <1>1, <5>1 DEF OpensOK
      <4>4. QED BY <4>1, <4>2, <4>3
    <3>3. QED BY <3>1, <3>2 DEF OpensOK, o
  <2>13. CASE w.n = 1
    <3>1. i \in Names(x)
      BY <2>7, <2>13
    <3>2. LinkOK(x, i)
      BY <2>10, <3>1 DEF LinkOK
    <3>3. Sound(x)
      BY <2>7, <2>9, <3>2 DEF Sound, RootOpen
    <3>4. OpensOK(x, [opens EXCEPT ![i] = 1])
      <4> DEFINE n == 1
      <4>1. n \in 0 .. 1 /\ Elsewhere(x, x, i) /\ n <= x.mem[i].ref /\ (n > 0 => x.mem[i].valid)
        BY <2>10 DEF Elsewhere
      <4> HIDE DEF n
      <4>2. OpensOK(x, [opens EXCEPT ![i] = n])
        BY <2>12, <4>1
      <4>3. QED BY <4>2 DEF n
    <3>5. Become(x) /\ opens' = [opens EXCEPT ![i] = 1]
      BY <1>2, <1>4, <2>13 DEF x
    <3>6. QED BY <2>0, <3>3, <3>4, <3>5, StepIs
  <2>14. CASE w.n # 1
    <3>1. Names(x) = Names(r) /\ i \notin Names(x)
      BY <2>4, <2>7, <2>14
    <3>2. Good(x) /\ InUse(x, i)
      BY <2>7, <2>10 DEF RootOpen, InUse
    <3> DEFINE zero == 0
    <3>3. g = Relinked(x, i, zero) /\ zero \in 0 .. 1
      BY DEF Relinked, x
    <3> HIDE DEF g, zero
    <3>4. LinkSet(x, g, i, zero)
      BY <2>4, <3>2, <3>3, RelinkedIs
    <3>5. g.dinode[i].type = 2 /\ g.dinode[i].nlink = 0 /\ g.mem[i].valid = TRUE /\ i \notin Names(g)
      BY <2>10, <3>1, <3>4 DEF LinkSet, zero
    <3>6. LinkOK(g, i)
      BY <3>5 DEF LinkOK
    <3>7. Sound(g) /\ g.mem[i].ref = 1 /\ Elsewhere(x, g, i)
      BY <2>9, <2>10, <3>4, <3>6 DEF LinkSet, Sound
    <3>8. g.mem[i].ref > 0
      BY <3>7
    <3>9. Sound(t) /\ Elsewhere(g, t, i) /\ t.mem[i].ref = 0 /\ Tidy(g, t)
      BY <2>4, <3>7, <3>8, iputSound
    <3> HIDE DEF t
    <3>10. Elsewhere(x, t, i)
      BY <3>7, <3>9, ElsewhereTwice
    <3>11. OpensOK(t, [opens EXCEPT ![i] = 0])
      <4>1. zero \in 0 .. 1 /\ zero <= t.mem[i].ref /\ (zero > 0 => t.mem[i].valid)
        BY <3>9 DEF zero
      <4>2. OpensOK(t, [opens EXCEPT ![i] = zero])
        BY <2>12, <3>10, <4>1
      <4>3. QED BY <4>2 DEF zero
    <3>12. [opens EXCEPT ![i] = 0] = opens
      BY <2>1, <2>11
    <3>13. Become(t) /\ opens' = opens
      BY <1>2, <1>4, <2>14
    <3>14. Tidy(Now, t)
      BY <2>0, <3>4, <3>9, TidyTwice DEF LinkSet
    <3>15. QED BY <3>9, <3>11, <3>12, <3>13, <3>14, StepIs
  <2>15. QED BY <2>13, <2>14
<1>5. QED BY <1>3, <1>4

-----------------------------------------------------------------------------
(* The invariant *)

LEMMA InitialRoot ==
    ASSUME Init
    PROVE  /\ Now \in FsState /\ opens \in [Inum -> Nat] /\ panicked = FALSE
           /\ \A i \in Inum : ~mem[i].valid /\ opens[i] = 0 /\ View(Now, i) = dinode[i]
           /\ \A i \in File : mem[i] = NoEntry /\ dinode[i] = FreeInode
           /\ mem[ROOTINO].ref = 1 /\ dinode[ROOTINO].type = 1 /\ dinode[ROOTINO].size = BSIZE
           /\ dinode[ROOTINO].addrs = [NoAddrs EXCEPT ![0] = 1]
           /\ used = {1} /\ content[1] = DotBlock
<1> DEFINE root == [type |-> 1, nlink |-> 1, size |-> BSIZE, addrs |-> [NoAddrs EXCEPT ![0] = 1]]
           held == [NoEntry EXCEPT !.ref = 1]
<1>1. 1 \in Block /\ 0 \in Cell /\ ROOTINO \in Cell /\ ROOTINO \in Inum
  BY Sizes, Inodes DEF Block, Cell
<1>2. ZeroBlock \in [0 .. NINDIRECT - 1 -> Cell] /\ DotBlock \in [0 .. NINDIRECT - 1 -> Cell]
  BY <1>1 DEF ZeroBlock, DotBlock
<1>3. content \in BlockWords /\ content[1] = DotBlock
  BY <1>1, <1>2 DEF Init, BlockWords
<1>4. BSIZE \in FileSize
  <2>1. MAXFILE \in Nat /\ MAXFILE >= 1 /\ BSIZE \in Nat /\ MAXFILE * BSIZE \in Nat
    BY Sizes
  <2>2. MAXFILE * BSIZE >= BSIZE
    <3> DEFINE k == MAXFILE - 1
    <3>1. k \in Nat /\ MAXFILE = k + 1
      BY <2>1
    <3> HIDE DEF k
    <3>2. (k + 1) * BSIZE = k * BSIZE + BSIZE /\ k * BSIZE \in Nat
      BY <2>1, <3>1
    <3>3. QED BY <2>1, <3>1, <3>2
  <2>3. QED BY <2>1, <2>2 DEF FileSize
<1>5. FreeInode \in InodeType /\ NoEntry \in TableEntry
  <2>1. FreeInode \in InodeType
    BY Sizes DEF InodeType, FreeInode, NoAddrs
  <2>2. QED BY <2>1 DEF NoEntry, TableEntry
<1>6. root \in InodeType
  <2>1. [NoAddrs EXCEPT ![0] = 1] \in Addrs
    BY Sizes DEF NoAddrs, Addrs
  <2>2. QED BY <1>4, <2>1, InodeTypeIs
<1>7. held \in TableEntry /\ held.ref = 1 /\ held.valid = FALSE
  BY <1>5 DEF NoEntry, TableEntry
<1>8. /\ dinode = [i \in Inum |-> IF i = ROOTINO THEN root ELSE FreeInode]
      /\ mem = [i \in Inum |-> IF i = ROOTINO THEN held ELSE NoEntry]
      /\ used = {1} /\ opens = [i \in Inum |-> 0] /\ panicked = FALSE
  BY DEF Init
<1>9. root.type = 1 /\ root.size = BSIZE /\ root.addrs = [NoAddrs EXCEPT ![0] = 1]
  OBVIOUS
<1> HIDE DEF root, held
<1>10. /\ dinode \in [Inum -> InodeType] /\ mem \in [Inum -> TableEntry]
       /\ dinode[ROOTINO] = root /\ mem[ROOTINO] = held
       /\ \A i \in File : mem[i] = NoEntry /\ dinode[i] = FreeInode
  BY <1>1, <1>5, <1>6, <1>7, <1>8, Inodes
<1>11. NoEntry.valid = FALSE
  BY DEF NoEntry
<1>12. \A i \in Inum : ~mem[i].valid /\ opens[i] = 0
  BY <1>7, <1>8, <1>10, <1>11, Inodes
<1>13. Now \in FsState /\ \A i \in Inum : View(Now, i) = dinode[i]
  BY <1>1, <1>3, <1>8, <1>10, <1>12 DEF Now, FsState, View
<1>14. QED BY <1>3, <1>7, <1>8, <1>9, <1>10, <1>12, <1>13

LEMMA InitIsSound == Init => StructInv
<1> SUFFICES ASSUME Init PROVE StructInv
  OBVIOUS
<1> DEFINE s == Now  root == dinode[ROOTINO]
<1>1. /\ s \in FsState /\ opens \in [Inum -> Nat] /\ panicked = FALSE
      /\ \A i \in Inum : ~mem[i].valid /\ opens[i] = 0 /\ View(s, i) = dinode[i]
      /\ \A i \in File : mem[i] = NoEntry /\ dinode[i] = FreeInode
      /\ mem[ROOTINO].ref = 1 /\ root.type = 1 /\ root.size = BSIZE
      /\ root.addrs = [NoAddrs EXCEPT ![0] = 1] /\ used = {1} /\ content[1] = DotBlock
  BY InitialRoot
<1>2. s.mem = mem /\ s.dinode = dinode /\ s.used = used /\ s.content = content /\ s.panic = FALSE
  BY DEF Now
<1> HIDE DEF s, root
<1>3. \A i \in Live(s) : i = ROOTINO
  BY <1>1, Inodes DEF Live, FreeInode
<1>4. \A p : V(s, ROOTINO, p) = Ptr(content, root, p)
  BY <1>1, <1>2, Inodes DEF V, root
<1>5. \A k \in 0 .. NDIRECT + 1 : root.addrs[k] = IF k = 0 THEN 1 ELSE 0
  BY <1>1 DEF NoAddrs
<1>6. ASSUME NEW p \in Place, Ptr(content, root, p) # 0
      PROVE  p = <<0, Here, Here>> /\ Ptr(content, root, p) = 1
  <2>1. p[1] \in 0 .. NDIRECT + 1
    BY DEF Place
  <2>2. root.addrs[p[1]] # 0
    BY <1>6 DEF Ptr, At
  <2>3. p[1] = 0
    BY <1>5, <2>1, <2>2
  <2>4. p[2] = Here /\ p[3] = Here
    BY <2>3, Sizes DEF Place
  <2>5. p = <<0, Here, Here>>
    BY <2>3, <2>4 DEF Place
  <2>6. QED BY <1>5, <2>1, <2>3, <2>5, PtrIs1
<1>7. BlocksInv(s)
  BY <1>1, <1>2, <1>3, <1>4, <1>6 DEF BlocksInv
<1>8. \A i \in Inum : TableOK(s, i)
  BY <1>1, <1>2, Inodes DEF TableOK
<1>9. DirSize(s) = BSIZE /\ BSIZE \in Nat \ {0}
  BY <1>1, Inodes, Sizes DEF DirSize, root
<1>10. ASSUME NEW o \in 0 .. BSIZE - 1
       PROVE  V(s, ROOTINO, DataPlace(o \div BSIZE)) # 0 /\ Dent(s, o) \in {0, ROOTINO}
  <2>1. o \div BSIZE = 0 /\ o % BSIZE = o
    BY <1>9
  <2>2. DataPlace(0) = <<0, Here, Here>>
    BY Sizes DEF DataPlace
  <2>3. Ptr(content, root, <<0, Here, Here>>) = 1
    BY <1>5, PtrIs1, Sizes
  <2>4. Dent(s, o) = DotBlock[o]
    BY <1>1, <1>2, <2>1, <2>2, <2>3, Inodes DEF Dent, WordAt, At, root
  <2>5. o \in 0 .. NINDIRECT - 1
    BY Sizes
  <2>6. QED BY <1>4, <2>1, <2>2, <2>3, <2>4, <2>5 DEF DotBlock
<1>11. Names(s) = {}
  BY <1>9, <1>10, Inodes DEF Names
<1>12. DirOK(s)
  BY <1>9, <1>10, Inodes DEF DirOK
<1>13. Good(s)
  BY <1>1, <1>2, <1>7, <1>8, <1>12 DEF Good, root
<1>14. \A i \in File : LinkOK(s, i)
  BY <1>1, <1>2, <1>11 DEF LinkOK, FreeInode, NoEntry
<1>15. OpensOK(s, opens)
  <2>1. \A i \in Inum : s.mem[i].ref \in Nat
    BY <1>1, StateIs
  <2>2. QED BY <1>1, <1>2, <2>1 DEF OpensOK
<1>16. QED BY <1>1, <1>13, <1>14, <1>15, WholeIs DEF Whole, s

LEMMA NextIsSound == StructInv /\ [SmallTruncNext]_vars => StructInv'
<1> SUFFICES ASSUME StructInv, [SmallTruncNext]_vars PROVE StructInv'
  OBVIOUS
<1>1. CASE OpenCreate
  BY <1>1, OpenCreateStep
<1>2. ASSUME NEW i \in File, Open(i) \/ LookUp(i) \/ Close(i) \/ Unlink(i) \/ TruncSmall(i) PROVE StructInv'
  BY <1>2, OpenStep, LookUpStep, CloseStep, UnlinkStep, TruncSmallStep
<1>3. ASSUME NEW i \in File, NEW off \in Offset, NEW ws \in Words, Write(i, off, ws) PROVE StructInv'
  BY <1>3, WriteStep
<1>4. ASSUME NEW i \in File, NEW off \in ReadOffset, NEW n \in Length, Read(i, off, n) PROVE StructInv'
  BY <1>4, ReadStep
<1>5. CASE UNCHANGED vars
  <2>1. Now' = Now /\ opens' = opens /\ panicked' = panicked
    BY <1>5 DEF vars, Now
  <2>2. Whole(Now, opens) /\ panicked' = FALSE
    BY <2>1, WholeIs
  <2>3. QED BY <2>1, <2>2, WholeNextIs
<1>6. QED BY <1>1, <1>2, <1>3, <1>4, <1>5 DEF SmallTruncNext, Basic

-----------------------------------------------------------------------------
(* The file store *)

\* File i of the file store: its status and its contents.
Kind(s, i) == IF s.dinode[i].type = 0 THEN "free" ELSE IF i \in Names(s) THEN "linked" ELSE "unlinked"
Text(s, i) == [k \in 1 .. View(s, i).size |-> FileWord(s, i, k - 1)]

AllData(s) == \A i \in File : DataOK(s, i)

LEMMA DataIs == DataInv <=> AllData(Now)
<1>1. \A i : Inode(i) = View(Now, i)
  BY InodeIs
<1>2. Now.content = content /\ Now.dinode = dinode
  BY DEF Now
<1>3. Within = 0 .. MAXFILE * BSIZE - 1
  BY Sizes DEF Within
<1>4. ASSUME NEW i \in File
      PROVE  DataOK(Now, i) <=>
               /\ dinode[i].type = 0 => dinode[i].size = 0
               /\ dinode[i].type # 0 => \A o \in 0 .. MAXFILE * BSIZE - 1 :
                    /\ o >= Inode(i).size => WordAt(content, Inode(i), o) = 0
                    /\ WordAt(content, dinode[i], o) = WordAt(content, Inode(i), o)
  BY <1>1, <1>2, <1>3, Zenon DEF DataOK, FileWord, DiskWord
<1>5. QED BY <1>4, Zenon DEF DataInv, AllData

LEMMA DataNext == DataInv' <=> AllData(Now)'
BY DataIs, PTL

LEMMA MapIs ==
    StructInv => /\ FileStatus = [i \in File |-> Kind(Now, i)]
                 /\ FileRefs = [i \in File |-> Now.mem[i].ref]
                 /\ FileContents = [i \in File |-> Text(Now, i)]
<1> SUFFICES ASSUME StructInv
             PROVE  /\ FileStatus = [i \in File |-> Kind(Now, i)]
                    /\ FileRefs = [i \in File |-> Now.mem[i].ref]
                    /\ FileContents = [i \in File |-> Text(Now, i)]
  OBVIOUS
<1>1. /\ \A i : Inode(i) = View(Now, i)
      /\ Now.content = content /\ Now.dinode = dinode /\ Now.mem = mem
  BY InodeIs DEF Now
<1>2. \A i \in File : Named(i) <=> i \in Names(Now)
  BY RootedSound
<1>3. \A i \in File : (IF dinode[i].type = 0 THEN "free" ELSE IF Named(i) THEN "linked" ELSE "unlinked") = Kind(Now, i)
  BY <1>1, <1>2 DEF Kind
<1>4. \A i \in File : Contents(i) = Text(Now, i)
  BY <1>1, Zenon DEF Contents, Text, FileWord
<1>5. FileStatus = [i \in File |-> Kind(Now, i)]
  BY <1>3 DEF FileStatus
<1>6. FileRefs = [i \in File |-> Now.mem[i].ref]
  BY <1>1 DEF FileRefs
<1>7. FileContents = [i \in File |-> Text(Now, i)]
  BY <1>4 DEF FileContents
<1>8. QED BY <1>5, <1>6, <1>7

LEMMA MapNext ==
    StructInv' => (/\ FileStatus = [i \in File |-> Kind(Now, i)]
                   /\ FileRefs = [i \in File |-> Now.mem[i].ref]
                   /\ FileContents = [i \in File |-> Text(Now, i)])'
BY MapIs, PTL

\* From s to t a file keeps what the file store says of it.
Unmoved(s, t, i) ==
    Kind(t, i) = Kind(s, i) /\ t.mem[i].ref = s.mem[i].ref /\ Text(t, i) = Text(s, i) /\ DataOK(t, i)

\* Only file i changes, and has kind, ref and text after.
Moved(s, t, i, kind, ref, text) ==
    /\ \A j \in File \ {i} : Unmoved(s, t, j)
    /\ DataOK(t, i) /\ Kind(t, i) = kind /\ t.mem[i].ref = ref /\ Text(t, i) = text

Stays(s, t) == \A i \in File : Unmoved(s, t, i)
Creates(s, t, i) == Kind(s, i) = "free" /\ Moved(s, t, i, "linked", 1, <<>>)
Refers(s, t, i) ==
    /\ Kind(s, i) = "linked"
    /\ \E text \in {Text(s, i), <<>>} : Moved(s, t, i, "linked", s.mem[i].ref + 1, text)
Settles(s, t, i, named, n) ==
    Moved(s, t, i, IF named THEN "linked" ELSE IF n > 0 THEN "unlinked" ELSE "free", n,
          IF ~named /\ n = 0 THEN <<>> ELSE Text(s, i))
Unlinks(s, t, i) == Kind(s, i) = "linked" /\ Settles(s, t, i, FALSE, s.mem[i].ref)
Drops(s, t, i) == s.mem[i].ref > 0 /\ Settles(s, t, i, Kind(s, i) = "linked", s.mem[i].ref - 1)
Writes(s, t, i) ==
    /\ s.mem[i].ref > 0
    /\ \E off \in Offset, ws \in UNION {[1 .. n -> Word] : n \in 0 .. MaxLen} :
         Moved(s, t, i, Kind(s, i), s.mem[i].ref, FS!Written(Text(s, i), off, ws))
Moves(s, t) ==
    \/ Stays(s, t)
    \/ \E i \in File : Creates(s, t, i) \/ Refers(s, t, i) \/ Unlinks(s, t, i) \/ Drops(s, t, i) \/ Writes(s, t, i)

\* The state after a system call.
LEMMA NextState ==
    ASSUME StructInv, NEW t, Sound(t), Become(t)
    PROVE  Now' = t
<1>1. t \in FsState /\ t.panic = FALSE
  BY GoodIs DEF Sound
<1>2. used' = t.used /\ content' = t.content /\ dinode' = t.dinode /\ mem' = t.mem
  BY <1>1 DEF Become
<1>3. Now' = [used |-> t.used, content |-> t.content, dinode |-> t.dinode, mem |-> t.mem, panic |-> FALSE]
  BY <1>2 DEF Now
<1>4. QED BY <1>1, <1>3 DEF FsState

\* The variables of the file store change as Moved says.
LEMMA MovedIs ==
    ASSUME StructInv, StructInv', NEW i \in File, NEW kind, NEW ref, NEW text,
           Moved(Now, Now', i, kind, ref, text)
    PROVE  /\ FileStatus' = [FileStatus EXCEPT ![i] = kind]
           /\ FileRefs' = [FileRefs EXCEPT ![i] = ref]
           /\ FileContents' = [FileContents EXCEPT ![i] = text]
           /\ FileStatus[i] = Kind(Now, i) /\ FileRefs[i] = Now.mem[i].ref /\ FileContents[i] = Text(Now, i)
           /\ AllData(Now')
<1> DEFINE t == Now'
<1>1. /\ FileStatus = [j \in File |-> Kind(Now, j)]
      /\ FileRefs = [j \in File |-> Now.mem[j].ref]
      /\ FileContents = [j \in File |-> Text(Now, j)]
  BY MapIs
<1>2. /\ FileStatus' = [j \in File |-> Kind(t, j)]
      /\ FileRefs' = [j \in File |-> t.mem[j].ref]
      /\ FileContents' = [j \in File |-> Text(t, j)]
  <2>1. (/\ FileStatus = [j \in File |-> Kind(Now, j)]
         /\ FileRefs = [j \in File |-> Now.mem[j].ref]
         /\ FileContents = [j \in File |-> Text(Now, j)])'
    BY MapNext
  <2>2. QED BY <2>1
<1> HIDE DEF t
<1>3. /\ \A j \in File \ {i} : Kind(t, j) = Kind(Now, j) /\ t.mem[j].ref = Now.mem[j].ref /\ Text(t, j) = Text(Now, j)
      /\ Kind(t, i) = kind /\ t.mem[i].ref = ref /\ Text(t, i) = text /\ AllData(t)
  BY DEF Moved, Unmoved, AllData, t
<1>4. FileStatus' = [FileStatus EXCEPT ![i] = kind] /\ FileStatus[i] = Kind(Now, i)
  BY <1>1, <1>2, <1>3
<1>5. FileRefs' = [FileRefs EXCEPT ![i] = ref] /\ FileRefs[i] = Now.mem[i].ref
  BY <1>1, <1>2, <1>3
<1>6. FileContents' = [FileContents EXCEPT ![i] = text] /\ FileContents[i] = Text(Now, i)
  BY <1>1, <1>2, <1>3
<1>7. QED BY <1>3, <1>4, <1>5, <1>6 DEF t

LEMMA StaysIs ==
    ASSUME StructInv, StructInv', Stays(Now, Now')
    PROVE  UNCHANGED <<FileStatus, FileRefs, FileContents>> /\ AllData(Now')
<1> DEFINE t == Now'
<1>1. /\ FileStatus = [j \in File |-> Kind(Now, j)]
      /\ FileRefs = [j \in File |-> Now.mem[j].ref]
      /\ FileContents = [j \in File |-> Text(Now, j)]
  BY MapIs
<1>2. /\ FileStatus' = [j \in File |-> Kind(t, j)]
      /\ FileRefs' = [j \in File |-> t.mem[j].ref]
      /\ FileContents' = [j \in File |-> Text(t, j)]
  <2>1. (/\ FileStatus = [j \in File |-> Kind(Now, j)]
         /\ FileRefs = [j \in File |-> Now.mem[j].ref]
         /\ FileContents = [j \in File |-> Text(Now, j)])'
    BY MapNext
  <2>2. QED BY <2>1
<1> HIDE DEF t
<1>3. \A j \in File : Kind(t, j) = Kind(Now, j) /\ t.mem[j].ref = Now.mem[j].ref /\ Text(t, j) = Text(Now, j)
  BY DEF Stays, Unmoved, t
<1>4. AllData(t)
  BY DEF Stays, Unmoved, AllData, t
<1>5. FileStatus' = FileStatus /\ FileRefs' = FileRefs /\ FileContents' = FileContents
  BY <1>1, <1>2, <1>3
<1>6. QED BY <1>4, <1>5 DEF t

\* What files go through is a step of the file store.
LEMMA MovesAre ==
    ASSUME StructInv, StructInv', Moves(Now, Now')
    PROVE  [FS!Next]_(FS!vars) /\ DataInv'
<1>0. ASSUME AllData(Now') PROVE DataInv'
  <2>1. AllData(Now)'
    BY <1>0
  <2>2. QED BY <2>1, DataNext
<1>1. CASE Stays(Now, Now')
  BY <1>0, <1>1, StaysIs DEF FS!vars
<1>2. ASSUME NEW i \in File, Creates(Now, Now', i) PROVE FS!Next /\ DataInv'
  <2>1. /\ FileStatus' = [FileStatus EXCEPT ![i] = "linked"] /\ FileRefs' = [FileRefs EXCEPT ![i] = 1]
        /\ FileContents' = [FileContents EXCEPT ![i] = <<>>] /\ FileStatus[i] = "free" /\ AllData(Now')
    BY <1>2, MovedIs DEF Creates
  <2>2. FS!Create(i)
    BY <2>1 DEF FS!Create
  <2>3. QED BY <1>0, <2>1, <2>2 DEF FS!Next
<1>3. ASSUME NEW i \in File, Refers(Now, Now', i) PROVE FS!Next /\ DataInv'
  <2>1. PICK text \in {Text(Now, i), <<>>} : Moved(Now, Now', i, "linked", Now.mem[i].ref + 1, text)
    BY <1>3 DEF Refers
  <2>2. /\ FileStatus' = [FileStatus EXCEPT ![i] = "linked"]
        /\ FileRefs' = [FileRefs EXCEPT ![i] = FileRefs[i] + 1]
        /\ FileContents' = [FileContents EXCEPT ![i] = text]
        /\ FileStatus[i] = "linked" /\ FileContents[i] = Text(Now, i) /\ AllData(Now')
    BY <1>3, <2>1, MovedIs DEF Refers
  <2>3. /\ FileStatus = [j \in File |-> Kind(Now, j)]
        /\ FileContents = [j \in File |-> Text(Now, j)]
    BY MapIs
  <2>4. FileStatus' = FileStatus
    BY <2>2, <2>3
  <2>5. FileContents' = FileContents \/ FileContents' = [FileContents EXCEPT ![i] = <<>>]
    BY <2>1, <2>2, <2>3
  <2>6. FS!Refer(i)
    BY <2>2, <2>4, <2>5 DEF FS!Refer
  <2>7. QED BY <1>0, <2>2, <2>6 DEF FS!Next
<1>4. ASSUME NEW i \in File, NEW named \in BOOLEAN, NEW n, Settles(Now, Now', i, named, n)
      PROVE  /\ FS!Settle(i, named, n) /\ DataInv'
             /\ FileStatus[i] = Kind(Now, i) /\ FileRefs[i] = Now.mem[i].ref
  <2> DEFINE kind == IF named THEN "linked" ELSE IF n > 0 THEN "unlinked" ELSE "free"
             text == IF ~named /\ n = 0 THEN <<>> ELSE Text(Now, i)
  <2>1. Moved(Now, Now', i, kind, n, text)
    BY <1>4 DEF Settles
  <2> HIDE DEF kind, text
  <2>2. /\ FileStatus' = [FileStatus EXCEPT ![i] = kind] /\ FileRefs' = [FileRefs EXCEPT ![i] = n]
        /\ FileContents' = [FileContents EXCEPT ![i] = text]
        /\ FileStatus[i] = Kind(Now, i) /\ FileRefs[i] = Now.mem[i].ref
        /\ FileContents[i] = Text(Now, i) /\ AllData(Now')
    BY <2>1, MovedIs
  <2>3. text = IF ~named /\ n = 0 THEN <<>> ELSE FileContents[i]
    BY <2>2 DEF text
  <2>4. FS!Settle(i, named, n)
    BY <2>2, <2>3 DEF FS!Settle, kind
  <2>5. QED BY <1>0, <2>2, <2>4
<1>5. ASSUME NEW i \in File, Unlinks(Now, Now', i) PROVE FS!Next /\ DataInv'
  <2>1. Settles(Now, Now', i, FALSE, Now.mem[i].ref)
    BY <1>5 DEF Unlinks
  <2>2. /\ FS!Settle(i, FALSE, Now.mem[i].ref) /\ DataInv' /\ FileStatus[i] = Kind(Now, i) /\ FileRefs[i] = Now.mem[i].ref
    BY <1>4, <2>1
  <2>3. FS!Unlink(i)
    BY <1>5, <2>2 DEF FS!Unlink, Unlinks
  <2>4. QED BY <2>2, <2>3 DEF FS!Next
<1>6. ASSUME NEW i \in File, Drops(Now, Now', i) PROVE FS!Next /\ DataInv'
  <2> DEFINE named == Kind(Now, i) = "linked"  n == Now.mem[i].ref - 1
  <2>1. Settles(Now, Now', i, named, n) /\ named \in BOOLEAN /\ Now.mem[i].ref > 0
    BY <1>6 DEF Drops
  <2>2. /\ FS!Settle(i, named, n) /\ DataInv' /\ FileStatus[i] = Kind(Now, i) /\ FileRefs[i] = Now.mem[i].ref
    <3> HIDE DEF named, n
    <3>1. QED BY <1>4, <2>1
  <2>3. FS!Drop(i)
    <3>1. FS!Settle(i, FileStatus[i] = "linked", FileRefs[i] - 1)
      BY <2>2, Zenon
    <3>2. QED BY <2>1, <2>2, <3>1 DEF FS!Drop
  <2>4. QED BY <2>2, <2>3 DEF FS!Next
<1>7. ASSUME NEW i \in File, Writes(Now, Now', i) PROVE FS!Next /\ DataInv'
  <2>1. PICK off \in Offset, ws \in UNION {[1 .. n -> Word] : n \in 0 .. MaxLen} :
          Moved(Now, Now', i, Kind(Now, i), Now.mem[i].ref, FS!Written(Text(Now, i), off, ws))
    BY <1>7, Zenon DEF Writes
  <2> DEFINE text == FS!Written(Text(Now, i), off, ws)
  <2>2. /\ FileStatus' = [FileStatus EXCEPT ![i] = Kind(Now, i)]
        /\ FileRefs' = [FileRefs EXCEPT ![i] = Now.mem[i].ref]
        /\ FileContents' = [FileContents EXCEPT ![i] = text]
        /\ FileRefs[i] = Now.mem[i].ref /\ FileContents[i] = Text(Now, i) /\ AllData(Now')
    <3> HIDE DEF text
    <3>1. Moved(Now, Now', i, Kind(Now, i), Now.mem[i].ref, text)
      BY <2>1 DEF text
    <3>2. QED BY <3>1, MovedIs
  <2>3. FileStatus = [j \in File |-> Kind(Now, j)] /\ FileRefs = [j \in File |-> Now.mem[j].ref]
    BY MapIs
  <2>4. FileStatus' = FileStatus /\ FileRefs' = FileRefs
    BY <2>2, <2>3
  <2>5. text = FS!Written(FileContents[i], off, ws)
    BY <2>2
  <2> HIDE DEF text
  <2>6. FileRefs[i] > 0
    BY <1>7, <2>2 DEF Writes
  <2>7. FS!Write(i, off, ws)
    BY <2>2, <2>4, <2>5, <2>6 DEF FS!Write
  <2>8. QED BY <1>0, <2>2, <2>7, Zenon DEF FS!Next
<1>8. QED BY <1>1, <1>2, <1>3, <1>5, <1>6, <1>7, Zenon DEF Moves

LEMMA TextSame ==
    ASSUME NEW s, Sound(s), NEW i \in File, DataOK(s, i), NEW t, Same(s, t, i)
    PROVE  Text(t, i) = Text(s, i)
<1> DEFINE n == View(s, i).size
<1>1. s \in FsState /\ i \in Inum /\ TableOK(s, i)
  BY GoodIs, Inodes DEF Sound
<1>2. View(s, i) \in InodeType /\ s.dinode[i].size = n
  BY <1>1, StateIs, ViewIs DEF SameButAddrs
<1>3. n \in Nat /\ n <= MAXFILE * BSIZE /\ MAXFILE * BSIZE \in Nat
  BY <1>2, InodeTypeIs, Sizes DEF FileSize
<1>4. Text(s, i) = [k \in 1 .. n |-> FileWord(s, i, k - 1)] /\ Text(t, i) = [k \in 1 .. n |-> FileWord(t, i, k - 1)]
  BY DEF Text, Same
<1> HIDE DEF n
<1>5. CASE s.dinode[i].type = 0
  <2>1. 1 .. n = {}
    BY <1>2, <1>5 DEF DataOK
  <2>2. QED BY <1>4, <2>1
<1>6. CASE s.dinode[i].type # 0
  <2>1. \A k \in 1 .. n : k - 1 \in Within
    BY <1>3 DEF Within
  <2>2. \A k \in 1 .. n : FileWord(t, i, k - 1) = FileWord(s, i, k - 1)
    BY <1>6, <2>1 DEF Same
  <2>3. QED BY <1>4, <2>2
<1>7. QED BY <1>5, <1>6

LEMMA NoText == ASSUME NEW s, NEW i, View(s, i).size = 0 PROVE Text(s, i) = <<>>
BY DEF Text

\* The files a call has nothing to do with.
RefsBut(s, t, i) == \A j \in File \ {i} : t.mem[j].ref = s.mem[j].ref
NamesBut(s, t, i) == \A j \in File \ {i} : j \in Names(t) <=> j \in Names(s)

LEMMA UnmovedIs ==
    ASSUME NEW s, Sound(s), NEW j \in File, DataOK(s, j), NEW t, Same(s, t, j),
           t.mem[j].ref = s.mem[j].ref, j \in Names(t) <=> j \in Names(s)
    PROVE  Unmoved(s, t, j)
BY TextSame, SameData DEF Unmoved, Kind, Same

LEMMA RestIs ==
    ASSUME NEW s, Sound(s), AllData(s), NEW t, NEW i, SameBut(s, t, i), RefsBut(s, t, i), NamesBut(s, t, i)
    PROVE  \A j \in File \ {i} : Unmoved(s, t, j)
BY UnmovedIs DEF AllData, SameBut, RefsBut, NamesBut

LEMMA StaysAre ==
    ASSUME NEW s, Sound(s), AllData(s), NEW t, SameFiles(s, t),
           \A j \in File : t.mem[j].ref = s.mem[j].ref, Names(t) = Names(s)
    PROVE  Stays(s, t)
BY UnmovedIs DEF Stays, AllData, SameFiles

LEMMA RootedSame ==
    ASSUME StructInv
    PROVE  /\ SameFiles(Now, Rooted) /\ Names(Rooted) = Names(Now) /\ Sound(Rooted)
           /\ \A j \in File : Rooted.mem[j] = Now.mem[j] /\ Rooted.dinode[j] = Now.dinode[j]
<1> DEFINE e == Holding(Now, ROOTINO, View(Now, ROOTINO))
<1>1. /\ Sound(Rooted) /\ Names(Rooted) = Names(Now)
      /\ Became(Rooted, Now, ROOTINO, used, content, dinode[ROOTINO], e)
  BY RootedSound
<1> HIDE DEF e
<1>2. Now.content = content
  BY DEF Now
<1>3. Elsewhere(Now, Rooted, ROOTINO) /\ Rooted.content = Now.content /\ ROOTINO \in Inum
  BY <1>1, <1>2, Inodes DEF Became
<1>4. SameFiles(Now, Rooted)
  BY <1>3, ContentSame, SameRoot
<1>5. QED BY <1>1, <1>3, <1>4, Inodes DEF Elsewhere

\* The file a name leads to.
LEMMA NamedFile ==
    ASSUME StructInv, NEW i \in File, Named(i)
    PROVE  /\ Kind(Now, i) = "linked" /\ Now.mem[i].ref \in Nat /\ i \in Inum
           /\ Rooted.dinode[i].type # 0 /\ Now.dinode[i].type # 0 /\ i \in Names(Now)
<1>1. Sound(Now) /\ i \in Names(Now)
  BY SoundNow, RootedSound
<1>2. i \in Inum /\ Now.dinode[i].type # 0 /\ Now.mem[i].ref \in Nat
  BY <1>1, NamedLive
<1>3. QED BY <1>1, <1>2, RootedSame DEF Kind

LEMMA FoundSame ==
    ASSUME StructInv, NEW i \in File, Named(i)
    PROVE  LET g == iget(Rooted, i)
               s == ilock(g, i)
           IN  /\ SameFiles(Now, g) /\ RefsBut(Now, g, i) /\ g.mem[i].ref = Now.mem[i].ref + 1
               /\ Sound(g) /\ Names(g) = Names(Now)
               /\ SameFiles(Now, s) /\ RefsBut(Now, s, i) /\ s.mem[i].ref = Now.mem[i].ref + 1
<1> DEFINE r == Rooted  g == iget(r, i)  s == ilock(g, i)
           e == [ref |-> r.mem[i].ref + 1, valid |-> r.mem[i].valid, ino |-> r.mem[i].ino]
<1>1. /\ SameFiles(Now, r) /\ Names(r) = Names(Now) /\ Sound(r)
      /\ \A j \in File : r.mem[j] = Now.mem[j] /\ r.dinode[j] = Now.dinode[j]
  BY RootedSame
<1>2. i \in Inum /\ r.dinode[i].type # 0 /\ Now.mem[i].ref \in Nat
  BY NamedFile
<1>3. Elsewhere(r, s, i) /\ s.mem[i].ref = r.mem[i].ref + 1
  BY FoundSound
<1> HIDE DEF r
<1>4. Sound(g) /\ Names(g) = Names(r) /\ Became(g, r, i, r.used, r.content, r.dinode[i], e) /\ SameFiles(r, g)
  BY <1>1, <1>2, igetSound, igetSame
<1> HIDE DEF g
<1>5. e.ref = r.mem[i].ref + 1
  OBVIOUS
<1> HIDE DEF e
<1>6. g.mem[i].ref = r.mem[i].ref + 1 /\ g.mem[i].ref > 0 /\ g.dinode[i].type # 0 /\ Elsewhere(r, g, i)
  BY <1>1, <1>2, <1>4, <1>5 DEF Became
<1>7. SameFiles(g, s)
  BY <1>2, <1>4, <1>6, ilockSame
<1> HIDE DEF s
<1>8. SameFiles(Now, g) /\ SameFiles(Now, s)
  BY <1>1, <1>4, <1>7, SameButTwice
<1>9. RefsBut(Now, g, i) /\ RefsBut(Now, s, i)
  BY <1>1, <1>3, <1>6, Inodes DEF Elsewhere, RefsBut
<1>10. QED BY <1>1, <1>3, <1>4, <1>6, <1>8, <1>9 DEF s, g, r

LEMMA LookUpMoves == ASSUME StructInv, AllData(Now), NEW i \in File, LookUp(i) PROVE Moves(Now, Now')
<1> DEFINE t == iget(Rooted, i)
<1>1. Named(i) /\ Become(t)
  BY DEF LookUp
<1>2. /\ SameFiles(Now, t) /\ RefsBut(Now, t, i) /\ t.mem[i].ref = Now.mem[i].ref + 1
      /\ Sound(t) /\ Names(t) = Names(Now)
  BY <1>1, FoundSame
<1> HIDE DEF t
<1>3. Sound(Now) /\ Kind(Now, i) = "linked"
  BY <1>1, SoundNow, NamedFile
<1>4. Same(Now, t, i) /\ DataOK(Now, i)
  BY <1>2 DEF SameFiles, AllData
<1>5. Kind(t, i) = "linked" /\ Text(t, i) = Text(Now, i) /\ DataOK(t, i)
  BY <1>2, <1>3, <1>4, TextSame, SameData DEF Kind, Same
<1>6. \A j \in File \ {i} : Unmoved(Now, t, j)
  BY <1>2, <1>3, RestIs DEF SameFiles, SameBut, NamesBut
<1>7. Refers(Now, t, i)
  BY <1>2, <1>3, <1>5, <1>6 DEF Refers, Moved
<1>8. Now' = t
  BY <1>1, <1>2, NextState
<1>9. QED BY <1>7, <1>8 DEF Moves

LEMMA OpenMoves == ASSUME StructInv, AllData(Now), NEW i \in File, Open(i) PROVE Moves(Now, Now')
<1> DEFINE t == ilock(iget(Rooted, i), i)
<1>1. Named(i) /\ Become(t)
  BY DEF Open
<1>2. /\ SameFiles(Now, t) /\ RefsBut(Now, t, i) /\ t.mem[i].ref = Now.mem[i].ref + 1
      /\ Sound(t) /\ Names(t) = Names(Now)
  BY <1>1, FoundSame, FoundSound
<1> HIDE DEF t
<1>3. Sound(Now) /\ Kind(Now, i) = "linked"
  BY <1>1, SoundNow, NamedFile
<1>4. Same(Now, t, i) /\ DataOK(Now, i)
  BY <1>2 DEF SameFiles, AllData
<1>5. Kind(t, i) = "linked" /\ Text(t, i) = Text(Now, i) /\ DataOK(t, i)
  BY <1>2, <1>3, <1>4, TextSame, SameData DEF Kind, Same
<1>6. \A j \in File \ {i} : Unmoved(Now, t, j)
  BY <1>2, <1>3, RestIs DEF SameFiles, SameBut, NamesBut
<1>7. Refers(Now, t, i)
  BY <1>2, <1>3, <1>5, <1>6 DEF Refers, Moved
<1>8. Now' = t
  BY <1>1, <1>2, NextState
<1>9. QED BY <1>7, <1>8 DEF Moves

LEMMA TruncSmallMoves == ASSUME StructInv, AllData(Now), NEW i \in File, TruncSmall(i) PROVE Moves(Now, Now')
<1> DEFINE s == ilock(iget(Rooted, i), i)  t == itrunc(s, i)
<1>1. Named(i) /\ Become(t) /\ View(Now, i).addrs[NDIRECT + 1] = 0
  BY InodeIs DEF TruncSmall, OpenTrunc
<1>2. /\ SameFiles(Now, s) /\ RefsBut(Now, s, i) /\ s.mem[i].ref = Now.mem[i].ref + 1
      /\ Sound(s) /\ Names(s) = Names(Now) /\ InUse(s, i) /\ s.mem[i].ino = View(Now, i)
  BY <1>1, FoundSame, FoundSound
<1> HIDE DEF s
<1>3. Kept(s, t, i) /\ SameBut(s, t, i) /\ Empty(t, i)
  BY <1>1, <1>2, itruncSound, itruncEmpties
<1> HIDE DEF t
<1>4. Sound(Now) /\ Kind(Now, i) = "linked" /\ i \in Inum /\ i \in Names(Now)
  BY <1>1, SoundNow, NamedFile
<1>5. Sound(t) /\ Names(t) = Names(Now) /\ t.mem[i].ref = Now.mem[i].ref + 1 /\ RefsBut(Now, t, i)
  BY <1>2, <1>3, Inodes DEF Kept, Elsewhere, RefsBut
<1>6. SameBut(Now, t, i)
  BY <1>2, <1>3, SameButTwice
<1>7. Kind(t, i) = "linked" /\ Text(t, i) = <<>> /\ DataOK(t, i)
  <2>1. t.dinode[i].type # 0
    BY <1>4, <1>5, NamedLive
  <2>2. QED BY <1>3, <1>4, <1>5, <2>1, EmptyData, NoText DEF Kind, Empty
<1>8. \A j \in File \ {i} : Unmoved(Now, t, j)
  BY <1>4, <1>5, <1>6, RestIs DEF NamesBut
<1>9. Refers(Now, t, i)
  BY <1>4, <1>5, <1>7, <1>8 DEF Refers, Moved
<1>10. Now' = t
  BY <1>1, <1>5, NextState
<1>11. QED BY <1>9, <1>10 DEF Moves


\* A file that has lost its last reference is gone if it has no name.
LEMMA iputSettles ==
    ASSUME NEW s, Sound(s), NEW i \in File, s.mem[i].ref > 0, s.mem[i].valid, DataOK(s, i)
    PROVE  LET t == iput(s, i)
               n == s.mem[i].ref - 1
               named == i \in Names(s)
           IN  /\ Sound(t) /\ Names(t) = Names(s) /\ Elsewhere(s, t, i) /\ SameBut(s, t, i)
               /\ t.mem[i].ref = n /\ DataOK(t, i) /\ Kind(s, i) = IF named THEN "linked" ELSE "unlinked"
               /\ Kind(t, i) = IF named THEN "linked" ELSE IF n > 0 THEN "unlinked" ELSE "free"
               /\ Text(t, i) = IF ~named /\ n = 0 THEN <<>> ELSE Text(s, i)
<1> DEFINE t == iput(s, i)  n == s.mem[i].ref - 1  named == i \in Names(s)
           last == s.mem[i].ref = 1 /\ s.mem[i].valid /\ s.mem[i].ino.nlink = 0
<1>1. Sound(t) /\ Names(t) = Names(s) /\ Elsewhere(s, t, i) /\ t.mem[i].ref = n
  BY iputSound
<1>2. SameBut(s, t, i) /\ (~last => Same(s, t, i))
      /\ (last => t.dinode[i].type = 0 /\ t.dinode[i].size = 0 /\ View(t, i).size = 0)
  BY iputData
<1> HIDE DEF t
<1>3. s \in FsState /\ i \in Inum /\ TableOK(s, i) /\ LinkOK(s, i) /\ s.mem[i].ref \in Nat
  BY GoodIs, Inodes, StateIs DEF Sound
<1>4. s.dinode[i].type # 0
  BY <1>3 DEF LinkOK
<1>5. s.mem[i].ino.nlink \in 0 .. 1 /\ (s.mem[i].ino.nlink = 1 <=> named)
  <2>1. s.mem[i].ino = View(s, i) /\ View(s, i) \in InodeType /\ SameButAddrs(View(s, i), s.dinode[i])
    BY <1>3, StateIs, ViewIs DEF View
  <2>2. QED BY <1>3, <1>4, <2>1, InodeTypeIs DEF SameButAddrs, LinkOK
<1>6. last <=> n = 0 /\ ~named
  BY <1>3, <1>5
<1>7. Kind(s, i) = IF named THEN "linked" ELSE "unlinked"
  BY <1>4 DEF Kind
<1> HIDE DEF last, named
<1>8. CASE last
  <2>1. DataOK(t, i) /\ Text(t, i) = <<>> /\ Kind(t, i) = "free"
    BY <1>2, <1>8, NoText DEF DataOK, Kind
  <2>2. ~(n > 0)
    BY <1>3, <1>6, <1>8
  <2>3. QED BY <1>1, <1>2, <1>6, <1>7, <1>8, <2>1, <2>2 DEF t, named
<1>9. CASE ~last
  <2>1. DataOK(t, i) /\ Text(t, i) = Text(s, i)
    BY <1>2, <1>9, SameData, TextSame
  <2>2. Kind(t, i) = IF named THEN "linked" ELSE "unlinked"
    BY <1>1, <1>2, <1>4, <1>9 DEF Kind, Same, named
  <2>3. ~named => n > 0
    BY <1>3, <1>6, <1>9
  <2>4. QED BY <1>1, <1>2, <1>6, <1>7, <1>9, <2>1, <2>2, <2>3 DEF t, named
<1>10. QED BY <1>8, <1>9

LEMMA CloseMoves == ASSUME StructInv, AllData(Now), NEW i \in File, Close(i) PROVE Moves(Now, Now')
<1> DEFINE t == iput(Now, i)  n == Now.mem[i].ref - 1
<1>1. Sound(Now) /\ OpensOK(Now, opens) /\ i \in Inum /\ DataOK(Now, i)
  BY SoundNow, Inodes DEF AllData
<1>2. opens[i] > 0 /\ Become(t)
  BY DEF Close
<1>3. Now.mem[i].ref > 0 /\ Now.mem[i].valid
  <2>1. opens[i] \in Nat /\ opens[i] <= Now.mem[i].ref /\ Now.mem[i].valid /\ Now.mem[i].ref \in Nat
    BY <1>1, <1>2, GoodIs, StateIs DEF OpensOK, Sound
  <2> DEFINE m == Now.mem[i].ref  o == opens[i]
  <2>2. o \in Nat /\ m \in Nat /\ o > 0 /\ o <= m
    BY <1>2, <2>1
  <2> HIDE DEF m, o
  <2>3. m > 0
    BY <2>2
  <2>4. QED BY <2>1, <2>3 DEF m
<1>4. /\ Sound(t) /\ Names(t) = Names(Now) /\ Elsewhere(Now, t, i) /\ SameBut(Now, t, i)
      /\ t.mem[i].ref = n /\ DataOK(t, i) /\ Kind(Now, i) = IF i \in Names(Now) THEN "linked" ELSE "unlinked"
      /\ Kind(t, i) = IF i \in Names(Now) THEN "linked" ELSE IF n > 0 THEN "unlinked" ELSE "free"
      /\ Text(t, i) = IF ~(i \in Names(Now)) /\ n = 0 THEN <<>> ELSE Text(Now, i)
  BY <1>1, <1>3, iputSettles
<1> HIDE DEF t, n
<1>5. RefsBut(Now, t, i) /\ NamesBut(Now, t, i)
  BY <1>4, Inodes DEF RefsBut, NamesBut, Elsewhere
<1>6. \A j \in File \ {i} : Unmoved(Now, t, j)
  BY <1>1, <1>4, <1>5, RestIs
<1>7. (Kind(Now, i) = "linked") = (i \in Names(Now))
  BY <1>4
<1>8. Settles(Now, t, i, Kind(Now, i) = "linked", n)
  BY <1>4, <1>6, <1>7 DEF Settles, Moved
<1>9. Now' = t
  BY <1>2, <1>4, NextState
<1>10. Drops(Now, Now', i)
  BY <1>3, <1>8, <1>9 DEF Drops, n
<1>11. QED BY <1>10 DEF Moves

\* The lock of read() and write() changes no file.
LEMMA LockedSame ==
    ASSUME StructInv, NEW i \in File, opens[i] > 0
    PROVE  /\ SameFiles(Now, ilock(Now, i)) /\ Names(ilock(Now, i)) = Names(Now)
           /\ Now.dinode[i].type # 0 /\ Now.mem[i].ref > 0
<1> DEFINE s == ilock(Now, i)
<1>1. Sound(Now) /\ OpensOK(Now, opens) /\ i \in Inum /\ LinkOK(Now, i)
  BY SoundNow, Inodes DEF Sound
<1>2. opens[i] \in Nat /\ opens[i] <= Now.mem[i].ref /\ Now.mem[i].ref \in Nat
  BY <1>1, GoodIs, StateIs DEF OpensOK, Sound
<1>3. Now.mem[i].ref > 0
  <2> DEFINE m == Now.mem[i].ref  o == opens[i]
  <2>1. o \in Nat /\ m \in Nat /\ o > 0 /\ o <= m
    BY <1>2
  <2> HIDE DEF m, o
  <2>2. m > 0
    BY <2>1
  <2>3. QED BY <2>2 DEF m
<1>4. Now.dinode[i].type # 0
  BY <1>1, <1>2, <1>3 DEF LinkOK
<1>5. QED BY <1>1, <1>3, <1>4, ilockSame, ilockSound

LEMMA ReadMoves ==
    ASSUME StructInv, AllData(Now), NEW i \in File, NEW off \in ReadOffset, NEW n \in Length, Read(i, off, n)
    PROVE  Moves(Now, Now')
<1> DEFINE s == ilock(Now, i)  t == Changed(s, i, readi(Pointer(s, i), off, n).at)
<1>1. off \in Nat /\ n \in Nat /\ opens[i] > 0 /\ Become(t) /\ Sound(Now)
  BY InodeAssumption, SoundNow DEF Length, Read
<1>2. /\ Sound(s) /\ InUse(s, i) /\ SameFiles(Now, s) /\ Names(s) = Names(Now)
      /\ Elsewhere(Now, s, i) /\ s.mem[i].ref = Now.mem[i].ref
  BY <1>1, LockedSound, LockedSame
<1> HIDE DEF s
<1>3. DataOK(s, i)
  BY <1>2, SameData DEF AllData, SameFiles
<1>4. Kept(s, t, i) /\ SameFiles(s, t)
  BY <1>1, <1>2, <1>3, readiSound, readiSame
<1> HIDE DEF t
<1>5. Sound(t) /\ Names(t) = Names(Now) /\ SameFiles(Now, t)
  BY <1>2, <1>4, SameButTwice DEF Kept
<1>6. \A j \in File : t.mem[j].ref = Now.mem[j].ref
  BY <1>2, <1>4, Inodes DEF Kept, Elsewhere
<1>7. Stays(Now, t)
  BY <1>1, <1>5, <1>6, StaysAre
<1>8. Now' = t
  BY <1>1, <1>5, NextState
<1>9. QED BY <1>7, <1>8 DEF Moves


\* write() changes the contents as the file store has it, up to where it ends.
LEMMA StoredText ==
    ASSUME NEW s, Sound(s), NEW i \in File, InUse(s, i), DataOK(s, i), NEW t, NEW off \in Nat, NEW ws, Len(ws) \in Nat,
           off + Len(ws) <= MAXFILE * BSIZE, NEW n, Stored(s, t, i, off, ws, n),
           NEW ps, Len(ps) = n, \A k \in 1 .. n : ps[k] = ws[k]
    PROVE  Text(t, i) = FS!Written(Text(s, i), off, ps)
<1> DEFINE size == View(s, i).size  new == off + n  len == IF new > size THEN new ELSE size
<1>1. s \in FsState /\ i \in Inum /\ TableOK(s, i)
  BY GoodIs, Inodes DEF Sound
<1>2. View(s, i) \in InodeType /\ View(s, i).type # 0 /\ SameButAddrs(View(s, i), s.dinode[i])
  BY <1>1, StateIs, ViewIs DEF InUse, View
<1>3. size \in Nat /\ size <= MAXFILE * BSIZE /\ MAXFILE * BSIZE \in Nat /\ s.dinode[i].type # 0
  BY <1>2, InodeTypeIs, Sizes DEF SameButAddrs, FileSize
<1>4. n \in Nat /\ new \in Nat /\ new <= MAXFILE * BSIZE /\ View(t, i).size = len
  BY <1>3 DEF Stored
<1>5. Text(s, i) = [k \in 1 .. size |-> FileWord(s, i, k - 1)] /\ Text(t, i) = [k \in 1 .. len |-> FileWord(t, i, k - 1)]
  BY <1>4 DEF Text
<1>6. Len(Text(s, i)) = size
  BY <1>3, <1>5
<1>7. FS!Written(Text(s, i), off, ps) =
        [k \in 1 .. len |-> IF k > off /\ k <= new THEN ps[k - off]
                            ELSE IF k <= size THEN Text(s, i)[k] ELSE 0]
  BY <1>6 DEF FS!Written
<1>8. ASSUME NEW k \in 1 .. len
      PROVE  FileWord(t, i, k - 1) = IF k > off /\ k <= new THEN ps[k - off]
                                     ELSE IF k <= size THEN Text(s, i)[k] ELSE 0
  <2> DEFINE o == k - 1
  <2>1. o \in Within /\ k = o + 1 /\ o \in Nat /\ k \in Nat
    BY <1>3, <1>4 DEF Within
  <2>2. FileWord(t, i, o) = IF off <= o /\ o < new THEN ws[o - off + 1] ELSE FileWord(s, i, o)
    BY <2>1 DEF Stored
  <2>3. k > off /\ k <= new <=> off <= o /\ o < new
    BY <1>4, <2>1
  <2>4. CASE k > off /\ k <= new
    <3>1. k - off \in 1 .. n /\ o - off + 1 = k - off
      BY <1>4, <2>1, <2>4
    <3>2. QED BY <2>2, <2>3, <2>4, <3>1
  <2>5. CASE ~(k > off /\ k <= new) /\ k <= size
    <3>1. Text(s, i)[k] = FileWord(s, i, o)
      BY <1>5, <2>5
    <3>2. QED BY <2>2, <2>3, <2>5, <3>1
  <2>6. CASE ~(k > off /\ k <= new) /\ ~(k <= size)
    <3>1. o >= size
      BY <1>3, <2>1, <2>6
    <3>2. FileWord(s, i, o) = 0
      BY <1>3, <2>1, <3>1 DEF DataOK
    <3>3. QED BY <2>2, <2>3, <2>6, <3>2
  <2>7. QED BY <2>4, <2>5, <2>6
<1> HIDE DEF len, new, size
<1>9. QED BY <1>5, <1>7, <1>8

LEMMA WriteMoves ==
    ASSUME StructInv, AllData(Now), NEW i \in File, NEW off \in Offset, NEW ws \in Words, Write(i, off, ws)
    PROVE  Moves(Now, Now')
<1> DEFINE s == ilock(Now, i)  w == writei(s, i, off, ws)  t == w.st
<1>1. /\ off \in Nat /\ Len(ws) \in Nat /\ (\A k \in 1 .. Len(ws) : ws[k] \in Cell)
      /\ opens[i] > 0 /\ Become(t) /\ Sound(Now) /\ i \in Inum
  BY InodeAssumption, WordsAre, SoundNow, Inodes DEF Write
<1>2. /\ Sound(s) /\ InUse(s, i) /\ SameFiles(Now, s) /\ Names(s) = Names(Now)
      /\ Elsewhere(Now, s, i) /\ s.mem[i].ref = Now.mem[i].ref /\ Now.mem[i].ref > 0 /\ Now.dinode[i].type # 0
  BY <1>1, LockedSound, LockedSame
<1> HIDE DEF s
<1>3. DataOK(s, i) /\ Same(Now, s, i) /\ DataOK(Now, i) /\ Text(s, i) = Text(Now, i)
  BY <1>1, <1>2, SameData, TextSame DEF AllData, SameFiles
<1>4. Kept(s, t, i)
  BY <1>1, <1>2, writeiSound
<1>5. CASE off + Len(ws) > MAXFILE * BSIZE
  <2>1. t = s
    <3>1. w = [st |-> s, n |-> -1]
      BY <1>5, Zenon DEF writei
    <3> HIDE DEF w
    <3>2. QED BY <3>1
  <2>2. \A j \in File : s.mem[j].ref = Now.mem[j].ref
    BY <1>2, Inodes DEF Elsewhere
  <2>3. Stays(Now, s)
    BY <1>1, <1>2, <2>2, StaysAre
  <2>4. Become(s)
    BY <1>1, <2>1
  <2>5. Now' = s
    BY <1>2, <2>4, NextState
  <2>6. QED BY <2>3, <2>5 DEF Moves
<1>6. CASE off + Len(ws) <= MAXFILE * BSIZE
  <2> DEFINE n == w.n
  <2>1. SameBut(s, t, i) /\ Stored(s, t, i, off, ws, n)
    BY <1>1, <1>2, <1>6, writeiStores DEF Sound
  <2> HIDE DEF w
  <2>2. Sound(t) /\ Names(t) = Names(Now) /\ SameBut(Now, t, i) /\ t.mem[i].ref = Now.mem[i].ref
    BY <1>2, <1>4, <2>1, SameButTwice DEF Kept
  <2>3. RefsBut(Now, t, i) /\ NamesBut(Now, t, i)
    BY <1>2, <1>4, <2>2, Inodes DEF RefsBut, NamesBut, Kept, Elsewhere
  <2>4. \A j \in File \ {i} : Unmoved(Now, t, j)
    BY <1>1, <2>2, <2>3, RestIs
  <2> HIDE DEF t
  <2>5. DataOK(t, i)
    BY <1>1, <1>2, <1>3, <2>1, StoredData
  <2>6. Kind(t, i) = Kind(Now, i)
    <3>1. t.dinode[i].type # 0
      <4>1. View(s, i).type # 0
        BY <1>2 DEF InUse, View
      <4>2. QED BY <2>1, <4>1 DEF Stored
    <3>2. QED BY <1>2, <2>2, <3>1 DEF Kind
  <2>7. PICK m \in Length : ws \in [1 .. m -> Word]
    BY DEF Words
  <2>8. m \in Nat /\ m <= MaxLen /\ Len(ws) = m /\ MaxLen \in Nat
    BY <2>7, InodeAssumption DEF Length
  <2>9. n \in 0 .. m /\ n \in Nat /\ n \in 0 .. MaxLen
    BY <2>1, <2>8 DEF Stored
  <2> DEFINE ps == [k \in 1 .. n |-> ws[k]]
  <2>10. ps \in [1 .. n -> Word] /\ Len(ps) = n /\ \A k \in 1 .. n : ps[k] = ws[k]
    BY <2>7, <2>8, <2>9
  <2> HIDE DEF ps, n
  <2>11. Text(t, i) = FS!Written(Text(s, i), off, ps)
    BY <1>1, <1>2, <1>3, <1>6, <2>1, <2>10, StoredText
  <2>12. Moved(Now, t, i, Kind(Now, i), Now.mem[i].ref, FS!Written(Text(Now, i), off, ps))
    BY <1>3, <2>2, <2>4, <2>5, <2>6, <2>11 DEF Moved
  <2>13. ps \in UNION {[1 .. k -> Word] : k \in 0 .. MaxLen}
    BY <2>9, <2>10
  <2>14. Writes(Now, t, i)
    BY <1>2, <2>12, <2>13 DEF Writes
  <2>15. Now' = t
    BY <1>1, <2>2, NextState DEF t
  <2>16. QED BY <2>14, <2>15 DEF Moves
<1>7. QED BY <1>1, <1>5, <1>6, Sizes


\* A word of the directory is no part of a file.
LEMMA EntrySame ==
    ASSUME NEW s, RootOpen(s), NEW off \in Nat, NEW x \in Cell
    PROVE  SameFiles(s, writei(s, ROOTINO, off, <<x>>).st)
<1> DEFINE ws == <<x>>  w == writei(s, ROOTINO, off, ws)
<1>1. Len(ws) = 1 /\ Len(ws) \in Nat /\ \A k \in 1 .. Len(ws) : ws[k] \in Cell
  OBVIOUS
<1> HIDE DEF ws
<1>2. CASE off + Len(ws) > MAXFILE * BSIZE
  <2>1. w = [st |-> s, n |-> -1]
    BY <1>2, Zenon DEF writei
  <2> HIDE DEF w
  <2>2. SameFiles(s, w.st)
    BY <2>1 DEF SameFiles, Same
  <2>3. QED BY <2>2 DEF w, ws
<1>3. CASE off + Len(ws) <= MAXFILE * BSIZE
  <2>1. SameBut(s, w.st, ROOTINO)
    BY <1>1, <1>3, Inodes, writeiStores DEF RootOpen
  <2> HIDE DEF w
  <2>2. SameFiles(s, w.st)
    BY <2>1, SameRoot
  <2>3. QED BY <2>2 DEF w, ws
<1>4. QED BY <1>1, <1>2, <1>3, Sizes

LEMMA RemovedSame ==
    ASSUME NEW s, Sound(s), RootOpen(s), NEW i \in Names(s), InUse(s, i), DataOK(s, i)
    PROVE  LET w == writei(s, ROOTINO, dirlookup(s, i), <<0>>)
           IN  SameFiles(s, Relinked(w.st, i, w.st.mem[i].ino.nlink - 1))
<1> DEFINE off == dirlookup(s, i)  w == writei(s, ROOTINO, off, <<0>>)  t == w.st
           n == t.mem[i].ino.nlink  f == Relinked(t, i, n - 1)
<1>1. off \in Nat /\ 0 \in Cell /\ i \in File
  <2>1. off \in 0 .. DirSize(s) - 1 /\ DirSize(s) \in Nat
    BY dirlookupIs, RootIs
  <2> HIDE DEF off
  <2>2. QED BY <2>1, Sizes DEF Cell, Names
<1>2. /\ w.n = 1 /\ s.mem[i].ino.nlink = 1 /\ n = 1
      /\ Sound(f) /\ Elsewhere(s, w.st, ROOTINO) /\ Elsewhere(w.st, f, i)
      /\ w.st.mem[ROOTINO].ref = s.mem[ROOTINO].ref /\ w.st.mem[ROOTINO].valid = TRUE
      /\ f.mem[i].ref = s.mem[i].ref /\ f.mem[i].valid = TRUE /\ Tidy(s, f)
      /\ Names(f) = Names(s) \ {i} /\ Good(t) /\ InUse(t, i)
  BY RemovedSound
<1> HIDE DEF off
<1>3. SameFiles(s, t)
  BY <1>1, EntrySame
<1> HIDE DEF t
<1>4. DataOK(t, i)
  BY <1>1, <1>3, SameData DEF SameFiles
<1> DEFINE m == n - 1
<1>5. m \in 0 .. 1
  BY <1>2
<1> HIDE DEF m
<1>6. SameFiles(t, Relinked(t, i, m))
  BY <1>1, <1>2, <1>4, <1>5, RelinkedSame
<1>7. SameFiles(s, f)
  BY <1>3, <1>6, SameButTwice DEF m
<1>8. QED BY <1>7 DEF t, off

LEMMA UnlinkMoves == ASSUME StructInv, AllData(Now), NEW i \in File, Unlink(i) PROVE Moves(Now, Now')
<1> DEFINE r == Rooted  s == ilock(iget(r, i), i)
           w == writei(s, ROOTINO, dirlookup(s, i), <<0>>)
           n == w.st.mem[i].ino.nlink
           f == Relinked(w.st, i, n - 1)
           bad == s.mem[i].ino.nlink < 1 \/ w.n # 1
           b == [f EXCEPT !.panic = @ \/ bad]
           t == iput(b, i)
<1>1. /\ Sound(s) /\ Names(s) = Names(Now) /\ InUse(s, i) /\ s.mem[ROOTINO] = r.mem[ROOTINO]
      /\ SameFiles(Now, s) /\ RefsBut(Now, s, i) /\ s.mem[i].ref = Now.mem[i].ref + 1
  BY FoundSound, FoundSame DEF Unlink
<1>2. Become(t) /\ Named(i)
  BY DEF Unlink, Relinked
<1>3. Sound(Now) /\ i \in Names(s) /\ Kind(Now, i) = "linked" /\ Now.mem[i].ref \in Nat /\ i \in Inum
  BY <1>1, <1>2, SoundNow, NamedFile
<1>4. RootOpen(s)
  <2>1. Good(s) /\ r.mem[ROOTINO].valid = TRUE
    BY <1>1, RootedSound DEF Sound, Became, Holding
  <2> HIDE DEF r, s
  <2>2. s.mem[ROOTINO].valid = TRUE
    BY <1>1, <2>1
  <2>3. QED BY <2>1, <2>2, RootLoaded
<1> HIDE DEF r, s
<1>5. DataOK(s, i) /\ Same(Now, s, i) /\ DataOK(Now, i) /\ Text(s, i) = Text(Now, i)
  BY <1>1, <1>3, SameData, TextSame DEF AllData, SameFiles
<1>6. /\ w.n = 1 /\ s.mem[i].ino.nlink = 1 /\ n = 1
      /\ Sound(f) /\ Elsewhere(s, w.st, ROOTINO) /\ Elsewhere(w.st, f, i)
      /\ w.st.mem[ROOTINO].ref = s.mem[ROOTINO].ref /\ w.st.mem[ROOTINO].valid = TRUE
      /\ f.mem[i].ref = s.mem[i].ref /\ f.mem[i].valid = TRUE /\ Tidy(s, f)
      /\ Names(f) = Names(s) \ {i} /\ Good(w.st) /\ InUse(w.st, i)
  BY <1>1, <1>3, <1>4, RemovedSound
<1>7. SameFiles(s, f)
  BY <1>1, <1>3, <1>4, <1>5, RemovedSame
<1> DEFINE q == w.st
<1> HIDE DEF f, q, w
<1>8. b = f
  <2>1. f \in FsState /\ f.panic = FALSE
    BY <1>6, GoodIs DEF Sound
  <2>2. bad = FALSE
    BY <1>6
  <2> HIDE DEF bad
  <2>3. (f.panic \/ bad) = f.panic
    BY <2>1, <2>2
  <2>4. b = [f EXCEPT !.panic = f.panic]
    BY <2>3
  <2> HIDE DEF b
  <2>5. QED BY <2>1, <2>4 DEF FsState
<1> HIDE DEF b
<1>9. SameFiles(Now, f) /\ f.mem[i].ref = Now.mem[i].ref + 1 /\ f.mem[i].ref > 0 /\ i \notin Names(f)
  BY <1>1, <1>3, <1>6, <1>7, SameButTwice
<1>10. RefsBut(Now, f, i)
  <2>1. \A j \in File \ {i} : f.mem[j] = q.mem[j] /\ q.mem[j] = s.mem[j]
    BY <1>6, Inodes DEF Elsewhere, q
  <2>2. QED BY <1>1, <2>1 DEF RefsBut
<1>11. Same(Now, f, i) /\ DataOK(f, i) /\ Text(f, i) = Text(Now, i)
  BY <1>3, <1>5, <1>9, SameData, TextSame DEF SameFiles
<1> DEFINE k == f.mem[i].ref - 1
<1>12. /\ Sound(t) /\ Names(t) = Names(f) /\ Elsewhere(f, t, i) /\ SameBut(f, t, i)
       /\ t.mem[i].ref = k /\ DataOK(t, i)
       /\ Kind(t, i) = (IF k > 0 THEN "unlinked" ELSE "free")
       /\ Text(t, i) = (IF k = 0 THEN <<>> ELSE Text(f, i))
  BY <1>6, <1>8, <1>9, <1>11, iputSettles
<1>13. k = Now.mem[i].ref
  BY <1>3, <1>9
<1> HIDE DEF t, k
<1>14. SameBut(Now, t, i) /\ RefsBut(Now, t, i) /\ NamesBut(Now, t, i)
  <2>1. SameBut(Now, t, i)
    BY <1>9, <1>12, SameButTwice
  <2>2. RefsBut(Now, t, i)
    BY <1>10, <1>12, Inodes DEF RefsBut, Elsewhere
  <2>3. NamesBut(Now, t, i)
    BY <1>1, <1>6, <1>12 DEF NamesBut
  <2>4. QED BY <2>1, <2>2, <2>3
<1>15. \A j \in File \ {i} : Unmoved(Now, t, j)
  BY <1>3, <1>14, RestIs
<1>16. Settles(Now, t, i, FALSE, Now.mem[i].ref)
  BY <1>11, <1>12, <1>13, <1>15 DEF Settles, Moved
<1>17. Now' = t
  BY <1>2, <1>12, NextState
<1>18. Unlinks(Now, Now', i)
  BY <1>3, <1>16, <1>17 DEF Unlinks
<1>19. QED BY <1>18 DEF Moves


LEMMA dirlinkSame == ASSUME NEW s, RootOpen(s), NEW i \in File PROVE SameFiles(s, dirlink(s, i).st)
<1> DEFINE empty == {o \in DirOffsets(s) : Entry(s, o) = 0}
           off == IF empty = {} THEN s.mem[ROOTINO].ino.size ELSE Least(empty)
<1>1. DirOffsets(s) = 0 .. DirSize(s) - 1 /\ DirSize(s) \in Nat /\ s.mem[ROOTINO].ino.size = DirSize(s)
  BY RootIs DEF DirSize
<1>2. off \in Nat
  <2>1. CASE empty = {}
    BY <1>1, <2>1
  <2>2. CASE empty # {}
    <3>1. empty \in SUBSET (0 .. DirSize(s) - 1) /\ 0 \in Nat /\ DirSize(s) - 1 \in Int
      BY <1>1
    <3>2. Least(empty) \in empty
      <4> HIDE DEF empty
      <4>1. QED BY <2>2, <3>1, LeastUpTo
    <3>3. QED BY <1>1, <2>2, <3>1, <3>2
  <2>3. QED BY <2>1, <2>2
<1>3. dirlink(s, i) = writei(s, ROOTINO, off, <<i>>)
  BY DEF dirlink
<1> HIDE DEF off
<1>4. i \in Cell
  BY Inodes DEF Cell
<1>5. QED BY <1>2, <1>3, <1>4, EntrySame

\* A free file has neither contents nor references.
LEMMA FreeText ==
    ASSUME NEW s, Sound(s), NEW i \in File, DataOK(s, i), s.dinode[i].type = 0
    PROVE  Kind(s, i) = "free" /\ Text(s, i) = <<>> /\ s.mem[i].ref = 0
<1>1. TableOK(s, i) /\ LinkOK(s, i)
  BY GoodIs, Inodes DEF Sound
<1>2. s.mem[i].ref = 0 /\ ~s.mem[i].valid
  BY <1>1 DEF LinkOK, TableOK, NoEntry
<1>3. View(s, i).size = 0
  BY <1>2 DEF View, DataOK
<1>4. QED BY <1>2, <1>3, NoText DEF Kind

LEMMA OpenCreateMoves == ASSUME StructInv, AllData(Now), OpenCreate PROVE Moves(Now, Now')
<1> DEFINE r == Rooted  a == ialloc(r, 2)  i == a.inum
           t0 == ilock(a.st, i)
           f == iupdate([t0 EXCEPT !.mem[i].ino = [@ EXCEPT !.nlink = 1, !.size = 0]], i)
           w == dirlink(f, i)
           g == iupdate([w.st EXCEPT !.mem[i].ino.nlink = 0], i)
           t == iput(g, i)
<1>1. /\ Sound(r) /\ r.mem[ROOTINO].valid = TRUE /\ Sound(Now)
      /\ SameFiles(Now, r) /\ Names(r) = Names(Now) /\ \A j \in File : r.mem[j] = Now.mem[j]
  BY RootedSound, RootedSame, SoundNow DEF Became, Holding
<1>2. \/ i = 0 /\ Become(r)
      \/ i # 0 /\ w.n # 1 /\ Become(t)
      \/ i # 0 /\ w.n = 1 /\ Become(w.st)
  BY DEF OpenCreate
<1>3. CASE i = 0
  <2>1. Become(r)
    BY <1>2, <1>3
  <2> HIDE DEF r
  <2>2. Stays(Now, r) /\ Now' = r
    BY <1>1, <2>1, StaysAre, NextState
  <2>3. QED BY <2>2 DEF Moves
<1>4. CASE i # 0
  <2>1. i \in Inum /\ r.dinode[i].type = 0 /\ a.st = iget([r EXCEPT !.dinode[i] = [FreeInode EXCEPT !.type = 2]], i)
    <3> HIDE DEF r
    <3>1. QED BY <1>4, iallocIs
  <2>2. f = Fresh(r, i)
    BY <2>1 DEF Fresh
  <2> HIDE DEF r, a, i, f
  <2>3. Created(r, f, i) /\ SameBut(r, f, i) /\ Empty(f, i)
    BY <1>1, <2>1, <2>2, FreshIs, FreshEmpty
  <2>4. /\ i \in File /\ i \notin Names(r) /\ ROOTINO \in Inum \ {i}
        /\ Good(f) /\ Names(f) = Names(r) /\ Elsewhere(r, f, i) /\ f.mem[ROOTINO] = r.mem[ROOTINO]
        /\ f.mem[i].ref = 1 /\ f.mem[i].valid = TRUE
    BY <2>3, Inodes DEF Created, Elsewhere
  <2>5. /\ Kind(Now, i) = "free" /\ Text(Now, i) = <<>> /\ Now.mem[i].ref = 0
    <3>1. Now.dinode[i].type = 0
      BY <1>1, <2>1, <2>4 DEF SameFiles, Same
    <3>2. QED BY <1>1, <2>4, <3>1, FreeText DEF AllData
  <2>6. RootOpen(f) /\ f.mem[ROOTINO].valid = TRUE
    BY <1>1, <2>4, RootLoaded
  <2>7. Linked(f, w, i) /\ SameFiles(f, w.st)
    BY <2>4, <2>6, dirlinkIs, dirlinkSame
  <2> HIDE DEF w
  <2> DEFINE x == w.st
  <2>8. /\ RootOpen(x) /\ Elsewhere(f, x, ROOTINO) /\ SameFiles(f, x)
        /\ Names(x) = IF w.n = 1 THEN Names(r) \cup {i} ELSE Names(r)
    BY <2>4, <2>7 DEF Linked
  <2> HIDE DEF x
  <2>9. SameBut(Now, x, i)
    <3>1. SameBut(Now, f, i)
      BY <1>1, <2>3, SameButTwice
    <3>2. QED BY <2>8, <3>1, SameButTwice
  <2>10. \A j \in File : x.mem[j] = f.mem[j] /\ x.dinode[j] = f.dinode[j]
    BY <2>8, Inodes DEF Elsewhere
  <2>11. RefsBut(Now, x, i)
    BY <1>1, <2>4, <2>10, Inodes DEF RefsBut, Elsewhere
  <2>12. /\ x.mem[i].ref = 1 /\ x.mem[i].valid = TRUE /\ x.dinode[i] = x.mem[i].ino
         /\ x.mem[i].ino.type = 2 /\ x.mem[i].ino.nlink = 1
    BY <2>3, <2>4, <2>10 DEF Created
  <2>13. DataOK(x, i) /\ View(x, i).size = 0
    BY <2>3, <2>4, <2>8, EmptyData, SameData DEF SameFiles, Same, Empty
  <2>14. \A j \in File \ {i} : LinkOK(x, j)
    <3>1. ASSUME NEW j \in File \ {i} PROVE LinkOK(x, j)
      <4>1. LinkOK(f, j) /\ x.mem[j] = f.mem[j] /\ x.dinode[j] = f.dinode[j] /\ (j \in Names(x) <=> j \in Names(f))
        BY <2>3, <2>4, <2>8, <2>10 DEF Created
      <4>2. QED BY <4>1 DEF LinkOK
    <3>2. QED BY <3>1
  <2>15. CASE w.n = 1
    <3>1. Names(x) = Names(Now) \cup {i}
      BY <1>1, <2>8, <2>15
    <3>2. LinkOK(x, i)
      BY <2>12, <3>1 DEF LinkOK
    <3>3. Sound(x)
      BY <2>4, <2>8, <2>14, <3>2 DEF Sound, RootOpen
    <3>4. \A j \in File \ {i} : Unmoved(Now, x, j)
      BY <1>1, <2>9, <2>11, <3>1, RestIs DEF NamesBut
    <3>5. Kind(x, i) = "linked" /\ Text(x, i) = <<>>
      BY <2>12, <2>13, <3>1, NoText DEF Kind
    <3>6. Creates(Now, x, i)
      BY <2>5, <2>12, <2>13, <3>4, <3>5 DEF Creates, Moved
    <3>7. Become(x)
      BY <1>2, <1>4, <2>15 DEF x
    <3>8. Now' = x
      BY <3>3, <3>7, NextState
    <3>9. QED BY <2>4, <3>6, <3>8 DEF Moves
  <2>16. CASE w.n # 1
    <3>1. Names(x) = Names(Now) /\ i \notin Names(x)
      BY <1>1, <2>4, <2>8, <2>16
    <3>2. Good(x) /\ InUse(x, i)
      BY <2>8, <2>12 DEF RootOpen, InUse
    <3> DEFINE zero == 0
    <3>3. g = Relinked(x, i, zero) /\ zero \in 0 .. 1
      BY DEF Relinked, x
    <3> HIDE DEF g, zero
    <3>4. LinkSet(x, g, i, zero) /\ SameFiles(x, g)
      BY <2>4, <2>13, <3>2, <3>3, RelinkedIs, RelinkedSame
    <3>5. g.dinode[i].type = 2 /\ g.dinode[i].nlink = 0 /\ g.mem[i].valid = TRUE /\ i \notin Names(g)
      BY <2>12, <3>1, <3>4 DEF LinkSet, zero
    <3>6. LinkOK(g, i)
      BY <3>5 DEF LinkOK
    <3>7. Sound(g) /\ g.mem[i].ref = 1 /\ Elsewhere(x, g, i) /\ Names(g) = Names(Now)
      BY <2>12, <2>14, <3>1, <3>4, <3>6 DEF LinkSet, Sound
    <3>8. g.mem[i].ref > 0 /\ DataOK(g, i)
      BY <2>4, <2>13, <3>4, <3>7, SameData DEF SameFiles
    <3> DEFINE k == g.mem[i].ref - 1
    <3>9. /\ Sound(t) /\ Names(t) = Names(g) /\ Elsewhere(g, t, i) /\ SameBut(g, t, i)
          /\ t.mem[i].ref = k /\ DataOK(t, i)
          /\ Kind(t, i) = (IF k > 0 THEN "unlinked" ELSE "free")
          /\ Text(t, i) = (IF k = 0 THEN <<>> ELSE Text(g, i))
      BY <2>4, <3>5, <3>7, <3>8, iputSettles
    <3>10. k = 0
      BY <3>7
    <3> HIDE DEF t, k
    <3>11. Unmoved(Now, t, i)
      BY <2>5, <3>9, <3>10 DEF Unmoved
    <3>12. SameBut(Now, t, i)
      <4>1. SameBut(Now, g, i)
        BY <2>9, <3>4, SameButTwice
      <4>2. QED BY <3>9, <4>1, SameButTwice
    <3>13. RefsBut(Now, t, i) /\ NamesBut(Now, t, i)
      BY <2>11, <3>7, <3>9, Inodes DEF RefsBut, NamesBut, Elsewhere
    <3>14. \A j \in File \ {i} : Unmoved(Now, t, j)
      BY <1>1, <3>12, <3>13, RestIs
    <3>15. Stays(Now, t)
      BY <3>11, <3>14 DEF Stays
    <3>16. Become(t)
      BY <1>2, <1>4, <2>16
    <3>17. Now' = t
      BY <3>9, <3>16, NextState
    <3>18. QED BY <3>15, <3>17 DEF Moves
  <2>17. QED BY <2>15, <2>16
<1>5. QED BY <1>3, <1>4

LEMMA NextMoves == StructInv /\ AllData(Now) /\ [SmallTruncNext]_vars => Moves(Now, Now')
<1> SUFFICES ASSUME StructInv, AllData(Now), [SmallTruncNext]_vars PROVE Moves(Now, Now')
  OBVIOUS
<1>1. CASE OpenCreate
  BY <1>1, OpenCreateMoves
<1>2. ASSUME NEW i \in File, Open(i) \/ LookUp(i) \/ Close(i) \/ Unlink(i) \/ TruncSmall(i) PROVE Moves(Now, Now')
  BY <1>2, OpenMoves, LookUpMoves, CloseMoves, UnlinkMoves, TruncSmallMoves
<1>3. ASSUME NEW i \in File, NEW off \in Offset, NEW ws \in Words, Write(i, off, ws) PROVE Moves(Now, Now')
  BY <1>3, WriteMoves
<1>4. ASSUME NEW i \in File, NEW off \in ReadOffset, NEW n \in Length, Read(i, off, n) PROVE Moves(Now, Now')
  BY <1>4, ReadMoves
<1>5. CASE UNCHANGED vars
  <2>1. Now' = Now
    BY <1>5 DEF vars, Now
  <2>2. Stays(Now, Now')
    BY <2>1 DEF Stays, Unmoved, AllData
  <2>3. QED BY <2>2 DEF Moves
<1>6. QED BY <1>1, <1>2, <1>3, <1>4, <1>5 DEF SmallTruncNext, Basic

\* Every system call leaves the invariant and is a step of the file store.
LEMMA CallsMove ==
    InodeInv /\ [SmallTruncNext]_vars => InodeInv' /\ [FS!Next]_(FS!vars)
<1> SUFFICES ASSUME InodeInv, [SmallTruncNext]_vars PROVE InodeInv' /\ [FS!Next]_(FS!vars)
  OBVIOUS
<1>1. StructInv /\ AllData(Now)
  BY DataIs DEF InodeInv
<1>2. StructInv' /\ Moves(Now, Now')
  BY <1>1, NextIsSound, NextMoves
<1>3. QED BY <1>1, <1>2, MovesAre DEF InodeInv

\* The disk of create_image has no files.
LEMMA InitHasNone == Init => InodeInv /\ FS!Init
<1> SUFFICES ASSUME Init PROVE InodeInv /\ FS!Init
  OBVIOUS
<1>1. StructInv
  BY InitIsSound
<1>2. Sound(Now) /\ \A i \in File : Now.dinode[i] = FreeInode
  BY <1>1, InitialRoot, SoundNow DEF Now
<1>3. \A i \in File : Now.dinode[i].type = 0 /\ DataOK(Now, i)
  BY <1>2 DEF FreeInode, DataOK
<1>4. \A i \in File : Kind(Now, i) = "free" /\ Text(Now, i) = <<>> /\ Now.mem[i].ref = 0
  BY <1>2, <1>3, FreeText
<1>5. DataInv
  BY <1>3, DataIs DEF AllData
<1>6. /\ FileStatus = [i \in File |-> Kind(Now, i)]
      /\ FileRefs = [i \in File |-> Now.mem[i].ref]
      /\ FileContents = [i \in File |-> Text(Now, i)]
  BY <1>1, MapIs
<1>7. FS!Init
  BY <1>4, <1>6 DEF FS!Init
<1>8. QED BY <1>1, <1>5, <1>7 DEF InodeInv

-----------------------------------------------------------------------------
(* The theorems *)

\* Applications that never truncate a file with a double indirect block keep the
\* file system sound, on a disk of any size that may be full at any point.
THEOREM InodeInvariant == SmallTruncSpec => []InodeInv
<1>1. Init => InodeInv
  BY InitHasNone
<1>2. InodeInv /\ [SmallTruncNext]_vars => InodeInv'
  BY CallsMove
<1>3. QED BY <1>1, <1>2, PTL DEF SmallTruncSpec

\* Inodes, table entries, blocks and the bitmap keep their types; no file grows
\* beyond MAXFILE blocks.
THEOREM TypeCorrect == SmallTruncSpec => []TypeOK
<1>1. InodeInv => TypeOK
  BY DEF InodeInv, StructInv
<1>2. QED BY <1>1, InodeInvariant, PTL

\* Every block that is reached has one owner and is marked in the bitmap:
\* balloc never hands out a block that is part of a file.
THEOREM BlocksHaveOneOwner == SmallTruncSpec => []BlocksOwned
<1>1. InodeInv => BlocksOwned
  BY DEF InodeInv, StructInv
<1>2. QED BY <1>1, InodeInvariant, PTL

\* bfree finds its block marked, ilock an inode with a type and a reference,
\* unlink a link to take away, and bmap a block number in range.
THEOREM InodesNeverPanic == SmallTruncSpec => []NoPanic
<1>1. InodeInv => NoPanic
  BY DEF InodeInv, StructInv
<1>2. QED BY <1>1, InodeInvariant, PTL

\* iput frees an inode with its last reference once it has no name, and at no
\* other time: ialloc hands out no inode that is in use.
THEOREM FreedAtTheEnd == SmallTruncSpec => []FreedWithLastReference
<1>1. InodeInv => FreedWithLastReference
  <2> SUFFICES ASSUME StructInv, NEW i \in File
               PROVE  dinode[i].type = 0 <=> mem[i].ref = 0 /\ ~Named(i)
    BY DEF FreedWithLastReference, InodeInv
  <2>1. /\ dinode[i].type = 0 => mem[i].ref = 0 /\ ~Named(i)
        /\ dinode[i].type # 0 /\ ~Named(i) => mem[i].valid
    BY DEF StructInv, NamesInv
  <2>2. mem[i].ref = 0 => ~mem[i].valid
    <3>1. i \in Inum
      BY Inodes
    <3>2. mem[i].ref = 0 => mem[i] = NoEntry
      BY <3>1 DEF StructInv, TableInv
    <3>3. NoEntry.valid = FALSE
      BY DEF NoEntry
    <3>4. QED BY <3>2, <3>3
  <2>3. QED BY <2>1, <2>2
<1>2. QED BY <1>1, InodeInvariant, PTL

IsRead == \E i \in File, off \in ReadOffset, n \in Length : Read(i, off, n)

LEMMA CallsKeepBlocks ==
    StructInv /\ [SmallTruncNext]_vars => LosesNone /\ (StaysCurrent \/ IsRead)
<1> SUFFICES ASSUME StructInv, [SmallTruncNext]_vars PROVE LosesNone /\ (StaysCurrent \/ IsRead)
  OBVIOUS
<1>1. CASE OpenCreate
  BY <1>1, OpenCreateStep
<1>2. ASSUME NEW i \in File, Open(i) \/ LookUp(i) \/ Close(i) \/ Unlink(i) \/ TruncSmall(i)
      PROVE  LosesNone /\ StaysCurrent
  BY <1>2, OpenStep, LookUpStep, CloseStep, UnlinkStep, TruncSmallStep
<1>3. ASSUME NEW i \in File, NEW off \in Offset, NEW ws \in Words, Write(i, off, ws)
      PROVE  LosesNone /\ StaysCurrent
  BY <1>3, WriteStep
<1>4. ASSUME NEW i \in File, NEW off \in ReadOffset, NEW n \in Length, Read(i, off, n)
      PROVE  LosesNone /\ IsRead
  BY <1>4, ReadStep DEF IsRead
<1>5. CASE UNCHANGED vars
  <2>1. Now' = Now
    BY <1>5 DEF vars, Now
  <2>2. StructInv'
    BY <1>5, NextIsSound
  <2>3. /\ Lost = Gone(Now) /\ (DiskInodeCurrent <=> Current(Now))
        /\ (Lost = Gone(Now) /\ (DiskInodeCurrent <=> Current(Now)))'
    BY <2>2, LostIs, LostNext
  <2>4. Lost' = Lost /\ (DiskInodeCurrent' <=> DiskInodeCurrent)
    BY <2>1, <2>3
  <2>5. QED BY <2>4 DEF LosesNone, StaysCurrent
<1>6. QED BY <1>1, <1>2, <1>3, <1>4, <1>5 DEF SmallTruncNext, Basic

\* No call loses a block, also when it fails half way on a full disk or is the
\* last to drop an inode; and only a read, which fills holes and does not call
\* iupdate, leaves block pointers in the table that the disk does not have.
THEOREM NoBlockLost == SmallTruncSpec => BlocksKept
<1>1. InodeInv /\ [SmallTruncNext]_vars =>
        [DiskInodeCurrent =>
           /\ Lost' \subseteq Lost
           /\ \/ DiskInodeCurrent'
              \/ \E i \in File, off \in ReadOffset, n \in Length : Read(i, off, n)]_vars
  <2>1. InodeInv /\ [SmallTruncNext]_vars => LosesNone /\ (StaysCurrent \/ IsRead)
    BY CallsKeepBlocks DEF InodeInv
  <2>2. QED BY <2>1, Zenon DEF LosesNone, StaysCurrent, IsRead
<1>2. QED BY <1>1, InodeInvariant, PTL DEF SmallTruncSpec, BlocksKept

\* Whatever the system calls do to blocks, bitmap, table and directory, what
\* applications see is a step of the file store or none: contents change only
\* where they are written, holes and grown files read as zero, a file of a reused
\* inode starts empty, and a short write on a full disk stores a prefix.
THEOREM FilesAreStored == SmallTruncSpec => ImplementsFileStore
<1>1. Init => FS!Init
  BY InitHasNone
<1>2. InodeInv /\ [SmallTruncNext]_vars => [FS!Next]_(FS!vars)
  BY CallsMove
<1>3. QED BY <1>1, <1>2, InodeInvariant, PTL DEF SmallTruncSpec, ImplementsFileStore, FS!Spec

LEMMA PrefixIs ==
    ASSUME NEW S, NEW T, NEW a \in Seq(S), NEW b \in Seq(T), Len(a) <= Len(b), \A k \in 1 .. Len(a) : a[k] = b[k]
    PROVE  IsPrefix(a, b)
<1>1. SubSeq(a, 1, Len(a)) = [k \in 1 .. Len(a) |-> a[k]] /\ SubSeq(b, 1, Len(a)) = [k \in 1 .. Len(a) |-> b[k]]
  OBVIOUS
<1>2. SubSeq(a, 1, Len(a)) = SubSeq(b, 1, Len(a))
  BY <1>1
<1>3. QED BY <1>2 DEF IsPrefix

\* What a read finds in an open file.
LEMMA ReadFinds ==
    ASSUME InodeInv, NEW i \in File, NEW off \in ReadOffset, opens[i] > 0, off < Inode(i).size
    PROVE  LET d == readi(Pointer(ilock(Now, i), i), off, MaxLen)
               size == Len(Contents(i))
               last == IF size < off + MaxLen THEN size ELSE off + MaxLen
               want == SubSeq(Contents(i), off + 1, last)
           IN  /\ IsPrefix(d.words, want)
               /\ d.words # want => d.at.used = Block
<1> DEFINE s == ilock(Now, i)  h == Pointer(s, i)  O == Others(s, i)  size == View(Now, i).size
           last == IF size < off + MaxLen THEN size ELSE off + MaxLen  n == last - off
           d == readi(h, off, MaxLen)  got == d.words  want == SubSeq(Contents(i), off + 1, last)
<1>1. StructInv /\ Sound(Now) /\ OpensOK(Now, opens) /\ i \in Inum /\ off \in Nat /\ MaxLen \in Nat
  BY SoundNow, Inodes, InodeAssumption DEF InodeInv
<1>2. Sound(s) /\ InUse(s, i)
  BY <1>1, LockedSound
<1>3. /\ Now.mem[i].valid /\ Now \in FsState /\ Now.panic = FALSE /\ Now.mem[i].ref > 0
  BY <1>1, LockedSame, GoodIs DEF OpensOK, Sound
<1>4. s.used = used /\ s.content = content /\ View(s, i) = View(Now, i)
  <2>1. Became(s, Now, i, Now.used, Now.content, Now.dinode[i],
               [ref |-> Now.mem[i].ref, valid |-> TRUE, ino |-> View(Now, i)])
    BY <1>1, <1>3, LockedSame, ilockSound
  <2> DEFINE e == [ref |-> Now.mem[i].ref, valid |-> TRUE, ino |-> View(Now, i)]
  <2>2. e.valid = TRUE /\ e.ino = View(Now, i)
    OBVIOUS
  <2> HIDE DEF e, s
  <2>3. s.used = Now.used /\ s.content = Now.content /\ View(s, i) = View(Now, i)
    BY <2>1, <2>2 DEF Became, Seen, e
  <2>4. QED BY <2>3 DEF Now
<1>5. Owned(h, O) /\ h.used = used /\ h.content = content /\ h.ino = View(Now, i)
  <2> HIDE DEF s
  <2>1. s \in FsState /\ s.panic = FALSE /\ BlocksInv(s)
    BY <1>2, GoodIs DEF Sound
  <2>2. Owned(h, O) /\ h.used = s.used /\ h.content = s.content /\ View(s, i) = h.ino
    BY <1>1, <1>2, <2>1, PointerOwned
  <2> HIDE DEF h
  <2>3. QED BY <1>4, <2>2
<1> HIDE DEF s, h
<1>6. size \in Nat /\ size <= MAXFILE * BSIZE /\ MAXFILE * BSIZE \in Nat /\ off < size
  <2>1. View(Now, i) \in InodeType
    BY <1>1, <1>3, StateIs
  <2>2. QED BY <2>1, InodeIs, InodeTypeIs, Sizes DEF FileSize
<1>7. last \in Nat /\ off <= last /\ last <= size /\ last <= off + MaxLen /\ n \in Nat /\ n <= MaxLen
  BY <1>1, <1>6
<1>8. d = ReadLoop(h, off, last)
  <2>1. h.ino.size = size
    BY <1>5
  <2>2. ~(off > size)
    BY <1>1, <1>6
  <2> DEFINE to == IF off > size THEN off ELSE IF off + MaxLen > size THEN size ELSE off + MaxLen
  <2>3. to = last
    BY <1>1, <1>6, <2>2
  <2>4. d = ReadLoop(h, off, to)
    BY <2>1 DEF readi
  <2>5. QED BY <2>3, <2>4
<1>9. Contents(i) = [k \in 1 .. size |-> W(h, k - 1)] /\ Len(Contents(i)) = size
  <2>1. Contents(i) = [k \in 1 .. size |-> W(h, k - 1)]
    BY <1>5, InodeIs DEF Contents, W
  <2> HIDE DEF size
  <2>2. QED BY <1>6, <2>1
<1> HIDE DEF size, last
<1>10. d \in ReadAcc /\ ReadSoFar(h, d, off, n)
  <2>1. last <= MAXFILE * BSIZE
    BY <1>6, <1>7
  <2>2. QED BY <1>1, <1>5, <1>7, <1>8, <2>1, ReadLoopFacts
<1> HIDE DEF d
<1>11. got \in Seq(Cell) /\ Len(got) \in Nat /\ Len(got) <= n /\ \A k \in 1 .. Len(got) : got[k] = W(h, off + k - 1)
  BY <1>10 DEF ReadAcc, ReadSoFar
<1> DEFINE S == {W(h, k - 1) : k \in 1 .. size}
<1>12. /\ Len(want) = n /\ want \in Seq(S) /\ want = [k \in 1 .. n |-> want[k]]
       /\ \A k \in 1 .. n : want[k] = W(h, off + k - 1)
  <2>1. \A k \in 1 .. size : W(h, k - 1) \in S
    OBVIOUS
  <2> HIDE DEF S
  <2>2. Contents(i) \in [1 .. size -> S]
    BY <1>9, <2>1
  <2>3. Contents(i) \in Seq(S)
    BY <1>6, <2>2
  <2>4. Len(want) = n /\ want = [k \in 1 .. n |-> Contents(i)[off + k]] /\ want \in Seq(S)
    BY <1>1, <1>6, <1>7, <1>9, <2>3
  <2>5. \A k \in 1 .. n : off + k \in 1 .. size /\ (off + k) - 1 = off + k - 1
    BY <1>1, <1>6, <1>7
  <2>6. \A k \in 1 .. n : want[k] = W(h, off + k - 1)
    BY <1>9, <2>4, <2>5
  <2>7. QED BY <2>4, <2>6
<1>13. got = [k \in 1 .. Len(got) |-> got[k]]
  BY <1>11
<1> HIDE DEF S
<1> HIDE DEF got, want, n
<1>14. IsPrefix(got, want)
  <2>1. Len(got) <= Len(want) /\ \A k \in 1 .. Len(got) : got[k] = want[k]
    BY <1>7, <1>11, <1>12
  <2>2. QED BY <1>11, <1>12, <2>1, PrefixIs
<1>15. ASSUME got # want PROVE d.at.used = Block
  <2>1. Len(got) # n
    <3>1. SUFFICES ASSUME Len(got) = n PROVE got = want
      BY <1>15
    <3>2. \A k \in 1 .. n : got[k] = want[k]
      BY <1>11, <1>12, <3>1
    <3>3. QED BY <1>12, <1>13, <3>1, <3>2
  <2>2. QED BY <1>10, <2>1 DEF ReadSoFar, got
<1>16. QED BY <1>9, <1>14, <1>15 DEF got, d, h, s, want, last, size

\* read() returns the contents of the file at that place; it is short only when
\* it met a hole and no block is left on the disk.
THEOREM ReadsReturnContents == SmallTruncSpec => []ReadReturnsContents
<1>1. InodeInv => ReadReturnsContents
  BY ReadFinds DEF ReadReturnsContents
<1>2. QED BY <1>1, InodeInvariant, PTL
=============================================================================
