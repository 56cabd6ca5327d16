------------------------------ MODULE InodeBlocks ------------------------------
(***************************************************************************)
(* The inode layer of xv6fs (xv6fs/src/fs.c) and the system calls of        *)
(* sysfile.c and file.c that drive it: the free bitmap, the inodes on disk  *)
(* and in memory, the direct, indirect and double indirect block pointers,  *)
(* and the flat root directory.                                             *)
(*                                                                          *)
(* The server is single threaded: a system call is one step.  Blocks are    *)
(* read and changed through an ideal block store (module BlockStore); what  *)
(* the cache really does is the subject of BufferCache.                     *)
(*                                                                          *)
(* The unit of size is the word, sizeof(uint) in the code: a block has      *)
(* NINDIRECT words, as BSIZE / sizeof(uint) = NINDIRECT, and a directory    *)
(* entry is one word, the inode number, which also stands for the name (a   *)
(* file never has two).                                                     *)
(***************************************************************************)
EXTENDS Integers, Sequences, FiniteSets, SequencesExt

CONSTANTS
    NDIRECT,    \* direct pointers of an inode
    NINDIRECT,  \* pointers in an indirect block, words in any block
    NINODES,    \* inode numbers are 1 .. NINODES - 1
    NBLOCKS,    \* data blocks are 1 .. NBLOCKS
    Word,       \* what applications write
    Offset,     \* where they write, in words
    ReadOffset, \* where they read, in words
    MaxLen,     \* bound on the length of a read or a write, in words
    MaxRef      \* bound on the references to an inode

ASSUME InodeAssumption ==
    /\ NDIRECT \in Nat \ {0} /\ NINDIRECT \in Nat \ {0}
    /\ NINODES \in Nat \ {0, 1} /\ NBLOCKS \in Nat \ {0}
    /\ Word \subseteq Nat \ {0}
    /\ Offset \subseteq Nat /\ ReadOffset \subseteq Nat
    /\ MaxLen \in Nat \ {0} /\ MaxRef \in Nat \ {0}

BSIZE == NINDIRECT
MAXFILE == NDIRECT + NINDIRECT + NINDIRECT * NINDIRECT
ROOTINO == 1

Block == 1 .. NBLOCKS
Inum == 1 .. NINODES - 1
File == Inum \ {ROOTINO}

VARIABLES
    used,       \* the data blocks marked in the free bitmap
    content,    \* content[b][k]: word k of data block b
    dinode,     \* dinode[i]: inode i on disk
    mem,        \* mem[i]: the entry of inode i in the inode table
    opens,      \* opens[i]: open files on inode i
    panicked    \* the server has called panic()

vars == <<used, content, dinode, mem, opens, panicked>>

-----------------------------------------------------------------------------
(* Inodes.  Type 0 is a free inode, 1 a directory, 2 a file. *)

NoAddrs == [k \in 0 .. NDIRECT + 1 |-> 0]
FreeInode == [type |-> 0, nlink |-> 0, size |-> 0, addrs |-> NoAddrs]

\* A slot of the inode table nobody refers to; iget gives it out with valid 0,
\* so what is left in it is never looked at.
NoEntry == [ref |-> 0, valid |-> FALSE, ino |-> FreeInode]

ZeroBlock == [k \in 0 .. NINDIRECT - 1 |-> 0]
DotBlock == [k \in 0 .. NINDIRECT - 1 |-> IF k <= 1 THEN ROOTINO ELSE 0]

\* The image written by create_image: the root directory with "." and "..",
\* its size rounded up to a block; main() holds it as the working directory.
Init ==
    /\ used = {1}
    /\ content = [b \in Block |-> IF b = 1 THEN DotBlock ELSE ZeroBlock]
    /\ dinode = [i \in Inum |->
                   IF i = ROOTINO
                   THEN [type |-> 1, nlink |-> 1, size |-> BSIZE,
                         addrs |-> [NoAddrs EXCEPT ![0] = 1]]
                   ELSE FreeInode]
    /\ mem = [i \in Inum |-> IF i = ROOTINO THEN [NoEntry EXCEPT !.ref = 1] ELSE NoEntry]
    /\ opens = [i \in Inum |-> 0]
    /\ panicked = FALSE

(* The functions of fs.c transform the state; a system call chains them and    *)
(* installs the result.  Those on the contents of an inode get a pointer to     *)
(* its entry in the table and transform what it leads to, with the disk; addr   *)
(* is the block the last of balloc and bmap returned, 0 if the disk is full.    *)

Now == [used |-> used, content |-> content, dinode |-> dinode, mem |-> mem, panic |-> FALSE]

Pointer(s, i) ==
    [used |-> s.used, content |-> s.content, ino |-> s.mem[i].ino, addr |-> 0, panic |-> s.panic]

\* The state after the inode a pointer leads to has changed.
Changed(s, i, h) ==
    [s EXCEPT !.used = h.used, !.content = h.content, !.mem[i].ino = h.ino, !.panic = h.panic]

\* After a panic the server stops: what it leaves in memory does not matter.
Become(s) ==
    IF s.panic
    THEN panicked' = TRUE /\ UNCHANGED <<used, content, dinode, mem>>
    ELSE /\ used' = s.used
         /\ content' = s.content
         /\ dinode' = s.dinode
         /\ mem' = s.mem
         /\ UNCHANGED panicked

Least(S) == CHOOSE x \in S : \A y \in S : x <= y

-----------------------------------------------------------------------------
(* Blocks: allocation and mapping. *)

\* Mutant of balloc: the bit is not set.
ballocUnmarked(h) ==
    IF Block \subseteq h.used THEN [h EXCEPT !.addr = 0]
    ELSE LET b == Least(Block \ h.used)
         IN  [h EXCEPT !.content[b] = ZeroBlock, !.addr = b]

balloc(h) ==
    IF Block \subseteq h.used THEN [h EXCEPT !.addr = 0]
    ELSE LET b == Least(Block \ h.used)
         IN  [h EXCEPT !.used = @ \cup {b}, !.content[b] = ZeroBlock, !.addr = b]

\* The block pointer k of the inode leads to, allocated if the pointer is null;
\* without a block it stays null.
AddrOf(h, k) ==
    LET a == h.ino.addrs[k]
        new == balloc(h)
    IN  IF a # 0 THEN [h EXCEPT !.addr = a] ELSE [new EXCEPT !.ino.addrs[k] = new.addr]

\* The same for entry k of the indirect block found last.
EntryOf(h, k) ==
    LET a == h.content[h.addr][k]
        new == balloc(h)
    IN  IF h.addr = 0 THEN h
        ELSE IF a # 0 THEN [h EXCEPT !.addr = a] ELSE [new EXCEPT !.content[h.addr][k] = new.addr]

bmap(h, bn) ==
    LET n1 == bn - NDIRECT
        n2 == n1 - NINDIRECT
    IN  CASE bn < NDIRECT -> AddrOf(h, bn)
          [] n1 \in 0 .. NINDIRECT - 1 -> EntryOf(AddrOf(h, NDIRECT), n1)
          [] n2 \in 0 .. NINDIRECT * NINDIRECT - 1 ->
               EntryOf(EntryOf(AddrOf(h, NDIRECT + 1), n2 \div NINDIRECT), n2 % NINDIRECT)
          [] OTHER -> [h EXCEPT !.panic = TRUE]

\* The places of an inode's pointers: which of its own pointers to follow, and
\* which entries of indirect blocks after it; Here ends the path.
Here == -1
Place ==
    {p \in (0 .. NDIRECT + 1) \X (Here .. NINDIRECT - 1) \X (Here .. NINDIRECT - 1) :
        /\ p[2] # Here => p[1] >= NDIRECT
        /\ p[3] # Here => p[1] > NDIRECT /\ p[2] # Here}

\* Entry k of the indirect block b, or word k of the data block b.
At(c, b, k) == IF b = 0 THEN 0 ELSE c[b][k]

Ptr(c, ino, p) ==
    LET a == ino.addrs[p[1]]
        b == At(c, a, p[2])
    IN  IF p[2] = Here THEN a ELSE IF p[3] = Here THEN b ELSE At(c, b, p[3])

\* The pointers that are not null, by their places, and the blocks they lead to.
Pointers(c, ino) ==
    LET set == {p \in Place : Ptr(c, ino, p) # 0} IN [p \in set |-> Ptr(c, ino, p)]
BlocksOf(c, ino) == Range(Pointers(c, ino))

\* The place bmap looks at for block bn of a file.
DataPlace(bn) ==
    LET n1 == bn - NDIRECT
        n2 == n1 - NINDIRECT
    IN  IF bn < NDIRECT THEN <<bn, Here, Here>>
        ELSE IF n1 < NINDIRECT THEN <<NDIRECT, n1, Here>>
        ELSE <<NDIRECT + 1, n2 \div NINDIRECT, n2 % NINDIRECT>>

\* Word o of a file as the block pointers say; a hole reads as zero.
WordAt(c, ino, o) == At(c, Ptr(c, ino, DataPlace(o \div BSIZE)), o % BSIZE)

-----------------------------------------------------------------------------
(* The inode table. *)

iupdate(s, i) == [s EXCEPT !.dinode[i] = s.mem[i].ino]

\* bfree of every block, one after the other; panic("freeing free block") when
\* one is not marked, or no longer because it was met before.
bfreeAll(s, ino) ==
    LET ptrs == Pointers(s.content, ino)
    IN  IF IsInjective(ptrs) /\ Range(ptrs) \subseteq s.used THEN [s EXCEPT !.used = @ \ Range(ptrs)]
        ELSE [s EXCEPT !.panic = TRUE]

\* The double indirect block is freed, but the pointer set to null after it is
\* addrs[NDIRECT] once more: addrs[NDIRECT + 1] keeps its value.
itrunc(s, i) ==
    LET ino == s.mem[i].ino
        left == [NoAddrs EXCEPT ![NDIRECT + 1] = ino.addrs[NDIRECT + 1]]
    IN  iupdate([bfreeAll(s, ino) EXCEPT !.mem[i].ino = [ino EXCEPT !.addrs = left, !.size = 0]], i)

iget(s, i) == [s EXCEPT !.mem[i].ref = @ + 1]

\* panic("ilock"), panic("ilock: no type")
ilock(s, i) ==
    IF s.mem[i].ref < 1 THEN [s EXCEPT !.panic = TRUE]
    ELSE IF s.mem[i].valid THEN s
    ELSE [s EXCEPT !.mem[i] = [@ EXCEPT !.valid = TRUE, !.ino = s.dinode[i]],
                   !.panic = @ \/ s.dinode[i].type = 0]

\* Mutant of iput: the inode is freed without its blocks.
iputWithoutTrunc(s, i) ==
    LET e == s.mem[i]
        freed == iupdate([s EXCEPT !.mem[i].ino.type = 0], i)
        t == IF e.ref = 1 /\ e.valid /\ e.ino.nlink = 0 THEN freed ELSE s
    IN  IF e.ref = 1 THEN [t EXCEPT !.mem[i] = NoEntry]
        ELSE [t EXCEPT !.mem[i].ref = @ - 1]

iput(s, i) ==
    LET e == s.mem[i]
        freed == iupdate([itrunc(s, i) EXCEPT !.mem[i].ino.type = 0], i)
        t == IF e.ref = 1 /\ e.valid /\ e.ino.nlink = 0 THEN freed ELSE s
    IN  IF e.ref = 1 THEN [t EXCEPT !.mem[i] = NoEntry]
        ELSE [t EXCEPT !.mem[i].ref = @ - 1]

\* The first free inode on disk, wiped and given a type; inum = 0 if none.
ialloc(s, type) ==
    LET free == {i \in Inum : s.dinode[i].type = 0}
        i == Least(free)
    IN  IF free = {} THEN [st |-> s, inum |-> 0]
        ELSE [st |-> iget([s EXCEPT !.dinode[i] = [FreeInode EXCEPT !.type = type]], i),
              inum |-> i]

-----------------------------------------------------------------------------
(* Contents. *)

\* Mutant of ReadWord: a hole ends the read, whether or not the disk is full.
ReadWordUntilHole(acc, o) ==
    LET a == Ptr(acc.at.content, acc.at.ino, DataPlace(o \div BSIZE))
    IN  IF acc.stop THEN acc
        ELSE IF a = 0 THEN [acc EXCEPT !.stop = TRUE]
        ELSE [acc EXCEPT !.words = Append(@, acc.at.content[a][o % BSIZE])]

\* One word of a read or a write; without a block the loop ends.
ReadWord(acc, o) ==
    LET g == bmap(acc.at, o \div BSIZE)
    IN  IF acc.stop THEN acc
        ELSE IF g.addr = 0 THEN [acc EXCEPT !.at = g, !.stop = TRUE]
        ELSE [acc EXCEPT !.at = g, !.words = Append(@, g.content[g.addr][o % BSIZE])]

WriteWord(acc, w) ==
    LET g == bmap(acc.at, acc.off \div BSIZE)
    IN  IF acc.stop THEN acc
        ELSE IF g.addr = 0 THEN [acc EXCEPT !.at = g, !.stop = TRUE]
        ELSE [acc EXCEPT !.at = [g EXCEPT !.content[g.addr][acc.off % BSIZE] = w], !.off = @ + 1]

ReadLoop(h, off, last) ==
    LET loop[n \in 0 .. last - off] ==
            IF n = 0 THEN [at |-> h, words |-> <<>>, stop |-> FALSE]
            ELSE ReadWord(loop[n - 1], off + n - 1)
    IN  loop[last - off]

WriteLoop(h, off, ws) ==
    LET loop[n \in 0 .. Len(ws)] ==
            IF n = 0 THEN [at |-> h, off |-> off, stop |-> FALSE]
            ELSE WriteWord(loop[n - 1], ws[n])
    IN  loop[Len(ws)]

\* readi: the words read, and what the pointer leads to, which changes when bmap
\* fills a hole.
readi(h, off, n) ==
    LET size == h.ino.size
        last == IF off > size THEN off ELSE IF off + n > size THEN size ELSE off + n
    IN  ReadLoop(h, off, last)

\* Mutant of Grown: the size becomes the end of the write even if the file is
\* longer.
GrownOrShrunk(ino, end) == [ino EXCEPT !.size = end]

\* The inode after a write that ended at end.
Grown(ino, end) == [ino EXCEPT !.size = IF end > @ THEN end ELSE @]

\* Mutant of writei: the inode is changed in the table only.
writeiTableOnly(s, i, off, ws) ==
    LET done == WriteLoop(Pointer(s, i), off, ws)
        h == [done.at EXCEPT !.ino = Grown(@, done.off)]
    IN  IF off + Len(ws) > MAXFILE * BSIZE THEN [st |-> s, n |-> -1]
        ELSE [st |-> Changed(s, i, h), n |-> done.off - off]

\* Mutant of writei: no check against the largest size.
writeiUnchecked(s, i, off, ws) ==
    LET done == WriteLoop(Pointer(s, i), off, ws)
        h == [done.at EXCEPT !.ino = Grown(@, done.off)]
    IN  [st |-> iupdate(Changed(s, i, h), i), n |-> done.off - off]

\* writei: the state and the number of words written, -1 beyond MAXFILE.  The
\* inode is written to disk even if the size stays.
writei(s, i, off, ws) ==
    LET done == WriteLoop(Pointer(s, i), off, ws)
        h == [done.at EXCEPT !.ino = Grown(@, done.off)]
    IN  IF off + Len(ws) > MAXFILE * BSIZE THEN [st |-> s, n |-> -1]
        ELSE [st |-> iupdate(Changed(s, i, h), i), n |-> done.off - off]

-----------------------------------------------------------------------------
(* The root directory. *)

\* The entries of the directory.  It has no holes: reading it changes nothing.
Entry(s, o) == WordAt(s.content, s.mem[ROOTINO].ino, o)

DirOffsets(s) == 0 .. s.mem[ROOTINO].ino.size - 1

\* dirlookup: where the entry of file i is, -1 if it has none.  The lookup of
\* a path takes a reference to the root and gives it back.
dirlookup(s, i) ==
    LET at == {o \in DirOffsets(s) : Entry(s, o) = i}
    IN  IF at = {} THEN -1 ELSE Least(at)

\* dirlink: the first empty entry, or a new one at the end.
dirlink(s, i) ==
    LET empty == {o \in DirOffsets(s) : Entry(s, o) = 0}
        off == IF empty = {} THEN s.mem[ROOTINO].ino.size ELSE Least(empty)
    IN  writei(s, ROOTINO, off, <<i>>)

\* The state once the root is locked, as every path lookup does first.
Rooted == ilock(Now, ROOTINO)

Named(i) == dirlookup(Rooted, i) # -1

-----------------------------------------------------------------------------
(* System calls. *)

\* Mutant of OpenCreate: the failure path leaves the inode its link.
OpenCreateLinkKept ==
    /\ ~panicked
    /\ LET a == ialloc(Rooted, 2)
           i == a.inum
           t == ilock(a.st, i)
           fresh == iupdate([t EXCEPT !.mem[i].ino = [@ EXCEPT !.nlink = 1, !.size = 0]], i)
           link == dirlink(fresh, i)
       IN  IF i = 0 THEN Become(Rooted) /\ UNCHANGED opens
           ELSE IF link.n # 1 THEN Become(iput(link.st, i)) /\ UNCHANGED opens
           ELSE Become(link.st) /\ opens' = [opens EXCEPT ![i] = 1]

\* open(path, O_CREAT) of a new name: create(), with its failure path when the
\* directory cannot grow.
OpenCreate ==
    /\ ~panicked
    /\ LET a == ialloc(Rooted, 2)
           i == a.inum
           t == ilock(a.st, i)
           fresh == iupdate([t EXCEPT !.mem[i].ino = [@ EXCEPT !.nlink = 1, !.size = 0]], i)
           link == dirlink(fresh, i)
           undone == iput(iupdate([link.st EXCEPT !.mem[i].ino.nlink = 0], i), i)
       IN  IF i = 0 THEN Become(Rooted) /\ UNCHANGED opens
           ELSE IF link.n # 1 THEN Become(undone) /\ UNCHANGED opens
           ELSE Become(link.st) /\ opens' = [opens EXCEPT ![i] = 1]

\* open(path) of an existing file.
Open(i) ==
    /\ ~panicked /\ Named(i) /\ mem[i].ref < MaxRef
    /\ Become(ilock(iget(Rooted, i), i))
    /\ opens' = [opens EXCEPT ![i] = @ + 1]

\* open(path, O_TRUNC) of an existing file.
OpenTrunc(i) ==
    /\ ~panicked /\ Named(i) /\ mem[i].ref < MaxRef
    /\ Become(itrunc(ilock(iget(Rooted, i), i), i))
    /\ opens' = [opens EXCEPT ![i] = @ + 1]

\* lstat(path), and open(path, O_CREAT) of an existing name, which fails: both
\* take a reference to the inode, do not lock it and never give it back.
LookUp(i) ==
    /\ ~panicked /\ Named(i) /\ mem[i].ref < MaxRef
    /\ Become(iget(Rooted, i))
    /\ UNCHANGED opens

\* close(fd): the last file on the inode drops its reference.
Close(i) ==
    /\ ~panicked /\ opens[i] > 0
    /\ Become(iput(Now, i))
    /\ opens' = [opens EXCEPT ![i] = @ - 1]

\* read(fd) and pread(fd): only what bmap does to the state matters here.
Read(i, off, n) ==
    /\ ~panicked /\ opens[i] > 0
    /\ LET s == ilock(Now, i)
       IN  Become(Changed(s, i, readi(Pointer(s, i), off, n).at))
    /\ UNCHANGED opens

Write(i, off, ws) ==
    /\ ~panicked /\ opens[i] > 0
    /\ Become(writei(ilock(Now, i), i, off, ws).st)
    /\ UNCHANGED opens

\* unlink(path); panic("unlink: nlink < 1") and panic("unlink: writei").
Unlink(i) ==
    /\ ~panicked /\ Named(i)
    /\ LET s == ilock(iget(Rooted, i), i)
           w == writei(s, ROOTINO, dirlookup(s, i), <<0>>)
           fewer == iupdate([w.st EXCEPT !.mem[i].ino.nlink = @ - 1], i)
           bad == s.mem[i].ino.nlink < 1 \/ w.n # 1
       IN  Become(iput([fewer EXCEPT !.panic = @ \/ bad], i))
    /\ UNCHANGED opens

-----------------------------------------------------------------------------
(* Everything applications can do. *)

Length == 1 .. MaxLen
Words == UNION {[1 .. n -> Word] : n \in Length}

\* open without O_TRUNC, close, write, unlink, and the calls that look up a name.
Basic ==
    \/ OpenCreate
    \/ \E i \in File : Open(i) \/ LookUp(i) \/ Close(i) \/ Unlink(i)
    \/ \E i \in File, off \in Offset, ws \in Words : Write(i, off, ws)

Next ==
    \/ Basic
    \/ \E i \in File : OpenTrunc(i)
    \/ \E i \in File, off \in ReadOffset, n \in Length : Read(i, off, n)

Spec == Init /\ [][Next]_vars

-----------------------------------------------------------------------------
(* Applications that stay clear of the defect of itrunc. *)

\* The inode as the file system sees it: the table's copy once it is loaded.
Inode(i) == IF mem[i].valid THEN mem[i].ino ELSE dinode[i]

\* A file that reaches the double indirect block is never opened with O_TRUNC.
TruncSmall(i) == Inode(i).addrs[NDIRECT + 1] = 0 /\ OpenTrunc(i)

SmallTruncNext ==
    \/ Basic
    \/ \E i \in File : TruncSmall(i)
    \/ \E i \in File, off \in ReadOffset, n \in Length : Read(i, off, n)

SmallTruncSpec == Init /\ [][SmallTruncNext]_vars

-----------------------------------------------------------------------------
(* Properties *)

InodeType == [type : 0 .. 2, nlink : 0 .. 1, size : 0 .. MAXFILE * BSIZE,
              addrs : [0 .. NDIRECT + 1 -> 0 .. NBLOCKS]]

\* The variables have their types; sizes stay below MAXFILE blocks.
TypeOK ==
    /\ used \subseteq Block
    /\ content \in [Block -> [0 .. NINDIRECT - 1 -> Word \cup (0 .. NBLOCKS) \cup Inum]]
    /\ dinode \in [Inum -> InodeType]
    /\ mem \in [Inum -> [ref : Nat, valid : BOOLEAN, ino : InodeType]]
    /\ opens \in [Inum -> Nat]
    /\ panicked \in BOOLEAN

\* The pointers of every allocated inode (what a free one points to is wiped by
\* ialloc), by inode and place.
Allocated == {i \in Inum : Inode(i).type # 0}
AllPointers ==
    LET set == {x \in Allocated \X Place : Ptr(content, Inode(x[1]), x[2]) # 0}
    IN  [x \in set |-> Ptr(content, Inode(x[1]), x[2])]

\* No block is reachable twice: not from two files, not as data and as an
\* indirect block, not through two pointers of one file.
NoSharedBlock == IsInjective(AllPointers)

\* Every block an inode points to is marked in the bitmap, so balloc can never
\* hand it out again.
ReferencedIsUsed == Range(AllPointers) \subseteq used

\* Every block that is reached has one owner, for good.
BlocksOwned == NoSharedBlock /\ ReferencedIsUsed

\* "Must be called after every change to an ip->xxx field that lives on disk"
\* (iupdate in fs.c): between system calls the table and the disk agree.
DiskInodeCurrent == \A i \in Inum : mem[i].valid => mem[i].ino = dinode[i]

\* Blocks marked in the bitmap that belong to no inode.
Lost == used \ Range(AllPointers)

\* No call loses a block, also when it fails half way on a full disk or is the
\* last to drop an inode; and none leaves the table ahead of the disk but a
\* read, which fills holes and does not write the inode.  (Once it has, the
\* blocks go when the table entry does.)
BlocksKept ==
    [][DiskInodeCurrent =>
         /\ Lost' \subseteq Lost
         /\ \/ DiskInodeCurrent'
            \/ \E i \in File, off \in ReadOffset, n \in Length : Read(i, off, n)]_vars

\* None of the panics of the inode layer is reached: freeing a free block,
\* locking an inode without type, unlinking a file without links, a block
\* number out of range.
NoPanic == ~panicked

\* A file with neither a name nor a reference is free, and a file that has one
\* of them is not: ialloc cannot hand out an inode that is still in use.
FreedWithLastReference ==
    \A i \in File :
        (dinode[i].type = 0) <=> (mem[i].ref = 0 /\ ~Named(i))

\* What the table knows of an inode is at most some pointers ahead of the disk,
\* as reads fill holes, and an open file has a loaded entry.
TableInv ==
    \A i \in Inum :
        /\ mem[i].ref = 0 => mem[i] = NoEntry
        /\ mem[i].valid =>
             /\ mem[i].ino = [dinode[i] EXCEPT !.addrs = mem[i].ino.addrs]
             /\ \A k \in 0 .. NDIRECT + 1 : dinode[i].addrs[k] \in {0, mem[i].ino.addrs[k]}
        /\ opens[i] <= mem[i].ref
        /\ opens[i] > 0 => mem[i].valid

\* A file has its link as long as it has its name; a free inode has neither name
\* nor reference, and one without a name is loaded, so that iput sees its nlink.
NamesInv ==
    /\ dinode[ROOTINO].type = 1 /\ mem[ROOTINO].ref > 0
    /\ \A i \in File :
         /\ dinode[i].type = 0 => mem[i].ref = 0 /\ ~Named(i)
         /\ dinode[i].type # 0 => (dinode[i].nlink = 1 <=> Named(i))
         /\ dinode[i].type # 0 /\ ~Named(i) => mem[i].valid

\* The root directory has no holes and names a file once.
DirInv ==
    /\ \A o \in DirOffsets(Rooted) :
         Ptr(content, Inode(ROOTINO), DataPlace(o \div BSIZE)) # 0
    /\ \A o, q \in DirOffsets(Rooted) :
         Entry(Rooted, o) = Entry(Rooted, q) /\ Entry(Rooted, o) \in File => o = q

\* Blocks, table, links and the directory.
StructInv == TypeOK /\ BlocksOwned /\ TableInv /\ NamesInv /\ DirInv /\ NoPanic

\* What a file has behind its end is zero, so that it can grow over it; a free
\* inode is empty; and what the table knows of a file that the disk does not is
\* zero, so that it can be forgotten.
DataInv ==
    \A i \in File :
        /\ dinode[i].type = 0 => dinode[i].size = 0
        /\ dinode[i].type # 0 => \A o \in 0 .. MAXFILE * BSIZE - 1 :
             /\ o >= Inode(i).size => WordAt(content, Inode(i), o) = 0
             /\ WordAt(content, dinode[i], o) = WordAt(content, Inode(i), o)

\* The inductive invariant.
InodeInv == StructInv /\ DataInv

\* What a file contains, as the block pointers of its inode say.
Contents(i) == LET ino == Inode(i) IN [k \in 1 .. ino.size |-> WordAt(content, ino, k - 1)]

\* read() returns what the file contains at that place.  It may stop early, at a
\* hole, but only when balloc has no block left to put there: it has tried.
ReadReturnsContents ==
    \A i \in File, off \in ReadOffset :
        opens[i] > 0 /\ off < Inode(i).size =>
            LET d == readi(Pointer(ilock(Now, i), i), off, MaxLen)
                size == Len(Contents(i))
                last == IF size < off + MaxLen THEN size ELSE off + MaxLen
                want == SubSeq(Contents(i), off + 1, last)
            IN  /\ IsPrefix(d.words, want)
                /\ d.words # want => d.at.used = Block

\* The files as the file store knows them.
FileStatus == [i \in File |-> IF dinode[i].type = 0 THEN "free"
                              ELSE IF Named(i) THEN "linked" ELSE "unlinked"]
FileRefs == [i \in File |-> mem[i].ref]
FileContents == [i \in File |-> Contents(i)]

FS == INSTANCE FileStore WITH status <- FileStatus, refs <- FileRefs, file <- FileContents

\* The system calls implement the file store: block allocation, sharing and
\* reuse of blocks, indirection, full disks and the two copies of the inode are
\* invisible to applications.
ImplementsFileStore == FS!Spec
===============================================================================
