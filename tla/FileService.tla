------------------------------ MODULE FileService ------------------------------
(***************************************************************************)
(* The system calls of xv6fs as its client sees them (xv6fs/src/sysfile.c,  *)
(* file.c): file descriptors, open files with their offsets, and the slots  *)
(* of the inode table (fs.c) they refer to.                                 *)
(*                                                                          *)
(* Contents and blocks are the subject of InodeBlocks.  Here an inode has a *)
(* type, a link count and a size; a read or a write may stop early, which   *)
(* is what a full disk does to it.  Sizes and offsets are counted in units  *)
(* of which filewrite passes CHUNK to one writei; an offset is an unsigned  *)
(* number below UINT, which stands for 2^32.                                *)
(*                                                                          *)
(* The slot of the root directory, held by main() for ever, is left out:    *)
(* the Slots are the others.  A name is the inode number it stands for.     *)
(***************************************************************************)
EXTENDS Integers, FiniteSets

CONSTANTS
    NINODE,     \* slots of the inode table beside the root's
    NOFILE,     \* file descriptors are 3 .. NOFILE - 1
    NFILE,      \* open files
    File,       \* inode numbers of the disk, without the root's
    MAXSIZE,    \* MAXFILE * BSIZE
    CHUNK,      \* what filewrite passes to one writei
    UINT,       \* 2^32: offsets are taken modulo UINT
    Mode,       \* how files are opened: "RDONLY", "WRONLY", "RDWR"
    Count,      \* lengths of reads and writes
    Pos,        \* positions for lseek, pread and pwrite
    Back,       \* distances a client seeks backwards
    MaxRef      \* bound on the references to an inode

ASSUME ServiceAssumption ==
    /\ NINODE \in Nat \ {0} /\ NOFILE \in Nat /\ NFILE \in Nat \ {0}
    /\ File \subseteq Nat \ {0} /\ IsFiniteSet(File) /\ File # {}
    /\ MAXSIZE \in Nat \ {0} /\ CHUNK \in Nat \ {0}
    /\ UINT \in Nat /\ 2 * MAXSIZE < UINT
    /\ Mode \subseteq {"RDONLY", "WRONLY", "RDWR"}
    /\ Count \subseteq 1 .. UINT - 1 /\ Pos \subseteq Nat /\ Back \subseteq Nat
    /\ MaxRef \in Nat \ {0}

Slot == 1 .. NINODE
Fd == 3 .. NOFILE - 1
OpenFile == 1 .. NFILE

VARIABLES
    itable,     \* itable[k]: slot k of the inode table
    dinode,     \* dinode[i]: inode i on disk
    dir,        \* the files the root directory names
    ftable,     \* ftable[f]: open file f
    ofile,      \* ofile[fd]: the open file of a descriptor, 0 if it is closed
    ret,        \* what the last call returned: a number, or a stat
    halted      \* the server stopped: "no"; "no inodes", the panic of iget;
                \* "panic", any other; or "assert"

vars == <<itable, dinode, dir, ftable, ofile, ret, halted>>

FreeInode == [type |-> 0, nlink |-> 0, size |-> 0]
NoFile == [ref |-> 0, ip |-> 0, off |-> 0, readable |-> FALSE, writable |-> FALSE]

Number(n) == [n |-> n, stat |-> [ino |-> 0, inode |-> FreeInode]]
Error == Number(-1)

\* The tables of a server that has just started, and an empty disk.
Init ==
    /\ itable = [k \in Slot |-> [ref |-> 0, inum |-> 0, valid |-> FALSE, ino |-> FreeInode]]
    /\ dinode = [i \in File |-> FreeInode]
    /\ dir = {}
    /\ ftable = [f \in OpenFile |-> NoFile]
    /\ ofile = [fd \in Fd |-> 0]
    /\ ret = Number(0)
    /\ halted = "no"

Least(S) == CHOOSE x \in S : \A y \in S : x <= y
Greatest(S) == CHOOSE x \in S : \A y \in S : x >= y

-----------------------------------------------------------------------------
(* The inode table.  The functions of fs.c get a pointer to a slot of it and   *)
(* change the slot and, on disk, the inode it stands for.  Here they transform  *)
(* that: a system call chains them and installs the result with Become.        *)

\* What a pointer to slot k leads to.
At(k) ==
    [slot |-> k, ref |-> itable[k].ref, inum |-> itable[k].inum, valid |-> itable[k].valid,
     ino |-> itable[k].ino, disk |-> dinode[itable[k].inum], panic |-> FALSE]

NoInode ==
    [slot |-> 0, ref |-> 0, inum |-> 0, valid |-> FALSE,
     ino |-> FreeInode, disk |-> FreeInode, panic |-> TRUE]

Become(s) ==
    IF s.panic
    THEN /\ halted' = IF s.slot = 0 THEN "no inodes" ELSE "panic"
         /\ UNCHANGED <<itable, dinode>>
    ELSE /\ itable' = [itable EXCEPT ![s.slot] =
                          [ref |-> s.ref, inum |-> s.inum, valid |-> s.valid, ino |-> s.ino]]
         /\ dinode' = [dinode EXCEPT ![s.inum] = s.disk]
         /\ UNCHANGED halted

HeldSlots(i) == {k \in Slot : itable[k].ref > 0 /\ itable[k].inum = i}
FreeSlots == {k \in Slot : itable[k].ref = 0}

Recycled(k, i) ==
    [slot |-> k, ref |-> 1, inum |-> i, valid |-> FALSE,
     ino |-> itable[k].ino, disk |-> dinode[i], panic |-> FALSE]

\* Mutant of iget: the search ends at the first free slot.
igetFirstFree(i) ==
    LET usable == {k \in Slot : itable[k].ref = 0 \/ itable[k].inum = i}
        k == Least(usable)
    IN  IF usable = {} THEN NoInode
        ELSE IF itable[k].ref > 0 THEN [At(k) EXCEPT !.ref = @ + 1]
        ELSE Recycled(k, i)

\* panic("iget: no inodes").  A recycled slot keeps the fields of the inode
\* that used it before, with valid 0.
iget(i) ==
    IF HeldSlots(i) # {} THEN [At(Least(HeldSlots(i))) EXCEPT !.ref = @ + 1]
    ELSE IF FreeSlots # {} THEN Recycled(Least(FreeSlots), i)
    ELSE NoInode

\* panic("ilock"), panic("ilock: no type")
ilock(s) ==
    IF s.panic \/ s.ref < 1 THEN [s EXCEPT !.panic = TRUE]
    ELSE IF s.valid THEN s
    ELSE [s EXCEPT !.valid = TRUE, !.ino = s.disk, !.panic = (s.disk.type = 0)]

\* Mutant of Update: iupdate is forgotten.
UpdateTableOnly(s, ino) == [s EXCEPT !.ino = ino]

\* Change the inode in its slot and write it to disk: iupdate().
Update(s, ino) == [s EXCEPT !.ino = ino, !.disk = ino]

\* The last reference to an inode without a link frees it.
iput(s) ==
    LET last == s.ref = 1 /\ s.valid /\ s.ino.nlink = 0
        t == IF last THEN [Update(s, FreeInode) EXCEPT !.valid = FALSE] ELSE s
    IN  IF s.panic THEN s ELSE [t EXCEPT !.ref = @ - 1]

\* Free inodes are handed out in order; create() locks it and gives it a link.
Create(i) == ilock([iget(i) EXCEPT !.disk = [type |-> 2, nlink |-> 1, size |-> 0]])

Truncated(s) == Update(s, [s.ino EXCEPT !.size = 0])

-----------------------------------------------------------------------------
(* open() and close() *)

FreeFiles == {f \in OpenFile : ftable[f].ref = 0}
FreeFds == {fd \in Fd : ofile[fd] = 0}

\* Mutant of Install: without a descriptor the inode keeps its reference.
InstallKeepingInode(s, m) ==
    IF s.panic THEN Become(s) /\ UNCHANGED <<ftable, ofile, ret>>
    ELSE IF FreeFiles = {} \/ FreeFds = {}
    THEN Become(s) /\ ret' = Error /\ UNCHANGED <<ftable, ofile>>
    ELSE /\ Become(s)
         /\ ftable' = [ftable EXCEPT ![Least(FreeFiles)] =
                          [ref |-> 1, ip |-> s.slot, off |-> 0,
                           readable |-> m # "WRONLY", writable |-> m # "RDONLY"]]
         /\ ofile' = [ofile EXCEPT ![Least(FreeFds)] = Least(FreeFiles)]
         /\ ret' = Number(Least(FreeFds))

\* The end of xv6fs_open: filealloc, fdalloc, and the failure path.
Install(s, m) ==
    IF s.panic THEN Become(s) /\ UNCHANGED <<ftable, ofile, ret>>
    ELSE IF FreeFiles = {} \/ FreeFds = {}
    THEN Become(iput(s)) /\ ret' = Error /\ UNCHANGED <<ftable, ofile>>
    ELSE /\ Become(s)
         /\ ftable' = [ftable EXCEPT ![Least(FreeFiles)] =
                          [ref |-> 1, ip |-> s.slot, off |-> 0,
                           readable |-> m # "WRONLY", writable |-> m # "RDONLY"]]
         /\ ofile' = [ofile EXCEPT ![Least(FreeFds)] = Least(FreeFiles)]
         /\ ret' = Number(Least(FreeFds))

Running == halted = "no"

\* A bound for the runs.
BelowMaxRef(i) == {k \in Slot : itable[k].inum = i /\ itable[k].ref >= MaxRef} = {}

\* open(path) and open(path, O_TRUNC) of an existing file.
Open(i, m) ==
    /\ Running /\ i \in dir /\ BelowMaxRef(i)
    /\ Install(ilock(iget(i)), m)
    /\ UNCHANGED dir

OpenTrunc(i, m) ==
    /\ Running /\ i \in dir /\ BelowMaxRef(i)
    /\ LET s == ilock(iget(i))
           opens == FreeFiles # {} /\ FreeFds # {} /\ ~s.panic
       IN  Install(IF opens THEN Truncated(s) ELSE s, m)
    /\ UNCHANGED dir

\* open(path, O_CREAT) of a new name; create() fails when the disk has no inode.
OpenCreate(m) ==
    /\ Running
    /\ LET free == {i \in File : dinode[i].type = 0}
       IN  IF free = {} THEN ret' = Error /\ UNCHANGED <<itable, dinode, dir, ftable, ofile, halted>>
           ELSE /\ Install(Create(Least(free)), m)
                /\ dir' = IF halted' = "no" THEN dir \cup {Least(free)} ELSE dir

\* Mutant of OpenCreateFails: the link count stays 1.
OpenCreateFailsLinked ==
    /\ Running
    /\ \E i \in File :
        /\ dinode[i].type = 0
        /\ \A j \in File : dinode[j].type = 0 => i <= j
        /\ Become(iput(Create(i)))
    /\ ret' = Error
    /\ UNCHANGED <<dir, ftable, ofile>>

\* The same when the directory cannot grow: create() gives the inode back.
OpenCreateFails ==
    /\ Running
    /\ \E i \in File :
        /\ dinode[i].type = 0
        /\ \A j \in File : dinode[j].type = 0 => i <= j
        /\ LET s == Create(i)
           IN  Become(IF s.panic THEN s
                      ELSE iput(Update(s, [s.ino EXCEPT !.nlink = 0])))
    /\ ret' = Error
    /\ UNCHANGED <<dir, ftable, ofile>>

\* Mutant of OpenExisting: the reference is given back twice.
OpenExistingPutTwice(i) ==
    /\ Running /\ i \in dir /\ BelowMaxRef(i)
    /\ Become(iput(iput(iget(i))))
    /\ ret' = Error
    /\ UNCHANGED <<dir, ftable, ofile>>

\* open(path, O_CREAT) of an existing name: create() looks it up, returns 0 and
\* keeps the reference that dirlookup took.
OpenExisting(i) ==
    /\ Running /\ i \in dir /\ BelowMaxRef(i)
    /\ Become(iget(i))
    /\ ret' = Error
    /\ UNCHANGED <<dir, ftable, ofile>>

Close(fd) ==
    /\ Running /\ ofile[fd] # 0
    /\ Become(iput(At(ftable[ofile[fd]].ip)))
    /\ ftable' = [ftable EXCEPT ![ofile[fd]] = NoFile]
    /\ ofile' = [ofile EXCEPT ![fd] = 0]
    /\ ret' = Number(0)
    /\ UNCHANGED dir

\* Mutant of Unlink: the directory entry stays.
UnlinkKeepingName(i) ==
    /\ Running /\ i \in dir /\ BelowMaxRef(i)
    /\ LET s == ilock(iget(i))
           ino == s.ino
       IN  Become(IF s.panic \/ ino.nlink < 1 THEN [s EXCEPT !.panic = TRUE]
                  ELSE iput(Update(s, [ino EXCEPT !.nlink = @ - 1])))
    /\ ret' = Number(0)
    /\ UNCHANGED <<dir, ftable, ofile>>

\* unlink(path); panic("unlink: nlink < 1").
Unlink(i) ==
    /\ Running /\ i \in dir /\ BelowMaxRef(i)
    /\ LET s == ilock(iget(i))
           ino == s.ino
       IN  Become(IF s.panic \/ ino.nlink < 1 THEN [s EXCEPT !.panic = TRUE]
                  ELSE iput(Update(s, [ino EXCEPT !.nlink = @ - 1])))
    /\ dir' = IF halted' = "no" THEN dir \ {i} ELSE dir
    /\ ret' = Number(0)
    /\ UNCHANGED <<ftable, ofile>>

-----------------------------------------------------------------------------
(* Status *)

stati(s) == [n |-> 0, stat |-> [ino |-> s.inum, inode |-> s.ino]]

Fstat(fd) ==
    /\ Running /\ ofile[fd] # 0
    /\ LET s == ilock(At(ftable[ofile[fd]].ip))
       IN  Become(s) /\ ret' = stati(s)
    /\ UNCHANGED <<dir, ftable, ofile>>

\* lstat(path): neither ilock before stati nor iput after it.
Lstat(i) ==
    /\ Running /\ i \in dir /\ BelowMaxRef(i)
    /\ LET s == iget(i)
       IN  Become(s) /\ ret' = stati(s)
    /\ UNCHANGED <<dir, ftable, ofile>>

\* A path that goes on below a file: namex locks the file, finds that it is no
\* directory and gives it back; every call with such a path fails.
LookThrough(i) ==
    /\ Running /\ i \in dir
    /\ Become(iput(ilock(iget(i))))
    /\ ret' = Error
    /\ UNCHANGED <<dir, ftable, ofile>>

-----------------------------------------------------------------------------
(* Offsets, reads and writes.  These act on open file f. *)

Size(f) == itable[ftable[f].ip].ino.size

\* The uint offset as the int that fileseek returns.
AsInt(off) == IF 2 * off >= UINT THEN off - UINT ELSE off

\* Mutant of ReadAt: the offset is compared with the size only to shorten a
\* read, as if size - off could not be negative.
ReadAtUnchecked(f, off, n) ==
    LET size == Size(f)
        avail == IF off <= size /\ off + n > size THEN size - off ELSE n
    IN  IF ftable[f].readable
        THEN \E r \in 0 .. avail :
                /\ ftable' = [ftable EXCEPT ![f].off = off + r]
                /\ ret' = Number(r)
        ELSE ftable' = [ftable EXCEPT ![f].off = off] /\ ret' = Error

\* readi and fileread at offset off: r units; f->off moves to the end of them.
ReadAt(f, off, n) ==
    LET size == Size(f)
        avail == IF off > size \/ off + n >= UINT THEN 0
                 ELSE IF off + n > size THEN size - off ELSE n
    IN  IF ftable[f].readable
        THEN \E r \in 0 .. avail :
                /\ ftable' = [ftable EXCEPT ![f].off = off + r]
                /\ ret' = Number(r)
        ELSE ftable' = [ftable EXCEPT ![f].off = off] /\ ret' = Error

\* Of n units at off, those in chunks that writei does not refuse.
Accepted(off, n) ==
    Greatest({0} \cup {e \in 1 .. n : /\ e % CHUNK = 0 \/ e = n
                                      /\ off + e <= MAXSIZE})

\* What filewrite returns after k units, of n: the chunks that were complete.
Reported(k, n) == IF k = n THEN n ELSE k - (k % CHUNK)

\* writei and filewrite at offset off: k units are written, then the disk is
\* full, or writei refuses the next chunk, or all is done.
WriteAt(f, off, n) ==
    LET acc == Accepted(off, n)
        ip == ftable[f].ip
        ino == itable[ip].ino
        Grown(end) == [ino EXCEPT !.size = IF end > @ THEN end ELSE @]
    IN  IF ftable[f].writable
        THEN \E k \in 0 .. acc :
                /\ ftable' = [ftable EXCEPT ![f].off = off + k]
                /\ ret' = Number(Reported(k, n))
                /\ Become(IF acc = 0 THEN At(ip) ELSE Update(At(ip), Grown(off + k)))
        ELSE /\ ftable' = [ftable EXCEPT ![f].off = off]
             /\ ret' = Error
             /\ UNCHANGED <<itable, dinode, halted>>

Read(fd, n) ==
    /\ Running /\ ofile[fd] # 0
    /\ ReadAt(ofile[fd], ftable[ofile[fd]].off, n)
    /\ UNCHANGED <<itable, dinode, dir, ofile, halted>>

Write(fd, n) ==
    /\ Running /\ ofile[fd] # 0
    /\ WriteAt(ofile[fd], ftable[ofile[fd]].off, n)
    /\ UNCHANGED <<dir, ofile>>

\* fileseek to a position that no longer fits: it is stored all the same.
SeekFails(f, off) ==
    /\ AsInt(off) < 0
    /\ ftable' = [ftable EXCEPT ![f].off = off]
    /\ ret' = Error
    /\ UNCHANGED <<itable, dinode, halted>>

\* pread and pwrite seek first, and leave the offset where they end.
Pread(fd, p, n) ==
    /\ Running /\ ofile[fd] # 0
    /\ \/ SeekFails(ofile[fd], p % UINT)
       \/ /\ AsInt(p % UINT) >= 0
          /\ ReadAt(ofile[fd], p % UINT, n)
          /\ UNCHANGED <<itable, dinode, halted>>
    /\ UNCHANGED <<dir, ofile>>

Pwrite(fd, p, n) ==
    /\ Running /\ ofile[fd] # 0
    /\ \/ SeekFails(ofile[fd], p % UINT)
       \/ AsInt(p % UINT) >= 0 /\ WriteAt(ofile[fd], p % UINT, n)
    /\ UNCHANGED <<dir, ofile>>

\* lseek relative to base: the start, the offset, or the end of the file.  The
\* assertion is made for SEEK_END only.
Seek(fd, base, d, end) ==
    LET off == (base + d) % UINT
    IN  /\ ftable' = [ftable EXCEPT ![ofile[fd]].off = off]
        /\ ret' = Number(AsInt(off))
        /\ IF end /\ off > base THEN halted' = "assert" ELSE UNCHANGED halted
        /\ UNCHANGED <<itable, dinode, dir, ofile>>

Distance == Pos \cup {-d : d \in Back}

Lseek(fd, d) ==
    /\ Running /\ ofile[fd] # 0
    /\ \/ Seek(fd, 0, d, FALSE)
       \/ Seek(fd, ftable[ofile[fd]].off, d, FALSE)
       \/ Seek(fd, Size(ofile[fd]), d, TRUE)

-----------------------------------------------------------------------------
\* What a client can do.
Basic ==
    \/ \E m \in Mode : OpenCreate(m) \/ \E i \in File : Open(i, m) \/ OpenTrunc(i, m)
    \/ OpenCreateFails
    \/ \E i \in File : Unlink(i) \/ LookThrough(i)
    \/ \E fd \in Fd : Close(fd) \/ Fstat(fd)
    \/ \E fd \in Fd, n \in Count : Read(fd, n) \/ Write(fd, n)

Leaky == \E i \in File : Lstat(i) \/ OpenExisting(i)

Positioned ==
    \E fd \in Fd :
        \/ \E p \in Pos, n \in Count : Pread(fd, p, n) \/ Pwrite(fd, p, n)
        \/ \E d \in Distance : Lseek(fd, d)

Next == Basic \/ Leaky \/ Positioned

Spec == Init /\ [][Next]_vars

\* What a state is told apart by: neither the result of an earlier call, nor what
\* is left in a free slot of the table and in the copy of a slot not yet loaded.
View ==
    LET InUse(k) ==
            [itable[k] EXCEPT !.inum = IF itable[k].ref > 0 THEN @ ELSE 0,
                              !.valid = itable[k].ref > 0 /\ @,
                              !.ino = IF itable[k].ref > 0 /\ itable[k].valid THEN @ ELSE FreeInode]
    IN  <<[k \in Slot |-> InUse(k)], dinode, dir, ftable, ofile, halted>>

-----------------------------------------------------------------------------
(* Properties *)

InodeType == [type : {0, 2}, nlink : 0 .. 1, size : 0 .. MAXSIZE]

\* The variables have their types; offsets stay below 2^32.
TypeOK ==
    /\ itable \in [Slot -> [ref : 0 .. MaxRef, inum : File \cup {0}, valid : BOOLEAN,
                            ino : InodeType]]
    /\ dinode \in [File -> InodeType]
    /\ dir \subseteq File
    /\ ftable \in [OpenFile -> [ref : 0 .. 1, ip : Slot \cup {0}, off : 0 .. UINT - 1,
                                readable : BOOLEAN, writable : BOOLEAN]]
    /\ ofile \in [Fd -> OpenFile \cup {0}]
    /\ ret \in [n : Int, stat : [ino : File \cup {0}, inode : InodeType]]
    /\ halted \in {"no", "no inodes", "panic", "assert"}

\* An inode is in at most one slot of the table, although slots are recycled
\* and inode numbers used again: two copies would drift apart.
OneSlotPerInode ==
    \A j, k \in Slot :
        itable[j].ref > 0 /\ itable[k].ref > 0 /\ itable[j].inum = itable[k].inum => j = k

\* Every open file belongs to one descriptor, and no other file is in use: the
\* failure paths of open and the order of fdalloc and filealloc lose none.
DescriptorPerFile ==
    \A f \in OpenFile :
        Cardinality({fd \in Fd : ofile[fd] = f}) = ftable[f].ref

\* Open files on a slot.
Opens(k) == Cardinality({f \in OpenFile : ftable[f].ref > 0 /\ ftable[f].ip = k})

\* The inode of an open file is in the table, loaded, current and allocated:
\* fileseek looks at its size without locking it.
OpenInodeLoaded ==
    \A f \in OpenFile :
        ftable[f].ref > 0 =>
            LET e == itable[ftable[f].ip]
            IN  e.ref > 0 /\ e.valid /\ e.ino.type = 2 /\ e.ino = dinode[e.inum]

\* What is in use in the inode table is the only copy, and where a file is open
\* the current one.
InodeTableSound == OneSlotPerInode /\ OpenInodeLoaded

\* "Otherwise ip->ref tracks the number of in-memory pointers to the entry (open
\* files and current directories)" (fs.c).
RefsCountPointers == \A k \in Slot : itable[k].ref = Opens(k)

\* References beyond the open files, on a slot.
Kept(k) == itable[k].ref - Opens(k)

\* On every path through open, close and unlink, failing ones included, an
\* inode's references change with the open files on it.  Only lstat and an open
\* with O_CREAT of an existing name keep one, and none is given back too often.
KeptOnlyByLookups ==
    [][\A k \in Slot : Kept(k)' # Kept(k) =>
         /\ Kept(k)' = Kept(k) + 1
         /\ \E i \in File : itable'[k].inum = i /\ (Lstat(i) \/ OpenExisting(i))]_vars

\* A file on the disk has a name or a reference: nothing is lost when create()
\* fails half way or when the last of unlink and close comes.
NoOrphan ==
    \A i \in File :
        dinode[i].type # 0 =>
            i \in dir \/ \E k \in Slot : itable[k].ref > 0 /\ itable[k].inum = i

\* No open file and no inode is left without an owner on any path.
NothingAbandoned == DescriptorPerFile /\ NoOrphan

\* A slot in use has an inode of the disk, and a loaded copy is current.
HeldInv ==
    \A k \in Slot :
        itable[k].ref > 0 =>
            LET e == itable[k]
            IN  e.inum \in File /\ dinode[e.inum].type = 2 /\ (e.valid => e.ino = dinode[e.inum])

\* What has a name, has a link count and the other way round; what has none is
\* loaded in a slot, so that the last reference finds its link count.
NamesInv ==
    /\ \A i \in File :
         /\ i \in dir <=> dinode[i].nlink = 1
         /\ i \in dir => dinode[i].type = 2
    /\ \A k \in Slot : itable[k].ref > 0 /\ itable[k].inum \notin dir => itable[k].valid

\* Descriptors and open files are paired, and every open file has a reference of
\* its own to its slot.
FilesInv ==
    /\ \A fd \in Fd : ofile[fd] # 0 => ftable[ofile[fd]].ref = 1
    /\ \A fd1, fd2 \in Fd : ofile[fd1] # 0 /\ ofile[fd1] = ofile[fd2] => fd1 = fd2
    /\ \A f \in OpenFile : ftable[f].ref = 1 => \E fd \in Fd : ofile[fd] = f
    /\ \A f \in OpenFile : ftable[f].ref = 1 => ftable[f].ip \in Slot /\ itable[ftable[f].ip].valid
    /\ \A k \in Slot : Opens(k) <= itable[k].ref

\* No inode without a type is locked and no link count falls below 1.  The one
\* panic left is "iget: no inodes", and a client reaches it only with a
\* descriptor open for every slot (it has 13 of them, the table 50 slots) or
\* after calls have kept references that no open file stands for.
PanicOnlyByLeaks ==
    /\ halted # "panic"
    /\ halted = "no inodes" =>
          \/ Cardinality({fd \in Fd : ofile[fd] # 0}) >= NINODE
          \/ \E k \in Slot : Kept(k) > 0

\* The inductive invariant: slots, inodes of the disk, names, open files and
\* descriptors agree.
ServiceInv ==
    TypeOK /\ OneSlotPerInode /\ HeldInv /\ NamesInv /\ NoOrphan /\ FilesInv

\* fstat, and lstat of a file that is open, report the inode as the disk has it.
\* (lstat of another file reports what is left in the slot, for want of ilock.)
StatReportsInode ==
    [][ret'.stat.ino # 0 =>
         /\ \A fd \in Fd : Fstat(fd) => ret'.stat.inode = dinode[ret'.stat.ino]
         /\ \A i \in File :
              Lstat(i) /\ (\E f \in OpenFile : ftable[f].ref > 0 /\ itable[ftable[f].ip].inum = i)
                => ret'.stat.inode = dinode[i]]_vars

Moved(fd) == ftable'[ofile[fd]].off - ftable[ofile[fd]].off

\* write never reports more than what the offset has moved by: a client that
\* goes on from what was reported never skips a unit.
WriteNotOverstated ==
    [][\A fd \in Fd, n \in Count : ret'.n > 0 /\ Write(fd, n) => ret'.n <= Moved(fd)]_vars

\* What read, write, pread and pwrite transfer ends inside the file, whatever
\* offset a client has sought to: behind the end, negative as an int, or near
\* 2^32, where adding the length wraps around.
TransferInsideFile ==
    [][\A fd \in Fd :
         /\ ret'.n > 0
         /\ \E n \in Count :
              \/ Read(fd, n) \/ Write(fd, n)
              \/ \E p \in Pos : Pread(fd, p, n) \/ Pwrite(fd, p, n)
         => ftable'[ofile[fd]].off <= Size(ofile[fd])']_vars

\* A client can rely on what a transfer returns, whatever its offset.
TransfersSound == WriteNotOverstated /\ TransferInsideFile
===============================================================================
