--------------------------- MODULE FileServiceProofs ---------------------------
(***************************************************************************)
(* Proofs about FileService: the inductive invariant ServiceInv and what    *)
(* follows from it.                                                         *)
(***************************************************************************)
EXTENDS FileService, FiniteSetTheorems, WellFoundedInduction, TLAPS

-----------------------------------------------------------------------------
(* The least element of a set. *)

\* The searches of iget, ialloc, filealloc and fdalloc end at an element of the
\* set they search for.
LEMMA LeastIn ==
  ASSUME NEW S \in SUBSET Nat, IsFiniteSet(S), S # {}
  PROVE Least(S) \in S /\ \A y \in S : Least(S) <= y
<1> DEFINE Below(x) == {y \in S : y < x}
           T == {Below(x) : x \in S}
<1>1. T \subseteq FiniteSubsetsOf(S) /\ T # {}
  <2>1. ASSUME NEW x \in S PROVE Below(x) \in SUBSET S /\ IsFiniteSet(Below(x))
    BY FS_Subset
  <2>2. QED BY <2>1 DEF FiniteSubsetsOf
<1>2. PICK U \in T : \A V \in T : ~(<<V, U>> \in StrictSubsetOrdering(S))
  <2> HIDE DEF T
  <2>1. QED BY <1>1, FS_StrictSubsetOrderingWellFounded, WFMin
<1>3. PICK x \in S : U = Below(x)
  OBVIOUS
<1>4. ASSUME NEW y \in S, ~(x <= y) PROVE FALSE
  <2>0. x \in Nat /\ y \in Nat /\ y < x
    BY <1>4
  <2>1. \A z \in S : z < y => z < x
    BY <2>0
  <2>2. <<Below(y), Below(x)>> \in StrictSubsetOrdering(S)
    <3>1. Below(y) \subseteq Below(x)
      BY <2>1
    <3>2. y \in Below(x) /\ y \notin Below(y)
      BY <2>0
    <3>3. QED BY <3>1, <3>2 DEF StrictSubsetOrdering
  <2>3. QED BY <2>2, <1>2, <1>3
<1>5. QED BY <1>4 DEF Least

\* Numbers up to some bound are finitely many.
LEMMA LeastUpTo ==
    ASSUME NEW a \in Nat, NEW b \in Int, NEW S \in SUBSET (a .. b), S # {}
    PROVE  Least(S) \in S /\ \A y \in S : Least(S) <= y
<1>1. IsFiniteSet(a .. b)
  BY FS_Interval
<1>2. IsFiniteSet(S)
  BY <1>1, FS_Subset
<1>3. S \subseteq Nat
  OBVIOUS
<1>4. QED BY <1>2, <1>3, LeastIn

-----------------------------------------------------------------------------
(* What the functions of fs.c do to an inode and its slot. *)

\* A pointer to an inode, with the inode.
Handle ==
    [slot : Slot, ref : Nat, inum : File, valid : BOOLEAN,
     ino : InodeType, disk : InodeType, panic : BOOLEAN]

LEMMA UpdateFacts ==
    ASSUME NEW s \in Handle, NEW o \in InodeType
    PROVE  /\ Update(s, o) \in Handle
           /\ Update(s, o).slot = s.slot /\ Update(s, o).ref = s.ref
           /\ Update(s, o).inum = s.inum /\ Update(s, o).valid = s.valid
           /\ Update(s, o).ino = o /\ Update(s, o).disk = o
           /\ Update(s, o).panic = s.panic
BY DEF Handle, Update

LEMMA LockFacts ==
    ASSUME NEW s \in Handle, ~s.panic, s.ref > 0, s.disk.type # 0
    PROVE  /\ ilock(s) \in Handle
           /\ ilock(s).slot = s.slot /\ ilock(s).ref = s.ref
           /\ ilock(s).inum = s.inum /\ ilock(s).valid
           /\ ilock(s).ino = IF s.valid THEN s.ino ELSE s.disk
           /\ ilock(s).disk = s.disk
           /\ ~ilock(s).panic
<1>1. CASE s.valid
  BY <1>1 DEF Handle, ilock
<1>2. CASE ~s.valid
  <2>1. ilock(s) = [s EXCEPT !.valid = TRUE, !.ino = s.disk, !.panic = (s.disk.type = 0)]
    BY <1>2 DEF Handle, ilock
  <2>2. QED BY <1>2, <2>1 DEF Handle
<1>3. QED BY <1>1, <1>2

LEMMA PutFacts ==
    ASSUME NEW s \in Handle, ~s.panic, s.ref > 0
    PROVE  /\ iput(s) \in Handle
           /\ iput(s).slot = s.slot /\ iput(s).ref = s.ref - 1
           /\ iput(s).inum = s.inum /\ ~iput(s).panic
           /\ s.ref = 1 /\ s.valid /\ s.ino.nlink = 0 =>
                  ~iput(s).valid /\ iput(s).disk = FreeInode
           /\ ~(s.ref = 1 /\ s.valid /\ s.ino.nlink = 0) =>
                  /\ iput(s).valid = s.valid /\ iput(s).ino = s.ino
                  /\ iput(s).disk = s.disk
<1> DEFINE last == s.ref = 1 /\ s.valid /\ s.ino.nlink = 0
<1>0. FreeInode \in InodeType
  BY ServiceAssumption DEF FreeInode, InodeType
<1>1. CASE last
  <2> DEFINE u == Update(s, FreeInode)
             t == [u EXCEPT !.valid = FALSE]
  <2>1. iput(s) = [t EXCEPT !.ref = @ - 1]
    BY <1>1 DEF iput
  <2>2. /\ u \in Handle /\ u.slot = s.slot /\ u.ref = s.ref /\ u.inum = s.inum
        /\ u.disk = FreeInode /\ ~u.panic
    BY <1>0, UpdateFacts
  <2> HIDE DEF u
  <2>3. /\ t \in Handle /\ t.slot = s.slot /\ t.ref = s.ref /\ t.inum = s.inum /\ ~t.valid
        /\ t.disk = FreeInode /\ ~t.panic
    BY <2>2 DEF Handle
  <2> HIDE DEF t
  <2>4. QED BY <1>1, <2>1, <2>3 DEF Handle
<1>2. CASE ~last
  <2>1. iput(s) = [s EXCEPT !.ref = @ - 1]
    BY <1>2 DEF iput
  <2>2. QED BY <1>2, <2>1 DEF Handle
<1>3. QED BY <1>1, <1>2

-----------------------------------------------------------------------------
(* Finding the slot of an inode. *)

Entry == [ref : 0 .. MaxRef, inum : File \cup {0}, valid : BOOLEAN, ino : InodeType]

TablesTyped == itable \in [Slot -> Entry] /\ dinode \in [File -> InodeType] /\ dir \subseteq File

\* The inode has no slot but that of the handle, and the slot no other inode.
Sole(s) ==
    /\ \A j \in Slot : itable[j].ref > 0 /\ itable[j].inum = s.inum => j = s.slot
    /\ itable[s.slot].ref > 0 => itable[s.slot].inum = s.inum

\* A handle that leads to inode i, with r references more than its slot has.
Leads(s, i, r) ==
    /\ s \in Handle /\ ~s.panic /\ s.inum = i /\ s.disk = dinode[i] /\ Sole(s)
    /\ s.ref = itable[s.slot].ref + r /\ s.ref > 0
    /\ s.valid => s.ino = s.disk
    /\ s.valid <=> itable[s.slot].ref > 0 /\ itable[s.slot].valid

LEMMA Typed == ServiceInv => TablesTyped
BY DEF ServiceInv, TypeOK, TablesTyped, Entry

LEMMA AtFacts ==
    ASSUME ServiceInv, NEW k \in Slot, itable[k].ref > 0
    PROVE  /\ Leads(At(k), itable[k].inum, 0) /\ At(k).slot = k
           /\ itable[k].inum \in File /\ dinode[itable[k].inum].type = 2
<1>1. itable[k] \in Entry
  BY Typed DEF TablesTyped
<1>2. itable[k].inum \in File /\ dinode[itable[k].inum].type = 2
      /\ (itable[k].valid => itable[k].ino = dinode[itable[k].inum])
  BY DEF ServiceInv, HeldInv
<1>3. dinode[itable[k].inum] \in InodeType
  BY <1>2, Typed DEF TablesTyped
<1>4. At(k) \in Handle
  BY <1>1, <1>2, <1>3, ServiceAssumption DEF At, Handle, Entry
<1>5. Sole(At(k))
  BY DEF ServiceInv, OneSlotPerInode, Sole, At
<1>6. QED BY <1>1, <1>2, <1>4, <1>5, ServiceAssumption DEF Leads, At, Entry

LEMMA IgetFacts ==
    ASSUME ServiceInv, NEW i \in File
    PROVE  \/ Leads(iget(i), i, 1)
           \/ iget(i) = NoInode /\ HeldSlots(i) = {} /\ FreeSlots = {}
<1>0. Slot \in SUBSET (1 .. NINODE) /\ NINODE \in Int
  BY ServiceAssumption DEF Slot
<1>1. CASE HeldSlots(i) # {}
  <2> DEFINE k == Least(HeldSlots(i))
  <2>1. k \in HeldSlots(i)
    BY <1>0, <1>1, LeastUpTo DEF HeldSlots
  <2>2. k \in Slot /\ itable[k].ref > 0 /\ itable[k].inum = i
    BY <2>1 DEF HeldSlots
  <2> HIDE DEF k
  <2>3. Leads(At(k), i, 0) /\ At(k).slot = k
    BY <2>2, AtFacts
  <2>4. iget(i) = [At(k) EXCEPT !.ref = @ + 1]
    BY <1>1 DEF iget, k
  <2> DEFINE s == At(k)
  <2>5. Leads(s, i, 0) /\ s.slot = k /\ iget(i) = [s EXCEPT !.ref = @ + 1]
    BY <2>3, <2>4
  <2> HIDE DEF s
  <2>6. itable[k] \in Entry
    BY <2>2, Typed DEF TablesTyped
  <2>7. itable[k].ref \in Int
    BY <2>6, ServiceAssumption DEF Entry
  <2>8. QED BY <2>5, <2>7 DEF Leads, Handle, Sole
<1>2. CASE HeldSlots(i) = {} /\ FreeSlots # {}
  <2> DEFINE k == Least(FreeSlots)
  <2>1. k \in FreeSlots
    BY <1>0, <1>2, LeastUpTo DEF FreeSlots
  <2>2. k \in Slot /\ itable[k].ref = 0
    BY <2>1 DEF FreeSlots
  <2> HIDE DEF k
  <2>3. iget(i) = Recycled(k, i)
    BY <1>2 DEF iget, k
  <2>4. itable[k] \in Entry /\ dinode[i] \in InodeType
    BY <2>2, Typed DEF TablesTyped
  <2>5. iget(i) \in Handle
    BY <2>2, <2>3, <2>4 DEF Recycled, Handle, Entry
  <2>6. Sole(iget(i))
    BY <1>2, <2>2, <2>3 DEF Recycled, HeldSlots, Sole
  <2>7. QED BY <2>2, <2>3, <2>5, <2>6 DEF Leads, Recycled
<1>3. CASE HeldSlots(i) = {} /\ FreeSlots = {}
  BY <1>3 DEF iget
<1>4. QED BY <1>1, <1>2, <1>3

-----------------------------------------------------------------------------
(* Installing an inode. *)

TablesInv == TablesTyped /\ OneSlotPerInode /\ HeldInv /\ NamesInv /\ NoOrphan

\* What a system call leaves of an inode, with the names it leaves in d.
Consistent(s, d) ==
    /\ s \in Handle /\ ~s.panic /\ Sole(s) /\ s.ref <= MaxRef
    /\ s.ref > 0 => s.disk.type = 2 /\ (s.valid => s.ino = s.disk) /\ (s.inum \in d \/ s.valid)
    /\ s.inum \in d <=> s.disk.nlink = 1
    /\ s.inum \in d => s.disk.type = 2
    /\ s.disk.type # 0 => s.inum \in d \/ s.ref > 0
    /\ d \subseteq File /\ \A j \in File \ {s.inum} : j \in d <=> j \in dir

LEMMA BecomeFacts ==
    ASSUME TablesTyped, NEW s \in Handle, ~s.panic, s.ref <= MaxRef, Become(s)
    PROVE  /\ itable' \in [Slot -> Entry] /\ dinode' \in [File -> InodeType]
           /\ s.slot \in Slot /\ s.inum \in File
           /\ itable'[s.slot].ref = s.ref /\ itable'[s.slot].inum = s.inum
           /\ itable'[s.slot].valid = s.valid /\ itable'[s.slot].ino = s.ino
           /\ \A k \in Slot \ {s.slot} : itable'[k] = itable[k]
           /\ dinode'[s.inum] = s.disk
           /\ \A i \in File \ {s.inum} : dinode'[i] = dinode[i]
           /\ halted' = halted
<1> DEFINE e == [ref |-> s.ref, inum |-> s.inum, valid |-> s.valid, ino |-> s.ino]
<1>1. /\ itable' = [itable EXCEPT ![s.slot] = e] /\ dinode' = [dinode EXCEPT ![s.inum] = s.disk]
      /\ halted' = halted
  BY DEF Become
<1>2. s.slot \in Slot /\ s.inum \in File /\ s.disk \in InodeType
  BY DEF Handle
<1>3. e \in Entry /\ e.ref = s.ref /\ e.inum = s.inum /\ e.valid = s.valid /\ e.ino = s.ino
  BY ServiceAssumption DEF Handle, Entry
<1> HIDE DEF e
<1>4. QED BY <1>1, <1>2, <1>3 DEF TablesTyped

LEMMA Installed ==
    ASSUME ServiceInv, NEW s, Consistent(s, dir'), Become(s)
    PROVE  TablesInv'
<1>0. /\ TablesTyped /\ OneSlotPerInode /\ HeldInv /\ NamesInv /\ NoOrphan
      /\ s \in Handle /\ ~s.panic /\ s.ref <= MaxRef
  BY Typed DEF ServiceInv, Consistent
<1> DEFINE k == s.slot  i == s.inum
<1>1. /\ itable' \in [Slot -> Entry] /\ dinode' \in [File -> InodeType]
      /\ k \in Slot /\ i \in File
      /\ itable'[k].ref = s.ref /\ itable'[k].inum = i
      /\ itable'[k].valid = s.valid /\ itable'[k].ino = s.ino
      /\ \A j \in Slot \ {k} : itable'[j] = itable[j]
      /\ dinode'[i] = s.disk
      /\ \A j \in File \ {i} : dinode'[j] = dinode[j]
  BY <1>0, BecomeFacts
<1>2. /\ \A j \in Slot : itable[j].ref > 0 /\ itable[j].inum = i => j = k
      /\ itable[k].ref > 0 => itable[k].inum = i
  BY DEF Consistent, Sole
<1>3. /\ s.ref > 0 => s.disk.type = 2 /\ (s.valid => s.ino = s.disk) /\ (i \in dir' \/ s.valid)
      /\ i \in dir' <=> s.disk.nlink = 1
      /\ i \in dir' => s.disk.type = 2
      /\ s.disk.type # 0 => i \in dir' \/ s.ref > 0
      /\ dir' \subseteq File /\ \A j \in File \ {i} : j \in dir' <=> j \in dir
  BY DEF Consistent
<1> HIDE DEF k, i
<1>4. TablesTyped'
  BY <1>1, <1>3 DEF TablesTyped
<1>5. OneSlotPerInode'
  BY <1>0, <1>1, <1>2 DEF OneSlotPerInode
<1>6. HeldInv'
  <2> SUFFICES ASSUME NEW j \in Slot, itable'[j].ref > 0
               PROVE  /\ itable'[j].inum \in File /\ dinode'[itable'[j].inum].type = 2
                      /\ itable'[j].valid => itable'[j].ino = dinode'[itable'[j].inum]
    BY DEF HeldInv
  <2>1. CASE j = k
    BY <1>1, <1>3, <2>1
  <2>2. CASE j # k
    BY <1>0, <1>1, <1>2, <2>2 DEF HeldInv
  <2>3. QED BY <2>1, <2>2
<1>7. NamesInv'
  <2>1. ASSUME NEW j \in File
        PROVE  (j \in dir' <=> dinode'[j].nlink = 1) /\ (j \in dir' => dinode'[j].type = 2)
    BY <1>0, <1>1, <1>3 DEF NamesInv
  <2>2. ASSUME NEW j \in Slot, itable'[j].ref > 0, itable'[j].inum \notin dir'
        PROVE  itable'[j].valid
    <3>1. CASE j = k
      BY <1>1, <1>3, <2>2, <3>1
    <3>2. CASE j # k
      BY <1>0, <1>1, <1>2, <1>3, <2>2, <3>2 DEF NamesInv, HeldInv
    <3>3. QED BY <3>1, <3>2
  <2>3. QED BY <2>1, <2>2 DEF NamesInv
<1>8. NoOrphan'
  <2> SUFFICES ASSUME NEW j \in File, dinode'[j].type # 0
               PROVE  j \in dir' \/ \E m \in Slot : itable'[m].ref > 0 /\ itable'[m].inum = j
    BY DEF NoOrphan
  <2>1. CASE j = i
    BY <1>1, <1>3, <2>1
  <2>2. CASE j # i
    BY <1>0, <1>1, <1>2, <1>3, <2>2 DEF NoOrphan
  <2>3. QED BY <2>1, <2>2
<1>9. QED BY <1>4, <1>5, <1>6, <1>7, <1>8 DEF TablesInv

LEMMA Uninstalled ==
    ASSUME ServiceInv, UNCHANGED <<itable, dinode, dir>>
    PROVE  TablesInv'
BY Typed DEF ServiceInv, TablesTyped, TablesInv, OneSlotPerInode, HeldInv, NamesInv, NoOrphan

-----------------------------------------------------------------------------
(* Open files and the references of their slots. *)

OpensAt(k) == {f \in OpenFile : ftable[f].ref > 0 /\ ftable[f].ip = k}

LEMMA OpensFinite ==
    ASSUME NEW k
    PROVE  IsFiniteSet(OpensAt(k)) /\ Opens(k) = Cardinality(OpensAt(k)) /\ Opens(k) \in Nat
           /\ (Opens(k) = 0 <=> OpensAt(k) = {})
<1>1. IsFiniteSet(OpenFile)
  BY FS_Interval, ServiceAssumption DEF OpenFile
<1>2. IsFiniteSet(OpensAt(k))
  BY <1>1, FS_Subset DEF OpensAt
<1>3. Opens(k) = Cardinality(OpensAt(k))
  BY DEF Opens, OpensAt
<1>4. QED BY <1>2, <1>3, FS_CardinalityType, FS_EmptySet

FileRecord ==
    [ref : 0 .. 1, ip : Slot \cup {0}, off : 0 .. UINT - 1, readable : BOOLEAN, writable : BOOLEAN]

FilesTyped == ftable \in [OpenFile -> FileRecord] /\ ofile \in [Fd -> OpenFile \cup {0}]

\* Open files and descriptors, paired.
Paired ==
    /\ \A fd \in Fd : ofile[fd] # 0 => ftable[ofile[fd]].ref = 1
    /\ \A fd1, fd2 \in Fd : ofile[fd1] # 0 /\ ofile[fd1] = ofile[fd2] => fd1 = fd2
    /\ \A f \in OpenFile : ftable[f].ref = 1 => \E fd \in Fd : ofile[fd] = f

\* Every open file has a reference to a loaded inode.
Backed ==
    /\ \A f \in OpenFile : ftable[f].ref = 1 => ftable[f].ip \in Slot /\ itable[ftable[f].ip].valid
    /\ \A k \in Slot : Opens(k) <= itable[k].ref

LEMMA FilesParts ==
    /\ FilesInv <=> Paired /\ Backed
    /\ ServiceInv => FilesTyped /\ Paired /\ Backed
<1>1. FilesInv <=> Paired /\ Backed
  BY DEF FilesInv, Paired, Backed
<1>2. ServiceInv => FilesTyped
  BY DEF ServiceInv, TypeOK, FilesTyped, FileRecord
<1>3. QED BY <1>1, <1>2 DEF ServiceInv

LEMMA OpenFileTyped ==
    ASSUME FilesTyped, NEW f \in OpenFile
    PROVE  ftable[f] \in FileRecord /\ (ftable[f].ref > 0 <=> ftable[f].ref = 1)
           /\ ftable[f].ref \in {0, 1} /\ f # 0
BY ServiceAssumption DEF FilesTyped, FileRecord, OpenFile

\* Reads, writes and seeks move offsets only.
FilesKept ==
    /\ FilesTyped' /\ ofile' = ofile
    /\ \A f \in OpenFile : ftable'[f].ref = ftable[f].ref /\ ftable'[f].ip = ftable[f].ip

LEMMA KeptFacts ==
    ASSUME Paired, FilesKept
    PROVE  Paired' /\ \A k \in Slot : Opens(k)' = Opens(k)
<1>1. Paired'
  BY DEF Paired, FilesKept, FilesTyped
<1>2. ASSUME NEW k \in Slot PROVE OpensAt(k)' = OpensAt(k)
  BY DEF OpensAt, FilesKept
<1>3. QED BY <1>1, <1>2 DEF Opens, OpensAt

\* The end of a successful open.
FileAdded(f, fd, k) ==
    /\ FilesTyped' /\ f \in OpenFile /\ fd \in Fd /\ ftable[f].ref = 0 /\ ofile[fd] = 0
    /\ ftable'[f].ref = 1 /\ ftable'[f].ip = k /\ ofile'[fd] = f
    /\ \A g \in OpenFile \ {f} : ftable'[g] = ftable[g]
    /\ \A gd \in Fd \ {fd} : ofile'[gd] = ofile[gd]

LEMMA AddedFacts ==
    ASSUME FilesTyped, Paired, NEW f, NEW fd, NEW k \in Slot, FileAdded(f, fd, k)
    PROVE  /\ Paired' /\ Opens(k)' = Opens(k) + 1
           /\ \A j \in Slot \ {k} : Opens(j)' = Opens(j)
<1>1. /\ f \in OpenFile /\ fd \in Fd /\ ftable[f].ref = 0 /\ ofile[fd] = 0
      /\ ftable'[f].ref = 1 /\ ftable'[f].ip = k /\ ofile'[fd] = f
      /\ \A g \in OpenFile \ {f} : ftable'[g] = ftable[g]
      /\ \A gd \in Fd \ {fd} : ofile'[gd] = ofile[gd]
      /\ \A gd \in Fd : ofile[gd] \in OpenFile \cup {0}
      /\ f # 0
  BY OpenFileTyped DEF FileAdded, FilesTyped
<1>2. \A gd \in Fd : ofile[gd] # f
  BY <1>1 DEF Paired
<1>3. Paired'
  <2>1. ASSUME NEW gd \in Fd, ofile'[gd] # 0 PROVE ftable'[ofile'[gd]].ref = 1
    BY <1>1, <1>2, <2>1 DEF Paired
  <2>2. ASSUME NEW g1 \in Fd, NEW g2 \in Fd, ofile'[g1] # 0, ofile'[g1] = ofile'[g2]
        PROVE  g1 = g2
    BY <1>1, <1>2, <2>2 DEF Paired
  <2>3. ASSUME NEW g \in OpenFile, ftable'[g].ref = 1 PROVE \E gd \in Fd : ofile'[gd] = g
    <3>1. CASE g = f
      BY <1>1, <3>1
    <3>2. CASE g # f
      <4>1. ftable[g].ref = 1
        BY <1>1, <2>3, <3>2
      <4>2. PICK gd \in Fd : ofile[gd] = g
        BY <4>1 DEF Paired
      <4>3. gd # fd
        BY <1>1, <4>2, OpenFileTyped
      <4>4. QED BY <1>1, <4>2, <4>3
    <3>3. QED BY <3>1, <3>2
  <2>4. QED BY <2>1, <2>2, <2>3 DEF Paired
<1>4. OpensAt(k)' = OpensAt(k) \cup {f} /\ f \notin OpensAt(k)
  BY <1>1 DEF OpensAt
<1>5. Opens(k)' = Opens(k) + 1
  BY <1>4, OpensFinite, FS_AddElement DEF Opens, OpensAt
<1>6. ASSUME NEW j \in Slot \ {k} PROVE OpensAt(j)' = OpensAt(j)
  BY <1>1 DEF OpensAt
<1>7. QED BY <1>3, <1>5, <1>6 DEF Opens, OpensAt

\* fileclose and the descriptor that close clears.
FileRemoved(fd) ==
    /\ FilesTyped' /\ fd \in Fd /\ ofile[fd] # 0 /\ ofile'[fd] = 0
    /\ ftable'[ofile[fd]].ref = 0
    /\ \A g \in OpenFile \ {ofile[fd]} : ftable'[g] = ftable[g]
    /\ \A gd \in Fd \ {fd} : ofile'[gd] = ofile[gd]

LEMMA RemovedFacts ==
    ASSUME FilesTyped, Paired, NEW fd, FileRemoved(fd), NEW k \in Slot, ftable[ofile[fd]].ip = k
    PROVE  /\ Paired' /\ Opens(k)' = Opens(k) - 1
           /\ \A j \in Slot \ {k} : Opens(j)' = Opens(j)
           /\ \A g \in OpenFile \ {ofile[fd]} :
                  ftable[g].ref = 1 /\ ftable[g].ip = k => Opens(k) > 1
<1> DEFINE f == ofile[fd]
<1>1. /\ f \in OpenFile /\ fd \in Fd /\ ftable[f].ref = 1 /\ ftable[f].ip = k
      /\ f # 0 /\ ofile'[fd] = 0 /\ ftable'[f].ref = 0
      /\ \A g \in OpenFile \ {f} : ftable'[g] = ftable[g]
      /\ \A gd \in Fd \ {fd} : ofile'[gd] = ofile[gd]
      /\ \A gd \in Fd : ofile[gd] \in OpenFile \cup {0}
  BY DEF FileRemoved, FilesTyped, Paired
<1>2. \A gd \in Fd \ {fd} : ofile[gd] # f
  BY <1>1 DEF Paired
<1>f. ofile[fd] = f
  OBVIOUS
<1> HIDE DEF f
<1>3. Paired'
  BY <1>1, <1>2, <1>f DEF Paired
<1>4. OpensAt(k)' = OpensAt(k) \ {f} /\ f \in OpensAt(k)
  BY <1>1 DEF OpensAt
<1>5. Opens(k)' = Opens(k) - 1
  <2>1. Opens(k)' = Cardinality(OpensAt(k)')
    BY DEF Opens, OpensAt
  <2>2. Cardinality(OpensAt(k) \ {f}) = Cardinality(OpensAt(k)) - 1
    BY <1>4, OpensFinite, FS_RemoveElement
  <2>3. Opens(k) = Cardinality(OpensAt(k))
    BY OpensFinite
  <2>4. QED BY <1>4, <2>1, <2>2, <2>3
<1>6. ASSUME NEW j \in Slot \ {k} PROVE OpensAt(j)' = OpensAt(j)
  BY <1>1 DEF OpensAt
<1>7. ASSUME NEW g \in OpenFile \ {f}, ftable[g].ref = 1, ftable[g].ip = k
      PROVE  Opens(k) > 1
  <2>0. g \in OpensAt(k) \ {f}
    BY <1>7 DEF OpensAt
  <2>1. OpensAt(k) \ {f} # {} /\ IsFiniteSet(OpensAt(k) \ {f})
    BY <2>0, OpensFinite, FS_RemoveElement
  <2>2. Cardinality(OpensAt(k) \ {f}) \in Nat /\ Cardinality(OpensAt(k) \ {f}) # 0
    BY <2>1, FS_EmptySet, FS_CardinalityType
  <2>3. Cardinality(OpensAt(k) \ {f}) = Cardinality(OpensAt(k)) - 1
    BY <1>4, OpensFinite, FS_RemoveElement
  <2>4. QED BY <2>2, <2>3, OpensFinite
<1>8. QED BY <1>3, <1>5, <1>6, <1>7, <1>f DEF Opens, OpensAt

-----------------------------------------------------------------------------
(* Whole steps. *)

Result == [n : Int, stat : [ino : File \cup {0}, inode : InodeType]]
Outcome == ret' \in Result /\ halted' \in {"no", "no inodes", "panic", "assert"}

\* On every slot the references change with the open files.
KeptSame == \A k \in Slot : Kept(k)' = Kept(k)

LEMMA Assembled ==
    ASSUME TablesInv', FilesTyped', Paired', Backed', Outcome
    PROVE  ServiceInv'
BY FilesParts DEF TablesInv, TablesTyped, FilesTyped, FileRecord, Entry, Outcome, Result, ServiceInv,
      TypeOK, FilesInv, Paired, Backed

\* A step that leaves inodes alone.
LEMMA Untouched ==
    ASSUME ServiceInv, UNCHANGED <<itable, dinode, dir>>, FilesKept, Outcome
    PROVE  ServiceInv' /\ KeptSame
<1>1. TablesInv'
  BY Uninstalled
<1>2. Paired' /\ \A k \in Slot : Opens(k)' = Opens(k)
  BY FilesParts, KeptFacts
<1>3. FilesTyped' /\ Backed /\ FilesTyped
  BY FilesParts DEF FilesKept
<1>4. Backed'
  BY <1>2, <1>3 DEF Backed, FilesKept
<1>5. KeptSame
  BY <1>2 DEF KeptSame, Kept
<1>6. QED BY <1>1, <1>2, <1>3, <1>4, <1>5, Assembled

\* What all steps that install an inode have in common: open files elsewhere are
\* as they were, and the slot has the references its open files need.
LEMMA StillBacked ==
    ASSUME ServiceInv, NEW s, Consistent(s, dir'), Become(s),
           \A k \in Slot \ {s.slot} : Opens(k)' = Opens(k),
           Opens(s.slot)' <= s.ref,
           \A f \in OpenFile :
               ftable'[f].ref = 1 =>
                   \/ ftable'[f].ip = s.slot /\ s.valid
                   \/ ftable'[f].ip # s.slot /\ ftable[f].ref = 1 /\ ftable'[f].ip = ftable[f].ip
    PROVE  Backed'
<1>1. /\ s.slot \in Slot /\ itable'[s.slot].ref = s.ref /\ itable'[s.slot].valid = s.valid
      /\ \A k \in Slot \ {s.slot} : itable'[k] = itable[k]
  BY Typed, BecomeFacts DEF Consistent
<1>2. Backed
  BY FilesParts
<1>3. ASSUME NEW f \in OpenFile, ftable'[f].ref = 1
      PROVE  ftable'[f].ip \in Slot /\ itable'[ftable'[f].ip].valid
  BY <1>1, <1>2, <1>3 DEF Backed
<1>4. ASSUME NEW k \in Slot PROVE Opens(k)' <= itable'[k].ref
  BY <1>1, <1>2 DEF Backed
<1>5. QED BY <1>3, <1>4 DEF Backed

\* A step that changes an inode, its slot or its names, and no file.
LEMMA InstalledKept ==
    ASSUME ServiceInv, NEW s, Consistent(s, dir'), Become(s), FilesKept, ret' \in Result,
           Opens(s.slot) <= s.ref,
           Opens(s.slot) > 0 /\ itable[s.slot].valid => s.valid
    PROVE  /\ ServiceInv' /\ halted' = halted
           /\ s.ref = itable[s.slot].ref => KeptSame
<1>0. /\ s.slot \in Slot /\ itable'[s.slot].ref = s.ref
      /\ \A k \in Slot \ {s.slot} : itable'[k] = itable[k]
      /\ halted' = halted
  BY Typed, BecomeFacts DEF Consistent
<1>1. TablesInv'
  BY Installed
<1>2. Paired' /\ \A k \in Slot : Opens(k)' = Opens(k)
  BY FilesParts, KeptFacts
<1>3. ASSUME NEW f \in OpenFile, ftable'[f].ref = 1, ftable'[f].ip = s.slot
      PROVE  s.valid
  <2>1. f \in OpensAt(s.slot) /\ itable[s.slot].valid
    BY <1>3, FilesParts DEF FilesKept, Backed, OpensAt
  <2>2. Opens(s.slot) > 0
    BY <2>1, OpensFinite
  <2>3. QED BY <2>1, <2>2
<1>4. Backed'
  BY <1>0, <1>2, <1>3, StillBacked DEF FilesKept
<1>5. FilesTyped' /\ Outcome
  BY <1>0 DEF FilesKept, Outcome, ServiceInv, TypeOK
<1>6. s.ref = itable[s.slot].ref => KeptSame
  BY <1>0, <1>2 DEF KeptSame, Kept
<1>7. QED BY <1>0, <1>1, <1>2, <1>4, <1>5, <1>6, Assembled

\* A step that opens a file on the inode.
LEMMA InstalledAdded ==
    ASSUME ServiceInv, NEW s, Consistent(s, dir'), Become(s), ret' \in Result,
           NEW f, NEW fd, FileAdded(f, fd, s.slot),
           s.ref = itable[s.slot].ref + 1, s.valid
    PROVE  ServiceInv' /\ KeptSame /\ halted' = halted
<1>0. /\ s.slot \in Slot /\ itable'[s.slot].ref = s.ref
      /\ \A k \in Slot \ {s.slot} : itable'[k] = itable[k]
      /\ halted' = halted /\ itable[s.slot] \in Entry
  BY Typed, BecomeFacts DEF Consistent, TablesTyped
<1>1. TablesInv'
  BY Installed
<1>2. /\ Paired' /\ Opens(s.slot)' = Opens(s.slot) + 1
      /\ \A k \in Slot \ {s.slot} : Opens(k)' = Opens(k)
  BY <1>0, FilesParts, AddedFacts
<1>3. Opens(s.slot) \in Nat /\ itable[s.slot].ref \in Int /\ Opens(s.slot) <= itable[s.slot].ref
  BY <1>0, OpensFinite, FilesParts, ServiceAssumption DEF Entry, Backed
<1>4. ASSUME NEW g \in OpenFile, ftable'[g].ref = 1
      PROVE  \/ ftable'[g].ip = s.slot /\ s.valid
             \/ ftable'[g].ip # s.slot /\ ftable[g].ref = 1 /\ ftable'[g].ip = ftable[g].ip
  BY <1>4 DEF FileAdded
<1>5. Backed'
  BY <1>0, <1>2, <1>3, <1>4, StillBacked
<1>6. FilesTyped' /\ Outcome
  BY <1>0 DEF FileAdded, Outcome, ServiceInv, TypeOK
<1>7. KeptSame
  BY <1>0, <1>2, <1>3 DEF KeptSame, Kept
<1>8. QED BY <1>0, <1>1, <1>2, <1>5, <1>6, <1>7, Assembled

\* A step that closes a file on the inode.
LEMMA InstalledRemoved ==
    ASSUME ServiceInv, NEW s, Consistent(s, dir'), Become(s), ret' \in Result,
           NEW fd, FileRemoved(fd), ftable[ofile[fd]].ip = s.slot,
           s.ref = itable[s.slot].ref - 1, s.ref > 0 => s.valid
    PROVE  ServiceInv' /\ KeptSame /\ halted' = halted
<1>0. /\ s.slot \in Slot /\ itable'[s.slot].ref = s.ref
      /\ \A k \in Slot \ {s.slot} : itable'[k] = itable[k]
      /\ halted' = halted /\ itable[s.slot] \in Entry
  BY Typed, BecomeFacts DEF Consistent, TablesTyped
<1>1. TablesInv'
  BY Installed
<1>2. /\ Paired' /\ Opens(s.slot)' = Opens(s.slot) - 1
      /\ \A k \in Slot \ {s.slot} : Opens(k)' = Opens(k)
  BY <1>0, FilesParts, RemovedFacts
<1>3. Opens(s.slot) \in Nat /\ itable[s.slot].ref \in Int /\ Opens(s.slot) <= itable[s.slot].ref
  BY <1>0, OpensFinite, FilesParts, ServiceAssumption DEF Entry, Backed
<1>4. ASSUME NEW g \in OpenFile, ftable'[g].ref = 1
      PROVE  \/ ftable'[g].ip = s.slot /\ s.valid
             \/ ftable'[g].ip # s.slot /\ ftable[g].ref = 1 /\ ftable'[g].ip = ftable[g].ip
  <2>1. g # ofile[fd] /\ ftable'[g] = ftable[g]
    BY <1>4 DEF FileRemoved
  <2>2. CASE ftable[g].ip = s.slot
    <3>1. Opens(s.slot) > 1
      BY <1>0, <1>4, <2>1, <2>2, FilesParts, RemovedFacts
    <3>2. s.ref > 0
      BY <1>3, <3>1
    <3>3. QED BY <2>1, <2>2, <3>2
  <2>3. QED BY <1>4, <2>1, <2>2
<1>5. Backed'
  BY <1>0, <1>2, <1>3, <1>4, StillBacked
<1>6. FilesTyped' /\ Outcome
  BY <1>0 DEF FileRemoved, Outcome, ServiceInv, TypeOK
<1>7. KeptSame
  BY <1>0, <1>2, <1>3 DEF KeptSame, Kept
<1>8. QED BY <1>0, <1>1, <1>2, <1>5, <1>6, <1>7, Assembled

-----------------------------------------------------------------------------
(* The system calls: each keeps the invariant, changes references with open   *)
(* files (the two that do not are below), and panics in iget only, when no     *)
(* slot is free.                                                              *)

\* What iget returns then.
Refused(s) == {"slot", "panic"} \subseteq DOMAIN s /\ s.panic /\ s.slot = 0 /\ FreeSlots = {}

FullTableOnly == halted' # "panic" /\ (halted' = "no inodes" => FreeSlots' = {})

StepOk == ServiceInv' /\ KeptSame /\ (Running => FullTableOnly)

LEMMA NumberTyped == \A n \in Int : Number(n) \in Result
<1>1. FreeInode \in InodeType
  BY ServiceAssumption DEF FreeInode, InodeType
<1>2. QED BY <1>1 DEF Number, Result

LEMMA ErrorTyped == Error \in Result
BY NumberTyped DEF Error

LEMMA FilesUnchanged == ServiceInv /\ UNCHANGED <<ftable, ofile>> => FilesKept
BY FilesParts DEF FilesKept, FilesTyped

LEMMA RefusedHalts ==
    ASSUME NEW s, Refused(s), Become(s)
    PROVE  UNCHANGED <<itable, dinode>> /\ halted' = "no inodes" /\ FullTableOnly
BY DEF Refused, Become, FullTableOnly, FreeSlots

\* A call that panics, or fails before it has changed anything.
LEMMA NothingDone ==
    ASSUME ServiceInv, UNCHANGED <<itable, dinode, dir, ftable, ofile>>, Outcome,
           FullTableOnly
    PROVE  StepOk
BY FilesUnchanged, Untouched DEF StepOk

\* A handle after ilock, where the names in d agree with the link count.
Locked(s, d) ==
    /\ s \in Handle /\ ~s.panic /\ Sole(s) /\ s.valid
    /\ s.ref > 0 /\ s.ref <= MaxRef + 1
    /\ s.ino = s.disk /\ s.disk.type = 2
    /\ s.inum \in d <=> s.disk.nlink = 1
    /\ d \subseteq File /\ \A j \in File \ {s.inum} : j \in d <=> j \in dir

LEMMA LockedConsistent ==
    ASSUME NEW d, NEW s, Locked(s, d), s.ref <= MaxRef
    PROVE  Consistent(s, d)
BY DEF Locked, Consistent

\* Giving a reference back, for good if it is the last of an inode with no name.
LEMMA PutConsistent ==
    ASSUME NEW d, NEW s, Locked(s, d)
    PROVE  /\ Consistent(iput(s), d) /\ iput(s).slot = s.slot /\ iput(s).ref = s.ref - 1
           /\ iput(s).ref > 0 => iput(s).valid
<1> DEFINE t == iput(s)
<1>1. /\ s \in Handle /\ ~s.panic /\ Sole(s) /\ s.valid
      /\ s.ref > 0 /\ s.ref <= MaxRef + 1
      /\ s.ino = s.disk /\ s.disk.type = 2
      /\ s.inum \in d <=> s.disk.nlink = 1
      /\ d \subseteq File /\ \A j \in File \ {s.inum} : j \in d <=> j \in dir
  BY DEF Locked
<1>2. s.ref \in Nat /\ s.disk.nlink \in {0, 1}
  BY <1>1 DEF Handle, InodeType
<1>3. t \in Handle /\ t.slot = s.slot /\ t.ref = s.ref - 1 /\ t.inum = s.inum /\ ~t.panic
  BY <1>1, PutFacts
<1>4. /\ s.ref = 1 /\ s.ino.nlink = 0 => ~t.valid /\ t.disk = FreeInode
      /\ ~(s.ref = 1 /\ s.ino.nlink = 0) => t.valid = s.valid /\ t.ino = s.ino /\ t.disk = s.disk
  BY <1>1, PutFacts
<1>5. t = iput(s)
  OBVIOUS
<1> HIDE DEF t
<1>6. Sole(t)
  BY <1>1, <1>3 DEF Sole
<1>7. t.ref <= MaxRef /\ (t.ref > 0 => s.ref # 1)
  BY <1>1, <1>2, <1>3, ServiceAssumption
<1>8. CASE s.ref = 1 /\ s.ino.nlink = 0
  <2>1. t.disk.type = 0 /\ t.disk.nlink = 0 /\ t.ref = 0
    BY <1>2, <1>3, <1>4, <1>8 DEF FreeInode
  <2>2. Consistent(t, d)
    BY <1>1, <1>3, <1>6, <1>7, <1>8, <2>1 DEF Consistent
  <2>3. ~(t.ref > 0)
    BY <2>1
  <2>4. QED BY <1>3, <1>5, <2>2, <2>3
<1>9. CASE ~(s.ref = 1 /\ s.ino.nlink = 0)
  <2>1. t.valid /\ t.ino = t.disk /\ t.disk = s.disk
    BY <1>1, <1>4, <1>9
  <2>2. s.inum \in d \/ t.ref > 0
    BY <1>1, <1>2, <1>3, <1>9
  <2>3. Consistent(t, d)
    BY <1>1, <1>3, <1>6, <1>7, <2>1, <2>2 DEF Consistent
  <2>4. QED BY <1>3, <1>5, <2>1, <2>3
<1>10. QED BY <1>8, <1>9

\* The failing paths, and the ends of unlink and namex: the reference that was
\* taken is given back.
LEMMA PutBack ==
    ASSUME ServiceInv, Running, NEW s, Locked(s, dir'), s.ref = itable[s.slot].ref + 1,
           Become(iput(s)), UNCHANGED <<ftable, ofile>>, ret' \in Result
    PROVE  StepOk
<1> DEFINE t == iput(s)
<1>1. s.slot \in Slot /\ itable[s.slot] \in Entry
  BY Typed DEF Locked, Handle, TablesTyped
<1>2. itable[s.slot].ref \in Nat
  BY <1>1, ServiceAssumption DEF Entry
<1>3. Consistent(t, dir') /\ t.slot = s.slot /\ t.ref = s.ref - 1 /\ (t.ref > 0 => t.valid)
  BY PutConsistent
<1>4. Become(t)
  OBVIOUS
<1> HIDE DEF t
<1>5. t.ref = itable[t.slot].ref /\ Opens(t.slot) <= t.ref /\ (Opens(t.slot) > 0 => t.ref > 0)
  BY <1>1, <1>2, <1>3, FilesParts, OpensFinite DEF Backed
<1>6. QED BY <1>3, <1>4, <1>5, FilesUnchanged, InstalledKept DEF StepOk, Running, FullTableOnly

-----------------------------------------------------------------------------
(* open *)

\* The inode of a name, locked.
LEMMA NamedFacts ==
    ASSUME ServiceInv, NEW i \in dir, NEW s, s = ilock(iget(i))
    PROVE  \/ Refused(s)
           \/ /\ Locked(s, dir) /\ s.inum = i /\ s.ref = itable[s.slot].ref + 1
              /\ s.disk = dinode[i] /\ s.disk.nlink = 1
              /\ BelowMaxRef(i) => s.ref <= MaxRef
<1>1. i \in File /\ dinode[i].nlink = 1 /\ dinode[i].type = 2 /\ dir \subseteq File
  BY Typed DEF ServiceInv, NamesInv, TablesTyped
<1>2. CASE iget(i) = NoInode /\ HeldSlots(i) = {} /\ FreeSlots = {}
  <2>1. s.panic /\ s.slot = 0
    BY <1>2 DEF ilock, NoInode
  <2>2. {"slot", "panic"} \subseteq DOMAIN s
    BY <1>2 DEF ilock, NoInode
  <2>3. QED BY <1>2, <2>1, <2>2 DEF Refused
<1>3. CASE Leads(iget(i), i, 1)
  <2> DEFINE g == iget(i)
  <2>1. /\ g \in Handle /\ ~g.panic /\ g.inum = i /\ g.disk = dinode[i] /\ Sole(g)
        /\ g.ref = itable[g.slot].ref + 1 /\ g.ref > 0
        /\ g.valid => g.ino = g.disk
    BY <1>3 DEF Leads
  <2>2. s = ilock(g)
    OBVIOUS
  <2> HIDE DEF g
  <2>3. /\ s \in Handle /\ s.slot = g.slot /\ s.ref = g.ref /\ s.inum = g.inum /\ s.valid
        /\ s.ino = IF g.valid THEN g.ino ELSE g.disk
        /\ s.disk = g.disk /\ ~s.panic
    BY <1>1, <2>1, <2>2, LockFacts
  <2>4. Sole(s)
    BY <2>1, <2>3 DEF Sole
  <2>5. itable[g.slot] \in Entry /\ g.slot \in Slot
    BY <2>1, Typed DEF TablesTyped, Handle
  <2>6. itable[g.slot].ref \in 0 .. MaxRef
    BY <2>5 DEF Entry
  <2>7. BelowMaxRef(i) => s.ref <= MaxRef
    <3>1. CASE itable[g.slot].ref = 0
      BY <2>1, <2>3, <3>1, ServiceAssumption
    <3>2. CASE itable[g.slot].ref > 0
      <4>1. itable[g.slot].inum = i
        BY <2>1, <3>2 DEF Sole
      <4>2. BelowMaxRef(i) => ~(itable[g.slot].ref >= MaxRef)
        BY <2>5, <4>1 DEF BelowMaxRef
      <4>3. QED BY <2>1, <2>3, <2>6, <4>2, ServiceAssumption
    <3>3. QED BY <2>6, <3>1, <3>2, ServiceAssumption
  <2>8. s.ref <= MaxRef + 1 /\ s.ref > 0
    BY <2>1, <2>3, <2>6, ServiceAssumption
  <2>9. Locked(s, dir)
    BY <1>1, <2>1, <2>3, <2>4, <2>8 DEF Locked
  <2>10. QED BY <1>1, <2>1, <2>3, <2>7, <2>9
<1>4. QED BY <1>1, <1>2, <1>3, IgetFacts

\* The end of xv6fs_open.
LEMMA InstallStep ==
    ASSUME ServiceInv, Running, NEW s, Locked(s, dir'), s.ref <= MaxRef,
           s.ref = itable[s.slot].ref + 1, NEW m \in Mode, Install(s, m)
    PROVE  StepOk
<1>1. s \in Handle /\ ~s.panic /\ s.slot \in Slot /\ s.valid
  BY DEF Locked, Handle
<1>2. CASE FreeFiles = {} \/ FreeFds = {}
  <2>1. Become(iput(s)) /\ ret' = Error /\ UNCHANGED <<ftable, ofile>>
    BY <1>1, <1>2 DEF Install
  <2>2. QED BY <2>1, PutBack, ErrorTyped
<1>3. CASE FreeFiles # {} /\ FreeFds # {}
  <2> DEFINE f == Least(FreeFiles)  fd == Least(FreeFds)
             r == [ref |-> 1, ip |-> s.slot, off |-> 0,
                   readable |-> m # "WRONLY", writable |-> m # "RDONLY"]
  <2>1. f \in FreeFiles
    <3>1. FreeFiles \in SUBSET (1 .. NFILE) /\ NFILE \in Int
      BY ServiceAssumption DEF FreeFiles, OpenFile
    <3>2. QED BY <1>3, <3>1, LeastUpTo
  <2>2. fd \in FreeFds
    <3>1. FreeFds \in SUBSET (3 .. NOFILE - 1) /\ NOFILE - 1 \in Int
      BY ServiceAssumption DEF FreeFds, Fd
    <3>2. QED BY <1>3, <3>1, LeastUpTo
  <2>3. /\ Become(s) /\ ftable' = [ftable EXCEPT ![f] = r]
        /\ ofile' = [ofile EXCEPT ![fd] = f] /\ ret' = Number(fd)
    BY <1>1, <1>3 DEF Install
  <2>4. r \in FileRecord /\ r.ref = 1 /\ r.ip = s.slot
    BY <1>1, ServiceAssumption DEF FileRecord
  <2> HIDE DEF f, fd, r
  <2>5. f \in OpenFile /\ ftable[f].ref = 0 /\ fd \in Fd /\ ofile[fd] = 0
    BY <2>1, <2>2 DEF FreeFiles, FreeFds
  <2>6. FileAdded(f, fd, s.slot)
    BY <2>3, <2>4, <2>5, FilesParts DEF FileAdded, FilesTyped
  <2>7. fd \in Int
    BY <2>5, ServiceAssumption DEF Fd
  <2>8. ret' \in Result
    BY <2>3, <2>7, NumberTyped
  <2>9. QED BY <1>1, <2>3, <2>6, <2>8, LockedConsistent, InstalledAdded DEF StepOk, Running, FullTableOnly
<1>4. QED BY <1>2, <1>3

\* No slot was free.
LEMMA InstallPanics ==
    ASSUME ServiceInv, NEW s, Refused(s), NEW m, Install(s, m), UNCHANGED dir
    PROVE  StepOk
<1>1. Become(s) /\ UNCHANGED <<dir, ftable, ofile, ret>>
  BY DEF Install, Refused
<1>2. UNCHANGED <<itable, dinode>> /\ halted' = "no inodes" /\ FullTableOnly
  BY <1>1, RefusedHalts
<1>3. Outcome
  BY <1>1, <1>2 DEF Outcome, ServiceInv, TypeOK, Result
<1>4. QED BY <1>1, <1>2, <1>3, NothingDone

LEMMA OpenStep ==
    ASSUME ServiceInv, NEW i \in File, NEW m \in Mode, Open(i, m)
    PROVE  StepOk
<1> DEFINE s == ilock(iget(i))
<1>1. Running /\ i \in dir /\ BelowMaxRef(i) /\ Install(s, m) /\ dir' = dir
  BY DEF Open
<1>2. \/ Refused(s)
      \/ Locked(s, dir') /\ s.ref = itable[s.slot].ref + 1 /\ s.ref <= MaxRef
  BY <1>1, NamedFacts
<1> HIDE DEF s
<1>3. QED BY <1>1, <1>2, InstallPanics, InstallStep

LEMMA TruncatedFacts ==
    ASSUME NEW d, NEW s, Locked(s, d)
    PROVE  Locked(Truncated(s), d) /\ Truncated(s).ref = s.ref /\ Truncated(s).slot = s.slot
<1> DEFINE o == [s.ino EXCEPT !.size = 0]
<1>1. s \in Handle /\ s.ino \in InodeType
  BY DEF Locked, Handle
<1>2. o \in InodeType /\ o.type = s.ino.type /\ o.nlink = s.ino.nlink
  BY <1>1, ServiceAssumption DEF InodeType
<1>3. Truncated(s) = Update(s, o)
  BY DEF Truncated
<1> HIDE DEF o
<1>4. QED BY <1>1, <1>2, <1>3, UpdateFacts DEF Locked, Sole

LEMMA OpenTruncStep ==
    ASSUME ServiceInv, NEW i \in File, NEW m \in Mode, OpenTrunc(i, m)
    PROVE  StepOk
<1> DEFINE s == ilock(iget(i))
           t == IF FreeFiles # {} /\ FreeFds # {} /\ ~s.panic THEN Truncated(s) ELSE s
<1>1. Running /\ i \in dir /\ BelowMaxRef(i) /\ Install(t, m) /\ dir' = dir
  BY DEF OpenTrunc
<1>2. \/ Refused(s)
      \/ Locked(s, dir') /\ s.ref = itable[s.slot].ref + 1 /\ s.ref <= MaxRef
  BY <1>1, NamedFacts
<1> HIDE DEF s
<1>3. \/ Refused(t)
      \/ Locked(t, dir') /\ t.ref = itable[t.slot].ref + 1 /\ t.ref <= MaxRef
  BY <1>2, TruncatedFacts DEF Refused
<1> HIDE DEF t
<1>4. QED BY <1>1, <1>3, InstallPanics, InstallStep

\* The inode that create() has just allocated.
LEMMA CreateFacts ==
    ASSUME ServiceInv, NEW i \in File, dinode[i].type = 0, NEW s, s = Create(i),
           NEW d, d = dir \cup {i}
    PROVE  \/ Refused(s)
           \/ Locked(s, d) /\ s.ref = itable[s.slot].ref + 1 /\ s.ref = 1 /\ s.inum = i
<1> DEFINE g == iget(i)  o == [type |-> 2, nlink |-> 1, size |-> 0]
           h == [g EXCEPT !.disk = o]
<1>0. s = ilock(h)
  BY DEF Create
<1>1. o \in InodeType /\ o.type = 2 /\ o.nlink = 1
  BY ServiceAssumption DEF InodeType
<1>2. CASE g = NoInode /\ HeldSlots(i) = {} /\ FreeSlots = {}
  <2>1. h.panic /\ h.slot = 0
    BY <1>2 DEF NoInode
  <2>2. s.panic /\ s.slot = 0
    BY <1>0, <2>1 DEF ilock
  <2>3. {"slot", "panic"} \subseteq DOMAIN s
    BY <1>0, <1>2, <2>1 DEF ilock, NoInode
  <2>4. QED BY <1>2, <2>2, <2>3 DEF Refused
<1>3. CASE Leads(g, i, 1)
  <2>1. /\ g \in Handle /\ ~g.panic /\ g.inum = i /\ Sole(g)
        /\ g.ref = itable[g.slot].ref + 1
        /\ g.valid <=> itable[g.slot].ref > 0 /\ itable[g.slot].valid
    BY <1>3 DEF Leads
  <2> HIDE DEF g, o
  <2>2. g.slot \in Slot /\ itable[g.slot] \in Entry
    BY <2>1, Typed DEF Handle, TablesTyped
  <2>3. ~(itable[g.slot].ref > 0)
    BY <2>1, <2>2 DEF Sole, ServiceInv, HeldInv
  <2>4. itable[g.slot].ref = 0
    BY <2>2, <2>3, ServiceAssumption DEF Entry
  <2>5. /\ h \in Handle /\ ~h.panic /\ h.inum = i /\ h.slot = g.slot /\ h.ref = 1 /\ ~h.valid
        /\ h.disk = o
    BY <1>1, <2>1, <2>3, <2>4 DEF Handle
  <2> HIDE DEF h
  <2>6. /\ s \in Handle /\ s.slot = g.slot /\ s.ref = 1 /\ s.inum = i /\ s.valid
        /\ s.ino = o /\ s.disk = o /\ ~s.panic
    BY <1>0, <1>1, <2>5, LockFacts
  <2>7. Sole(s)
    BY <2>1, <2>6 DEF Sole
  <2>8. d \subseteq File
    BY Typed DEF TablesTyped
  <2>9. Locked(s, d)
    BY <1>1, <2>6, <2>7, <2>8, ServiceAssumption DEF Locked
  <2>10. QED BY <2>4, <2>6, <2>9
<1>4. QED BY <1>2, <1>3, IgetFacts

LEMMA InstallRuns ==
    ASSUME NEW s, NEW d, Locked(s, d), NEW m, Install(s, m)
    PROVE  halted' = halted
<1>1. ~s.panic /\ ~iput(s).panic
  BY PutConsistent DEF Locked, Consistent
<1>2. QED BY <1>1 DEF Install, Become

LEMMA OpenCreateStep ==
    ASSUME ServiceInv, NEW m \in Mode, OpenCreate(m)
    PROVE  StepOk
<1> DEFINE free == {i \in File : dinode[i].type = 0}  i == Least(free)  s == Create(i)
<1>1. CASE free = {}
  <2>1. ret' = Error /\ UNCHANGED <<itable, dinode, dir, ftable, ofile, halted>>
    BY <1>1 DEF OpenCreate
  <2>2. Outcome /\ FullTableOnly
    BY <2>1, ErrorTyped DEF Outcome, ServiceInv, TypeOK, OpenCreate, Running, FullTableOnly
  <2>3. QED BY <2>1, <2>2, NothingDone
<1>2. CASE free # {}
  <2>1. /\ Running /\ Install(s, m)
        /\ dir' = IF halted' = "no" THEN dir \cup {i} ELSE dir
    BY <1>2 DEF OpenCreate
  <2>2. i \in free
    <3>1. free \in SUBSET Nat /\ IsFiniteSet(free)
      BY ServiceAssumption, FS_Subset
    <3>2. QED BY <1>2, <3>1, LeastIn
  <2>3. i \in File /\ dinode[i].type = 0
    BY <2>2
  <2>4. s = Create(i)
    OBVIOUS
  <2> HIDE DEF free, i, s
  <2>5. CASE Refused(s)
    <3>1. halted' = "no inodes"
      BY <2>1, <2>5, RefusedHalts DEF Install, Refused
    <3>2. QED BY <2>1, <2>5, <3>1, InstallPanics
  <2>6. CASE Locked(s, dir \cup {i}) /\ s.ref = itable[s.slot].ref + 1 /\ s.ref = 1
    <3>1. halted' = halted
      BY <2>1, <2>6, InstallRuns
    <3>2. dir' = dir \cup {i}
      BY <2>1, <3>1 DEF Running
    <3>3. s.ref <= MaxRef
      BY <2>6, ServiceAssumption
    <3>4. QED BY <2>1, <2>6, <3>2, <3>3, InstallStep
  <2>7. QED BY <2>3, <2>4, <2>5, <2>6, CreateFacts
<1>3. QED BY <1>1, <1>2

LEMMA UnlinkedFacts ==
    ASSUME NEW s, NEW d, Locked(s, d), s.inum \in d, NEW o, o = [s.ino EXCEPT !.nlink = 0],
           NEW u, u = Update(s, o)
    PROVE  Locked(u, d \ {s.inum}) /\ u.ref = s.ref /\ u.slot = s.slot
<1>1. s \in Handle /\ s.ino \in InodeType
  BY DEF Locked, Handle
<1>2. o \in InodeType /\ o.type = s.ino.type /\ o.nlink = 0
  BY <1>1 DEF InodeType
<1>3. /\ u \in Handle /\ u.slot = s.slot /\ u.ref = s.ref /\ u.inum = s.inum /\ u.valid = s.valid
      /\ u.ino = o /\ u.disk = o /\ u.panic = s.panic
  BY <1>1, <1>2, UpdateFacts
<1>4. Sole(u)
  BY <1>3 DEF Locked, Sole
<1>5. /\ ~u.panic /\ u.valid /\ u.ref > 0 /\ u.ref <= MaxRef + 1
      /\ u.ino = u.disk /\ u.disk.type = 2 /\ u.disk.nlink = 0
  <2>1. ~s.panic /\ s.valid /\ s.ref > 0 /\ s.ref <= MaxRef + 1 /\ s.ino.type = 2
    BY DEF Locked
  <2>2. u.disk.type = 2 /\ u.disk.nlink = 0 /\ u.ino = u.disk
    BY <1>2, <1>3, <2>1
  <2>3. ~u.panic /\ u.valid /\ u.ref > 0 /\ u.ref <= MaxRef + 1
    BY <1>3, <2>1
  <2>4. QED BY <2>2, <2>3
<1>6. /\ u.inum \notin d \ {s.inum} /\ d \ {s.inum} \subseteq File
      /\ \A j \in File \ {u.inum} : j \in d \ {s.inum} <=> j \in dir
  BY <1>3 DEF Locked
<1>7. QED BY <1>3, <1>4, <1>5, <1>6 DEF Locked

LEMMA OpenCreateFailsStep ==
    ASSUME ServiceInv, OpenCreateFails
    PROVE  StepOk
<1>1. PICK i \in File :
        /\ dinode[i].type = 0
        /\ LET s == Create(i)
           IN  Become(IF s.panic THEN s ELSE iput(Update(s, [s.ino EXCEPT !.nlink = 0])))
  BY DEF OpenCreateFails
<1>2. Running /\ ret' = Error /\ UNCHANGED <<dir, ftable, ofile>>
  BY DEF OpenCreateFails
<1> DEFINE s == Create(i)  u == Update(s, [s.ino EXCEPT !.nlink = 0])
<1>3. Become(IF s.panic THEN s ELSE iput(u))
  BY <1>1
<1>4. \/ Refused(s)
      \/ Locked(s, dir \cup {i}) /\ s.ref = itable[s.slot].ref + 1 /\ s.ref = 1 /\ s.inum = i
  BY <1>1, CreateFacts
<1>5. i \notin dir
  BY <1>1 DEF ServiceInv, NamesInv
<1> HIDE DEF s
<1>6. CASE Refused(s)
  <2>1. UNCHANGED <<itable, dinode>> /\ halted' = "no inodes" /\ FullTableOnly
    BY <1>3, <1>6, RefusedHalts DEF Refused
  <2>2. Outcome
    BY <1>2, <2>1, ErrorTyped DEF Outcome
  <2>3. QED BY <1>2, <1>6, <2>1, <2>2, NothingDone
<1>7. CASE Locked(s, dir \cup {i}) /\ s.ref = itable[s.slot].ref + 1 /\ s.inum = i
  <2>1. Locked(u, (dir \cup {i}) \ {s.inum}) /\ u.ref = s.ref /\ u.slot = s.slot
    BY <1>7, UnlinkedFacts
  <2>2. (dir \cup {i}) \ {s.inum} = dir' /\ ~s.panic
    BY <1>2, <1>5, <1>7 DEF Locked
  <2> HIDE DEF u
  <2>3. Locked(u, dir') /\ u.ref = itable[u.slot].ref + 1
    BY <1>7, <2>1, <2>2
  <2>4. QED BY <1>2, <1>3, <2>2, <2>3, PutBack, ErrorTyped
<1>8. QED BY <1>4, <1>6, <1>7

-----------------------------------------------------------------------------
(* close, unlink, status *)

\* An open file's handle: its inode is loaded.
LEMMA OpenFacts ==
    ASSUME ServiceInv, NEW fd \in Fd, ofile[fd] # 0, NEW s, s = At(ftable[ofile[fd]].ip)
    PROVE  /\ ofile[fd] \in OpenFile /\ ftable[ofile[fd]].ref = 1
           /\ s.slot = ftable[ofile[fd]].ip /\ s.ref = itable[s.slot].ref /\ s.ref <= MaxRef
           /\ s.slot \in Slot /\ Opens(s.slot) <= s.ref
           /\ s.inum = itable[s.slot].inum /\ s.ino = itable[s.slot].ino /\ s.disk = dinode[s.inum]
           /\ Locked(s, dir)
<1> DEFINE f == ofile[fd]  k == ftable[f].ip
<1>1. f \in OpenFile /\ ftable[f].ref = 1 /\ k \in Slot /\ itable[k].valid /\ Opens(k) <= itable[k].ref
  BY FilesParts DEF FilesTyped, Paired, Backed
<1>2. f \in OpensAt(k)
  BY <1>1 DEF OpensAt
<1>3. Opens(k) > 0
  BY <1>2, OpensFinite
<1>4. itable[k] \in Entry /\ dir \subseteq File
  BY <1>1, Typed DEF TablesTyped
<1>5. itable[k].ref > 0 /\ itable[k].ref \in 0 .. MaxRef
  BY <1>1, <1>3, <1>4, OpensFinite, ServiceAssumption DEF Entry
<1>6. s = At(k)
  OBVIOUS
<1> HIDE DEF k
<1>7. Leads(s, itable[k].inum, 0) /\ s.slot = k /\ dinode[itable[k].inum].type = 2
  BY <1>1, <1>5, <1>6, AtFacts
<1>8. s.ref = itable[k].ref /\ s.inum = itable[k].inum /\ s.ino = itable[k].ino
  BY <1>6 DEF At
<1>9. /\ s \in Handle /\ ~s.panic /\ s.disk = dinode[s.inum] /\ Sole(s) /\ s.valid /\ s.ino = s.disk
      /\ s.inum \in File
  BY <1>1, <1>5, <1>7, <1>8 DEF Leads, Handle
<1>10. s.inum \in dir <=> s.disk.nlink = 1
  BY <1>9 DEF ServiceInv, NamesInv
<1>11. s.ref <= MaxRef /\ s.ref <= MaxRef + 1 /\ s.ref > 0
  BY <1>5, <1>8, ServiceAssumption
<1>12. Locked(s, dir)
  BY <1>4, <1>7, <1>8, <1>9, <1>10, <1>11 DEF Locked
<1>13. QED BY <1>1, <1>7, <1>8, <1>9, <1>11, <1>12 DEF k

LEMMA CloseStep ==
    ASSUME ServiceInv, NEW fd \in Fd, Close(fd)
    PROVE  StepOk
<1> DEFINE s == At(ftable[ofile[fd]].ip)  t == iput(s)
<1>1. /\ Running /\ ofile[fd] # 0 /\ Become(t) /\ ret' = Number(0) /\ dir' = dir
      /\ ftable' = [ftable EXCEPT ![ofile[fd]] = NoFile] /\ ofile' = [ofile EXCEPT ![fd] = 0]
  BY DEF Close
<1>2. /\ ofile[fd] \in OpenFile /\ s.slot = ftable[ofile[fd]].ip /\ s.ref = itable[s.slot].ref
      /\ Locked(s, dir)
  BY <1>1, OpenFacts
<1> HIDE DEF s
<1>3. Consistent(t, dir) /\ t.slot = s.slot /\ t.ref = s.ref - 1 /\ (t.ref > 0 => t.valid)
  BY <1>2, PutConsistent
<1> HIDE DEF t
<1>4. NoFile \in FileRecord /\ NoFile.ref = 0
  BY ServiceAssumption DEF NoFile, FileRecord
<1>5. FileRemoved(fd)
  BY <1>1, <1>2, <1>4, FilesParts DEF FileRemoved, FilesTyped
<1>6. ret' \in Result
  BY <1>1, NumberTyped
<1>7. QED BY <1>1, <1>2, <1>3, <1>5, <1>6, InstalledRemoved DEF StepOk, Running, FullTableOnly

LEMMA UnlinkStep ==
    ASSUME ServiceInv, NEW i \in File, Unlink(i)
    PROVE  StepOk
<1> DEFINE s == ilock(iget(i))
           o == [s.ino EXCEPT !.nlink = @ - 1]
           u == Update(s, o)
           b == IF s.panic \/ s.ino.nlink < 1 THEN [s EXCEPT !.panic = TRUE] ELSE iput(u)
<1>1. /\ Running /\ i \in dir /\ BelowMaxRef(i) /\ Become(b)
      /\ dir' = IF halted' = "no" THEN dir \ {i} ELSE dir
      /\ ret' = Number(0) /\ UNCHANGED <<ftable, ofile>>
  BY DEF Unlink
<1>2. \/ Refused(s)
      \/ Locked(s, dir) /\ s.inum = i /\ s.ref = itable[s.slot].ref + 1 /\ s.disk.nlink = 1
  BY <1>1, NamedFacts
<1>3. ret' \in Result
  BY <1>1, NumberTyped
<1> HIDE DEF s
<1>4. CASE Refused(s)
  <2>1. Refused(b)
    <3>1. b = [s EXCEPT !.panic = TRUE]
      BY <1>4 DEF Refused
    <3>2. {"slot", "panic"} \subseteq DOMAIN s
      BY <1>4 DEF Refused
    <3>3. DOMAIN b = DOMAIN s /\ b.slot = s.slot /\ b.panic
      BY <3>1, <3>2
    <3>4. QED BY <1>4, <3>2, <3>3 DEF Refused
  <2>2. UNCHANGED <<itable, dinode, dir>> /\ halted' = "no inodes" /\ FullTableOnly
    BY <1>1, <2>1, RefusedHalts
  <2>3. QED BY <1>1, <1>3, <1>4, <2>2, NothingDone DEF Outcome
<1>5. CASE Locked(s, dir) /\ s.inum = i /\ s.ref = itable[s.slot].ref + 1 /\ s.disk.nlink = 1
  <2>1. ~s.panic /\ s.ino \in InodeType /\ s.ino.nlink = 1
    BY <1>5 DEF Locked, Handle
  <2>2. b = iput(u)
    BY <2>1
  <2>3. o = [s.ino EXCEPT !.nlink = 0]
    BY <2>1 DEF InodeType
  <2> HIDE DEF b, o
  <2>4. Locked(u, dir \ {i}) /\ u.ref = s.ref /\ u.slot = s.slot
    BY <1>1, <1>5, <2>3, UnlinkedFacts
  <2> HIDE DEF u
  <2>5. ~iput(u).panic
    BY <2>4, PutConsistent DEF Consistent
  <2>6. halted' = halted
    BY <1>1, <2>2, <2>5 DEF Become
  <2>7. dir' = dir \ {i}
    BY <1>1, <2>6 DEF Running
  <2>8. QED BY <1>1, <1>3, <1>5, <2>2, <2>4, <2>7, PutBack
<1>6. QED BY <1>2, <1>4, <1>5

LEMMA StatTyped == ASSUME NEW s \in Handle PROVE stati(s) \in Result
BY DEF stati, Result, Handle

LEMMA FstatStep ==
    ASSUME ServiceInv, NEW fd \in Fd, Fstat(fd)
    PROVE  StepOk
<1> DEFINE s == At(ftable[ofile[fd]].ip)  t == ilock(s)
<1>1. Running /\ ofile[fd] # 0 /\ Become(t) /\ ret' = stati(t) /\ UNCHANGED <<dir, ftable, ofile>>
  BY DEF Fstat
<1>2. /\ s.slot \in Slot /\ s.ref = itable[s.slot].ref /\ s.ref <= MaxRef /\ Opens(s.slot) <= s.ref
      /\ Locked(s, dir)
  BY <1>1, OpenFacts
<1>3. t = s
  BY <1>2 DEF ilock, Locked, Handle
<1> HIDE DEF s, t
<1>4. Consistent(s, dir) /\ s \in Handle /\ s.valid
  BY <1>2, LockedConsistent DEF Locked
<1>5. QED
  BY <1>1, <1>2, <1>3, <1>4, StatTyped, FilesUnchanged, InstalledKept DEF StepOk, Running, FullTableOnly

LEMMA LookThroughStep ==
    ASSUME ServiceInv, NEW i \in File, LookThrough(i)
    PROVE  StepOk
<1> DEFINE s == ilock(iget(i))
<1>1. Running /\ i \in dir /\ Become(iput(s)) /\ ret' = Error /\ UNCHANGED <<dir, ftable, ofile>>
  BY DEF LookThrough
<1>2. \/ Refused(s)
      \/ Locked(s, dir) /\ s.ref = itable[s.slot].ref + 1
  BY <1>1, NamedFacts
<1> HIDE DEF s
<1>3. CASE Refused(s)
  <2>1. UNCHANGED <<itable, dinode>> /\ halted' = "no inodes" /\ FullTableOnly
    BY <1>1, <1>3, RefusedHalts DEF iput, Refused
  <2>2. QED BY <1>1, <1>3, <2>1, ErrorTyped, NothingDone DEF Outcome
<1>4. CASE Locked(s, dir) /\ s.ref = itable[s.slot].ref + 1
  BY <1>1, <1>4, PutBack, ErrorTyped
<1>5. QED BY <1>2, <1>3, <1>4

\* The two calls that keep a reference: it is one, on the slot of the inode they
\* looked up.
LEMMA LookUpStep ==
    ASSUME ServiceInv, NEW i \in File, i \in dir, Running, BelowMaxRef(i), Become(iget(i)),
           ret' \in Result, UNCHANGED <<dir, ftable, ofile>>
    PROVE  /\ ServiceInv' /\ FullTableOnly
           /\ \A k \in Slot : Kept(k)' # Kept(k) => Kept(k)' = Kept(k) + 1 /\ itable'[k].inum = i
<1>0. PICK s : s = iget(i)
  OBVIOUS
<1>1. Become(s)
  BY <1>0
<1>2. CASE Leads(s, i, 1)
  <2>1. /\ s \in Handle /\ ~s.panic /\ s.inum = i /\ s.disk = dinode[i] /\ Sole(s)
        /\ s.ref = itable[s.slot].ref + 1 /\ s.ref > 0
        /\ s.valid => s.ino = s.disk
        /\ s.valid <=> itable[s.slot].ref > 0 /\ itable[s.slot].valid
    BY <1>2 DEF Leads
  <2>2. s.slot \in Slot /\ itable[s.slot] \in Entry /\ dir \subseteq File
    BY <2>1, Typed DEF Handle, TablesTyped
  <2>3. itable[s.slot].ref \in 0 .. MaxRef /\ itable[s.slot].ref \in Nat
    BY <2>2, ServiceAssumption DEF Entry
  <2>4. s.ref <= MaxRef
    <3>1. CASE itable[s.slot].ref = 0
      BY <2>1, <3>1, ServiceAssumption
    <3>2. CASE itable[s.slot].ref # 0
      <4>1. itable[s.slot].inum = i
        BY <2>1, <2>3, <3>2 DEF Sole
      <4>2. ~(itable[s.slot].ref >= MaxRef)
        BY <2>2, <4>1 DEF BelowMaxRef
      <4>3. QED BY <2>1, <2>3, <4>2, ServiceAssumption
    <3>3. QED BY <3>1, <3>2
  <2>5. i \in dir' /\ dinode[i].nlink = 1 /\ dinode[i].type = 2
    BY DEF ServiceInv, NamesInv
  <2>6. Consistent(s, dir')
    BY <2>1, <2>2, <2>4, <2>5 DEF Consistent
  <2>7. Opens(s.slot) <= itable[s.slot].ref /\ Opens(s.slot) \in Nat
    BY <2>2, FilesParts, OpensFinite DEF Backed
  <2>8. Opens(s.slot) > 0 /\ itable[s.slot].valid => s.valid
    BY <2>1, <2>3, <2>7
  <2>9. ServiceInv' /\ halted' = halted
    BY <1>1, <2>1, <2>3, <2>6, <2>7, <2>8, FilesUnchanged, InstalledKept
  <2>10. /\ itable'[s.slot].ref = s.ref /\ itable'[s.slot].inum = i
         /\ \A k \in Slot \ {s.slot} : itable'[k] = itable[k]
    BY <1>1, <2>1, <2>4, Typed, BecomeFacts
  <2>11. \A k \in Slot : Opens(k)' = Opens(k) /\ Opens(k) \in Nat
    BY OpensFinite, FilesUnchanged, FilesParts, KeptFacts
  <2>12. /\ Kept(s.slot)' = Kept(s.slot) + 1
         /\ \A k \in Slot \ {s.slot} : Kept(k)' = Kept(k)
    BY <2>1, <2>2, <2>3, <2>10, <2>11 DEF Kept
  <2>13. QED BY <2>9, <2>10, <2>12 DEF Running, FullTableOnly
<1>3. CASE s = NoInode /\ HeldSlots(i) = {} /\ FreeSlots = {}
  <2>1. Refused(s)
    BY <1>3 DEF Refused, NoInode
  <2>2. UNCHANGED <<itable, dinode>> /\ halted' = "no inodes" /\ FullTableOnly
    BY <1>1, <2>1, RefusedHalts
  <2>3. StepOk
    BY <2>1, <2>2, NothingDone DEF Outcome
  <2>4. QED BY <2>2, <2>3 DEF StepOk, KeptSame
<1>4. QED BY <1>0, <1>2, <1>3, IgetFacts

-----------------------------------------------------------------------------
(* Offsets, reads and writes *)

LEMMA GreatestUpTo ==
    ASSUME NEW a \in Int, NEW b \in Int, NEW S \in SUBSET (a .. b), S # {}
    PROVE  Greatest(S) \in S /\ \A y \in S : y <= Greatest(S)
<1> DEFINE T == {b - x : x \in S}
<1>1. T \in SUBSET (0 .. b - a) /\ T # {} /\ b - a \in Int
  <2>1. ASSUME NEW x \in S PROVE b - x \in 0 .. b - a
    OBVIOUS
  <2>2. T \subseteq 0 .. b - a
    BY <2>1
  <2>3. T # {}
    OBVIOUS
  <2>4. QED BY <2>2, <2>3
<1>2. PICK m \in T : \A y \in T : m <= y
  <2> HIDE DEF T
  <2>1. QED BY <1>1, LeastUpTo
<1>3. PICK x \in S : m = b - x
  OBVIOUS
<1>4. ASSUME NEW y \in S PROVE y <= x
  <2>1. b - y \in T /\ x \in Int /\ y \in Int
    OBVIOUS
  <2>2. b - x <= b - y
    BY <1>2, <1>3, <2>1
  <2>3. QED BY <2>1, <2>2
<1>5. QED BY <1>4 DEF Greatest

\* A remainder of 2^32 is an unsigned number.
LEMMA Unsigned ==
    ASSUME NEW n \in Int
    PROVE  n % UINT \in 0 .. UINT - 1
BY ServiceAssumption

LEMMA OffsetSet ==
    ASSUME ServiceInv, NEW f \in OpenFile, NEW x \in 0 .. UINT - 1,
           ftable' = [ftable EXCEPT ![f].off = x], ofile' = ofile
    PROVE  FilesKept /\ ftable'[f].off = x
<1> DEFINE r == [ftable[f] EXCEPT !.off = x]
<1>1. ftable \in [OpenFile -> FileRecord] /\ ofile \in [Fd -> OpenFile \cup {0}]
  BY FilesParts DEF FilesTyped
<1>2. ftable[f] \in FileRecord
  BY <1>1
<1>3. r \in FileRecord /\ r.ref = ftable[f].ref /\ r.ip = ftable[f].ip /\ r.off = x
  BY <1>2 DEF FileRecord
<1>4. ftable' = [ftable EXCEPT ![f] = r]
  OBVIOUS
<1> HIDE DEF r
<1>5. QED BY <1>1, <1>3, <1>4 DEF FilesKept, FilesTyped

LEMMA FileFacts ==
    ASSUME ServiceInv, NEW fd \in Fd, ofile[fd] # 0
    PROVE  /\ ofile[fd] \in OpenFile /\ Size(ofile[fd]) \in 0 .. MAXSIZE
           /\ ftable[ofile[fd]].off \in 0 .. UINT - 1
<1> DEFINE s == At(ftable[ofile[fd]].ip)
<1>1. /\ ofile[fd] \in OpenFile /\ s.slot = ftable[ofile[fd]].ip
      /\ s.ino = itable[s.slot].ino /\ s \in Handle
  BY OpenFacts DEF Locked
<1>2. ftable[ofile[fd]] \in FileRecord
  BY <1>1, FilesParts DEF FilesTyped
<1> HIDE DEF s
<1>3. QED BY <1>1, <1>2 DEF Size, Handle, InodeType, FileRecord

\* Where readi stops.
LEMMA ReadFacts ==
    ASSUME ServiceInv, NEW fd \in Fd, ofile[fd] # 0, NEW off \in 0 .. UINT - 1, NEW n \in Count,
           ReadAt(ofile[fd], off, n)
    PROVE  \E r \in Nat : /\ ftable' = [ftable EXCEPT ![ofile[fd]].off = off + r]
                          /\ off + r \in 0 .. UINT - 1
                          /\ ret' = Number(r) \/ (ret' = Error /\ r = 0)
                          /\ r > 0 => off + r <= Size(ofile[fd])
<1> DEFINE f == ofile[fd]  size == Size(f)
           avail == IF off > size \/ off + n >= UINT THEN 0
                    ELSE IF off + n > size THEN size - off ELSE n
<1>1. f \in OpenFile /\ size \in 0 .. MAXSIZE
  BY FileFacts
<1>2. n \in 1 .. UINT - 1 /\ UINT \in Nat /\ MAXSIZE \in Nat /\ 2 * MAXSIZE < UINT
  BY ServiceAssumption
<1>3. CASE ftable[f].readable
  <2>1. PICK r \in 0 .. avail : ftable' = [ftable EXCEPT ![f].off = off + r] /\ ret' = Number(r)
    BY <1>3 DEF ReadAt
  <2> HIDE DEF size
  <2>2. avail \in Int /\ r \in Nat /\ r <= avail
    BY <1>1, <1>2
  <2>3. off + r \in 0 .. UINT - 1 /\ (r > 0 => off + r <= size)
    BY <1>1, <1>2, <2>2
  <2>4. QED BY <2>1, <2>2, <2>3 DEF size
<1>4. CASE ~ftable[f].readable
  <2>1. ftable' = [ftable EXCEPT ![f].off = off] /\ ret' = Error
    BY <1>4 DEF ReadAt
  <2>2. off + 0 = off /\ 0 \in Nat /\ ~(0 > 0)
    BY <1>2
  <2> HIDE DEF f
  <2>3. QED BY <2>1, <2>2 DEF f
<1>5. QED BY <1>3, <1>4

\* What writei does not refuse ends inside the largest file.
LEMMA AcceptedFacts ==
    ASSUME NEW off \in Int, NEW n \in Count
    PROVE  /\ Accepted(off, n) \in 0 .. n
           /\ Accepted(off, n) # 0 => off + Accepted(off, n) <= MAXSIZE
<1> DEFINE E == {e \in 1 .. n : (e % CHUNK = 0 \/ e = n) /\ off + e <= MAXSIZE}  S == {0} \cup E
<1>1. n \in Int /\ n > 0
  BY ServiceAssumption
<1>2. S \in SUBSET (0 .. n) /\ S # {}
  BY <1>1
<1>3. Accepted(off, n) = Greatest(S)
  BY DEF Accepted
<1>4. Greatest(S) \in S
  <2> HIDE DEF E, S
  <2>1. 0 \in Int /\ n \in Int /\ S \in SUBSET (0 .. n) /\ S # {}
    BY <1>1, <1>2
  <2>2. QED BY <2>1, GreatestUpTo
<1>5. QED BY <1>2, <1>3, <1>4

LEMMA ReportedFacts ==
    ASSUME NEW n \in Nat, NEW k \in Nat
    PROVE  Reported(k, n) \in Int /\ Reported(k, n) <= k
<1>1. CHUNK \in Nat \ {0}
  BY ServiceAssumption
<1>2. k % CHUNK \in 0 .. CHUNK - 1
  BY <1>1
<1>3. QED BY <1>1, <1>2 DEF Reported

LEMMA ReadStep ==
    ASSUME ServiceInv, Running, NEW fd \in Fd, ofile[fd] # 0, NEW off \in 0 .. UINT - 1,
           NEW n \in Count, ReadAt(ofile[fd], off, n),
           UNCHANGED <<itable, dinode, dir, ofile, halted>>
    PROVE  StepOk
<1>1. PICK r \in Nat : /\ ftable' = [ftable EXCEPT ![ofile[fd]].off = off + r]
                       /\ off + r \in 0 .. UINT - 1
                       /\ ret' = Number(r) \/ ret' = Error
  BY ReadFacts
<1>2. FilesKept
  BY <1>1, FileFacts, OffsetSet
<1>3. Outcome /\ FullTableOnly
  BY <1>1, NumberTyped, ErrorTyped DEF Outcome, Running, FullTableOnly
<1>4. QED BY <1>2, <1>3, Untouched DEF StepOk

\* What filewrite does: a write that is not refused changes the size, on disk and
\* in the slot, to at least where it ends.
LEMMA WriteFacts ==
    ASSUME ServiceInv, Running, NEW fd \in Fd, ofile[fd] # 0, NEW off \in 0 .. UINT - 1,
           NEW n \in Count, WriteAt(ofile[fd], off, n), UNCHANGED <<dir, ofile>>
    PROVE  /\ StepOk
           /\ \E k \in Nat : /\ ftable' = [ftable EXCEPT ![ofile[fd]].off = off + k]
                             /\ off + k \in 0 .. UINT - 1
                             /\ ret' = Number(Reported(k, n)) \/ (ret' = Error /\ k = 0)
                             /\ k > 0 => off + k <= Size(ofile[fd])'
<1> DEFINE f == ofile[fd]  ip == ftable[f].ip  acc == Accepted(off, n)  s == At(ip)
<1>1. /\ f \in OpenFile /\ s.slot = ip /\ s.ref = itable[s.slot].ref /\ s.ref <= MaxRef
      /\ s.slot \in Slot /\ Opens(s.slot) <= s.ref /\ s.ino = itable[ip].ino /\ Locked(s, dir)
  BY OpenFacts
<1>2. n \in 1 .. UINT - 1 /\ UINT \in Nat /\ MAXSIZE \in Nat /\ 2 * MAXSIZE < UINT
  BY ServiceAssumption
<1>3. acc \in 0 .. n /\ (acc # 0 => off + acc <= MAXSIZE)
  BY <1>2, AcceptedFacts
<1>4. CASE ~ftable[f].writable
  <2>1. /\ ftable' = [ftable EXCEPT ![f].off = off] /\ ret' = Error
        /\ UNCHANGED <<itable, dinode, halted>>
    BY <1>4 DEF WriteAt
  <2>2. FilesKept
    BY <1>1, <2>1, OffsetSet
  <2>3. Outcome /\ FullTableOnly
    BY <2>1, ErrorTyped DEF Outcome, Running, FullTableOnly
  <2>4. StepOk
    BY <2>1, <2>2, <2>3, Untouched DEF StepOk
  <2>5. off + 0 = off /\ 0 \in Nat /\ ~(0 > 0)
    BY <1>2
  <2> HIDE DEF f
  <2>6. QED BY <2>1, <2>4, <2>5 DEF f
<1>5. CASE ftable[f].writable
  <2> DEFINE ino == itable[ip].ino
             Grown(end) == [ino EXCEPT !.size = IF end > @ THEN end ELSE @]
  <2>1. PICK k \in 0 .. acc :
          /\ ftable' = [ftable EXCEPT ![f].off = off + k]
          /\ ret' = Number(Reported(k, n))
          /\ Become(IF acc = 0 THEN s ELSE Update(s, Grown(off + k)))
    BY <1>5 DEF WriteAt
  <2> DEFINE o == Grown(off + k)
             u == IF acc = 0 THEN s ELSE Update(s, o)
  <2>2. k \in Nat /\ n \in Nat /\ k <= acc
    BY <1>2, <1>3, <2>1
  <2>3. off + k \in 0 .. UINT - 1 /\ (acc # 0 => off + k <= MAXSIZE)
    BY <1>2, <1>3, <2>2
  <2>4. ret' \in Result
    BY <2>1, <2>2, ReportedFacts, NumberTyped
  <2>5. FilesKept
    BY <1>1, <2>1, <2>3, OffsetSet
  <2>6. s \in Handle /\ s.ino \in InodeType
    BY <1>1 DEF Locked, Handle
  <2>7. acc # 0 => /\ o \in InodeType /\ o.type = s.ino.type /\ o.nlink = s.ino.nlink
                   /\ o.size >= off + k
    <3> HIDE DEF acc, s
    <3>1. ino = s.ino /\ off + k \in Nat
      BY <1>1, <2>3
    <3>2. QED BY <2>3, <2>6, <3>1 DEF InodeType
  <2>8. Become(u)
    BY <2>1
  <2> HIDE DEF o, s, acc, f, ip
  <2>9. /\ Locked(u, dir) /\ u.ref = s.ref /\ u.slot = s.slot
        /\ acc # 0 => u.ino.size >= off + k
    <3>1. CASE acc = 0
      BY <1>1, <3>1
    <3>2. CASE acc # 0
      BY <1>1, <2>6, <2>7, <3>2, UpdateFacts DEF Locked, Sole
    <3>3. QED BY <3>1, <3>2
  <2> HIDE DEF u
  <2>10. Consistent(u, dir') /\ u \in Handle /\ ~u.panic /\ u.valid
    BY <1>1, <2>9, LockedConsistent DEF Locked
  <2>11. StepOk
    BY <1>1, <2>4, <2>5, <2>8, <2>9, <2>10, InstalledKept DEF StepOk, Running, FullTableOnly
  <2>12. itable'[u.slot].ino = u.ino
    BY <1>1, <2>8, <2>9, <2>10, Typed, BecomeFacts
  <2>13. Size(f)' = itable'[ip].ino.size
    BY <1>1, <2>5 DEF Size, FilesKept, f, ip
  <2>14. k > 0 => off + k <= Size(f)'
    BY <1>1, <2>2, <2>3, <2>9, <2>10, <2>12, <2>13 DEF Handle, InodeType
  <2>15. QED BY <2>1, <2>2, <2>3, <2>11, <2>14 DEF f
<1>6. QED BY <1>4, <1>5

LEMMA SeekFailsStep ==
    ASSUME ServiceInv, Running, NEW fd \in Fd, ofile[fd] # 0, NEW off \in 0 .. UINT - 1,
           SeekFails(ofile[fd], off), UNCHANGED <<dir, ofile>>
    PROVE  StepOk
<1>1. ftable' = [ftable EXCEPT ![ofile[fd]].off = off] /\ ret' = Error
      /\ UNCHANGED <<itable, dinode, halted>>
  BY DEF SeekFails
<1>2. FilesKept
  BY <1>1, FileFacts, OffsetSet
<1>3. Outcome /\ FullTableOnly
  BY <1>1, ErrorTyped DEF Outcome, Running, FullTableOnly
<1>4. QED BY <1>1, <1>2, <1>3, Untouched DEF StepOk

LEMMA SeekStep ==
    ASSUME ServiceInv, Running, NEW fd \in Fd, ofile[fd] # 0, NEW base \in Int, NEW d \in Int,
           NEW end, Seek(fd, base, d, end)
    PROVE  StepOk
<1> DEFINE off == (base + d) % UINT
<1>1. off \in 0 .. UINT - 1 /\ UINT \in Nat
  BY Unsigned, ServiceAssumption
<1>2. /\ ftable' = [ftable EXCEPT ![ofile[fd]].off = off] /\ ret' = Number(AsInt(off))
      /\ halted' \in {"assert", halted} /\ UNCHANGED <<itable, dinode, dir, ofile>>
  BY DEF Seek
<1> HIDE DEF off
<1>3. AsInt(off) \in Int
  BY <1>1 DEF AsInt
<1>4. FilesKept
  BY <1>1, <1>2, FileFacts, OffsetSet
<1>5. Outcome /\ FullTableOnly
  BY <1>2, <1>3, NumberTyped DEF Outcome, Running, FullTableOnly
<1>6. QED BY <1>2, <1>4, <1>5, Untouched DEF StepOk

LEMMA LseekStep ==
    ASSUME ServiceInv, NEW fd \in Fd, NEW d \in Distance, Lseek(fd, d)
    PROVE  StepOk
<1>1. d \in Int /\ 0 \in Int /\ UINT \in Nat /\ MAXSIZE \in Nat
  BY ServiceAssumption DEF Distance
<1>2. Running /\ ofile[fd] # 0
  BY DEF Lseek
<1>3. ftable[ofile[fd]].off \in Int /\ Size(ofile[fd]) \in Int
  BY <1>1, <1>2, FileFacts
<1>4. QED BY <1>1, <1>2, <1>3, SeekStep DEF Lseek

LEMMA PositionOffset == ASSUME NEW p \in Pos PROVE p % UINT \in 0 .. UINT - 1
BY Unsigned, ServiceAssumption

LEMMA PreadStep ==
    ASSUME ServiceInv, NEW fd \in Fd, NEW p \in Pos, NEW n \in Count, Pread(fd, p, n)
    PROVE  StepOk
BY PositionOffset, SeekFailsStep, ReadStep DEF Pread

LEMMA PwriteStep ==
    ASSUME ServiceInv, NEW fd \in Fd, NEW p \in Pos, NEW n \in Count, Pwrite(fd, p, n)
    PROVE  StepOk
BY PositionOffset, SeekFailsStep, WriteFacts DEF Pwrite

-----------------------------------------------------------------------------
(* The invariant *)

LEMMA InitOk == Init => ServiceInv
<1> SUFFICES ASSUME Init PROVE ServiceInv
  OBVIOUS
<1>1. FreeInode \in InodeType
  BY ServiceAssumption DEF FreeInode, InodeType
<1>2. TypeOK
  <2>1. itable \in [Slot -> Entry]
    BY <1>1, ServiceAssumption DEF Init, Entry
  <2>2. ftable \in [OpenFile -> FileRecord]
    BY ServiceAssumption DEF Init, NoFile, FileRecord
  <2>3. ret \in Result
    BY NumberTyped DEF Init
  <2>4. QED BY <1>1, <2>1, <2>2, <2>3 DEF Init, TypeOK, Entry, FileRecord, Result
<1>3. OneSlotPerInode /\ HeldInv /\ NoOrphan
  BY DEF Init, OneSlotPerInode, HeldInv, NoOrphan, FreeInode
<1>4. NamesInv
  BY DEF Init, NamesInv, FreeInode
<1>5. FilesInv
  <2>1. ASSUME NEW k \in Slot PROVE Opens(k) <= itable[k].ref
    <3>1. OpensAt(k) = {} /\ itable[k].ref = 0
      BY DEF Init, OpensAt, NoFile
    <3>2. QED BY <3>1, OpensFinite
  <2>2. QED BY <2>1 DEF Init, FilesInv, NoFile
<1>6. QED BY <1>2, <1>3, <1>4, <1>5 DEF ServiceInv

\* Every step but those two is StepOk.
LookUp(i) == Lstat(i) \/ OpenExisting(i)

LEMMA LookUpFacts ==
    ASSUME ServiceInv, NEW i \in File, LookUp(i)
    PROVE  /\ ServiceInv' /\ FullTableOnly
           /\ \A k \in Slot : Kept(k)' # Kept(k) => Kept(k)' = Kept(k) + 1 /\ itable'[k].inum = i
<1>1. CASE OpenExisting(i)
  BY <1>1, ErrorTyped, LookUpStep DEF OpenExisting
<1>2. CASE Lstat(i)
  <2>1. stati(iget(i)) \in Result
    <3>1. CASE iget(i) = NoInode
      <4>1. FreeInode \in InodeType
        BY ServiceAssumption DEF FreeInode, InodeType
      <4>2. QED BY <3>1, <4>1 DEF NoInode, stati, Result
    <3>2. CASE Leads(iget(i), i, 1)
      BY <3>2, StatTyped DEF Leads
    <3>3. QED BY <3>1, <3>2, IgetFacts
  <2>2. QED BY <1>2, <2>1, LookUpStep DEF Lstat
<1>3. QED BY <1>1, <1>2 DEF LookUp

LEMMA ServiceStep ==
    ASSUME ServiceInv, [Next]_vars
    PROVE  StepOk \/ \E i \in File : LookUp(i)
<1>1. ASSUME NEW m \in Mode, OpenCreate(m) PROVE StepOk
  BY <1>1, OpenCreateStep
<1>2. ASSUME NEW m \in Mode, NEW i \in File, Open(i, m) PROVE StepOk
  BY <1>2, OpenStep
<1>3. ASSUME NEW m \in Mode, NEW i \in File, OpenTrunc(i, m) PROVE StepOk
  BY <1>3, OpenTruncStep
<1>4. CASE OpenCreateFails
  BY <1>4, OpenCreateFailsStep
<1>5. ASSUME NEW i \in File, Unlink(i) PROVE StepOk
  BY <1>5, UnlinkStep
<1>6. ASSUME NEW i \in File, LookThrough(i) PROVE StepOk
  BY <1>6, LookThroughStep
<1>7. ASSUME NEW fd \in Fd, Close(fd) PROVE StepOk
  BY <1>7, CloseStep
<1>8. ASSUME NEW fd \in Fd, Fstat(fd) PROVE StepOk
  BY <1>8, FstatStep
<1>9. ASSUME NEW fd \in Fd, NEW n \in Count, Read(fd, n) PROVE StepOk
  BY <1>9, FileFacts, ReadStep DEF Read
<1>10. ASSUME NEW fd \in Fd, NEW n \in Count, Write(fd, n) PROVE StepOk
  BY <1>10, FileFacts, WriteFacts DEF Write
<1>11. ASSUME NEW fd \in Fd, NEW p \in Pos, NEW n \in Count, Pread(fd, p, n) PROVE StepOk
  BY <1>11, PreadStep
<1>12. ASSUME NEW fd \in Fd, NEW p \in Pos, NEW n \in Count, Pwrite(fd, p, n) PROVE StepOk
  BY <1>12, PwriteStep
<1>13. ASSUME NEW fd \in Fd, NEW d \in Distance, Lseek(fd, d) PROVE StepOk
  BY <1>13, LseekStep
<1>14. CASE UNCHANGED vars
  <2>1. Outcome
    BY <1>14 DEF Outcome, vars, ServiceInv, TypeOK, Result
  <2>2. FilesKept
    BY <1>14, FilesUnchanged DEF vars
  <2>3. ServiceInv' /\ KeptSame
    BY <1>14, <2>1, <2>2, Untouched DEF vars
  <2>4. QED BY <1>14, <2>3 DEF StepOk, Running, FullTableOnly, vars
<1>15. QED
  BY <1>1, <1>2, <1>3, <1>4, <1>5, <1>6, <1>7, <1>8, <1>9, <1>10, <1>11, <1>12, <1>13, <1>14
  DEF Next, Basic, Leaky, Positioned, LookUp

THEOREM ServiceInvariant == Spec => []ServiceInv
<1>1. Init => ServiceInv
  BY InitOk
<1>2. ServiceInv /\ [Next]_vars => ServiceInv'
  BY ServiceStep, LookUpFacts DEF StepOk
<1>3. QED BY <1>1, <1>2, PTL DEF Spec

-----------------------------------------------------------------------------
(* What follows from it *)

LEMMA SoundTables == ServiceInv => InodeTableSound
<1> SUFFICES ASSUME ServiceInv PROVE InodeTableSound
  OBVIOUS
<1>1. ASSUME NEW f \in OpenFile, ftable[f].ref > 0
      PROVE  LET e == itable[ftable[f].ip]
             IN  e.ref > 0 /\ e.valid /\ e.ino.type = 2 /\ e.ino = dinode[e.inum]
  <2> DEFINE k == ftable[f].ip
  <2>1. ftable[f].ref = 1
    BY <1>1, FilesParts, OpenFileTyped
  <2>2. k \in Slot /\ itable[k].valid /\ Opens(k) <= itable[k].ref /\ f \in OpensAt(k)
    BY <1>1, <2>1, FilesParts DEF Backed, OpensAt
  <2> HIDE DEF k
  <2>3. itable[k].ref > 0
    <3>1. itable[k] \in Entry
      BY <2>2, Typed DEF TablesTyped
    <3>2. Opens(k) # 0 /\ Opens(k) \in Nat
      BY <2>2, OpensFinite
    <3>3. QED BY <2>2, <3>1, <3>2, ServiceAssumption DEF Entry
  <2>4. dinode[itable[k].inum].type = 2 /\ itable[k].ino = dinode[itable[k].inum]
    BY <2>2, <2>3 DEF ServiceInv, HeldInv
  <2>5. QED BY <2>2, <2>3, <2>4 DEF k
<1>2. QED BY <1>1 DEF InodeTableSound, OpenInodeLoaded, ServiceInv

\* The inode table never holds an inode twice, and the inode of every open file
\* is in it, loaded and as the disk has it: iget's search, ilock's load and iput's
\* last reference on every path of the calls of sysfile.c.
THEOREM TableIsSound == Spec => []InodeTableSound
BY ServiceInvariant, SoundTables, PTL

LEMMA OwnedFiles == ServiceInv => NothingAbandoned
<1> SUFFICES ASSUME ServiceInv, NEW f \in OpenFile
             PROVE  Cardinality({fd \in Fd : ofile[fd] = f}) = ftable[f].ref
  BY DEF NothingAbandoned, DescriptorPerFile, ServiceInv
<1> DEFINE D == {fd \in Fd : ofile[fd] = f}
<1>1. FilesTyped /\ Paired
  BY FilesParts
<1>2. f # 0 /\ ftable[f].ref \in {0, 1}
  BY <1>1, OpenFileTyped
<1>3. CASE ftable[f].ref = 0
  <2>1. D = {}
    BY <1>1, <1>2, <1>3 DEF Paired
  <2>2. QED BY <1>3, <2>1, FS_EmptySet
<1>4. CASE ftable[f].ref = 1
  <2>1. PICK fd \in Fd : ofile[fd] = f
    BY <1>1, <1>4 DEF Paired
  <2>2. D = {fd}
    BY <1>1, <1>2, <2>1 DEF Paired
  <2>3. QED BY <1>4, <2>2, FS_Singleton
<1>5. QED BY <1>2, <1>3, <1>4

\* No path through open, close and unlink leaves an open file without its one
\* descriptor, or an inode of the disk without a name and a reference.
THEOREM NothingIsAbandoned == Spec => []NothingAbandoned
BY ServiceInvariant, OwnedFiles, PTL

\* When no slot is free and none has a reference beyond its open files, a
\* descriptor is open for every slot.
LEMMA FullTable ==
    ASSUME ServiceInv, FreeSlots = {}, \A k \in Slot : ~(Kept(k) > 0)
    PROVE  Cardinality({fd \in Fd : ofile[fd] # 0}) >= NINODE
<1> DEFINE D == {fd \in Fd : ofile[fd] # 0}  g == [fd \in D |-> ftable[ofile[fd]].ip]
<1>1. ASSUME NEW k \in Slot PROVE \E fd \in D : g[fd] = k
  <2>1. itable[k] \in Entry /\ itable[k].ref # 0
    BY Typed DEF TablesTyped, FreeSlots
  <2>2. itable[k].ref \in Nat /\ itable[k].ref > 0
    BY <2>1, ServiceAssumption DEF Entry
  <2>3. Opens(k) \in Nat /\ Opens(k) > 0
    BY <2>2, OpensFinite DEF Kept
  <2>4. PICK f \in OpenFile : ftable[f].ref > 0 /\ ftable[f].ip = k
    <3>1. OpensAt(k) # {}
      BY <2>3, OpensFinite
    <3>2. QED BY <3>1 DEF OpensAt
  <2>5. ftable[f].ref = 1 /\ f # 0
    BY <2>4, FilesParts, OpenFileTyped
  <2>6. PICK fd \in Fd : ofile[fd] = f
    BY <2>5, FilesParts DEF Paired
  <2>7. QED BY <2>4, <2>5, <2>6
<1>2. IsFiniteSet(D) /\ Cardinality(D) \in Nat
  <2>1. IsFiniteSet(Fd)
    BY ServiceAssumption, FS_Interval DEF Fd
  <2>2. D \subseteq Fd
    OBVIOUS
  <2> HIDE DEF D
  <2>3. QED BY <2>1, <2>2, FS_Subset, FS_CardinalityType
<1> DEFINE T == {g[fd] : fd \in D}
<1>3. Slot \subseteq T /\ g \in Surjection(D, T)
  BY <1>1 DEF Surjection
<1> HIDE DEF D, g, T
<1>4. IsFiniteSet(T) /\ Cardinality(T) <= Cardinality(D)
  BY <1>2, <1>3, FS_Surjection
<1>5. IsFiniteSet(Slot) /\ Cardinality(Slot) = NINODE
  <2>1. 1 \in Int /\ NINODE \in Int /\ NINODE = IF 1 > NINODE THEN 0 ELSE NINODE - 1 + 1
    BY ServiceAssumption
  <2>2. QED BY <2>1, FS_Interval DEF Slot
<1>6. Cardinality(Slot) <= Cardinality(T)
  BY <1>3, <1>4, FS_Subset
<1>7. NINODE <= Cardinality(D)
  <2>1. Cardinality(T) \in Nat /\ NINODE \in Nat
    BY <1>4, FS_CardinalityType, ServiceAssumption
  <2>2. QED BY <1>2, <1>4, <1>5, <1>6, <2>1
<1>8. QED BY <1>2, <1>7, ServiceAssumption DEF D

\* ilock always finds a type and unlink a link to take away; iget panics for want
\* of a slot only when a descriptor is open for every slot or lookups have kept
\* references.  With the 13 descriptors and 50 slots of the code only those
\* references lead there, however many files the disk has.
THEOREM PanicsAreLeaks == Spec => []PanicOnlyByLeaks
<1> DEFINE I == halted # "panic" /\ (halted = "no inodes" => FreeSlots = {})
<1>1. Init => I
  BY DEF Init
<1>2. ServiceInv /\ I /\ [Next]_vars => I'
  <2> SUFFICES ASSUME ServiceInv, I, [Next]_vars PROVE I'
    OBVIOUS
  <2>1. CASE Running
    BY <2>1, ServiceStep, LookUpFacts DEF StepOk, FullTableOnly
  <2>2. CASE ~Running
    <3>1. UNCHANGED <<halted, itable>>
      BY <2>2 DEF Next, Basic, Leaky, Positioned, vars, OpenCreate, Open, OpenTrunc, OpenCreateFails,
         Unlink, LookThrough, Close, Fstat, Read, Write, Lstat, OpenExisting, Pread, Pwrite, Lseek
    <3>2. QED BY <3>1 DEF FreeSlots
  <2>3. QED BY <2>1, <2>2
<1>3. ServiceInv /\ I => PanicOnlyByLeaks
  BY FullTable DEF PanicOnlyByLeaks
<1> HIDE DEF I
<1>4. QED BY <1>1, <1>2, <1>3, ServiceInvariant, PTL DEF Spec

\* References beyond those of the open files come from lstat and from an open with
\* O_CREAT of an existing name, one at a time, and are never given back.
THEOREM OnlyLookupsKeep == Spec => KeptOnlyByLookups
<1> DEFINE A == \A k \in Slot : Kept(k)' # Kept(k) =>
                  /\ Kept(k)' = Kept(k) + 1
                  /\ \E i \in File : itable'[k].inum = i /\ (Lstat(i) \/ OpenExisting(i))
<1>1. ServiceInv /\ [Next]_vars => A
  <2> SUFFICES ASSUME ServiceInv, [Next]_vars PROVE A
    OBVIOUS
  <2>1. CASE StepOk
    BY <2>1 DEF StepOk, KeptSame
  <2>2. ASSUME NEW i \in File, LookUp(i) PROVE A
    BY <2>2, LookUpFacts DEF LookUp
  <2>3. QED BY <2>1, <2>2, ServiceStep
<1>2. ServiceInv /\ [Next]_vars => [A]_vars
  BY <1>1
<1> HIDE DEF A
<1>3. Spec => [][A]_vars
  BY <1>2, ServiceInvariant, PTL DEF Spec
<1>4. QED BY <1>3 DEF KeptOnlyByLookups, A

-----------------------------------------------------------------------------
(* What the calls return *)

LEMMA FstatReports ==
    ASSUME ServiceInv, NEW fd \in Fd, Fstat(fd)
    PROVE  ret'.stat.inode = dinode[ret'.stat.ino]
<1> DEFINE s == At(ftable[ofile[fd]].ip)
<1>1. ofile[fd] # 0 /\ ret' = stati(ilock(s))
  BY DEF Fstat
<1>2. Locked(s, dir) /\ s.disk = dinode[s.inum]
  BY <1>1, OpenFacts
<1> HIDE DEF s
<1>3. ilock(s) = s
  BY <1>2 DEF ilock, Locked, Handle
<1>4. QED BY <1>1, <1>2, <1>3 DEF stati, Locked

LEMMA LstatReports ==
    ASSUME ServiceInv, NEW i \in File, Lstat(i), NEW f \in OpenFile, ftable[f].ref > 0,
           itable[ftable[f].ip].inum = i
    PROVE  ret'.stat.inode = dinode[i]
<1> DEFINE k == ftable[f].ip
<1>0. PICK s : s = iget(i)
  OBVIOUS
<1>1. k \in Slot /\ itable[k].ref > 0 /\ itable[k].valid
  BY SoundTables, FilesParts, OpenFileTyped DEF InodeTableSound, OpenInodeLoaded, Backed
<1>2. k \in HeldSlots(i)
  BY <1>1 DEF HeldSlots
<1>3. Leads(s, i, 1)
  BY <1>0, <1>2, IgetFacts
<1>4. s.slot = k /\ s.valid
  BY <1>1, <1>3 DEF Leads, Sole
<1>5. QED BY <1>0, <1>3, <1>4 DEF Leads, Lstat, stati

\* fstat, and lstat of an open file, report the inode the disk has: what ilock
\* loaded is never behind what iupdate wrote.
THEOREM StatIsCurrent == Spec => StatReportsInode
<1> DEFINE A == ret'.stat.ino # 0 =>
                  /\ \A fd \in Fd : Fstat(fd) => ret'.stat.inode = dinode[ret'.stat.ino]
                  /\ \A i \in File :
                       Lstat(i) /\ (\E f \in OpenFile : ftable[f].ref > 0 /\ itable[ftable[f].ip].inum = i)
                         => ret'.stat.inode = dinode[i]
<1>1. ServiceInv /\ [Next]_vars => [A]_vars
  BY FstatReports, LstatReports
<1> HIDE DEF A
<1>2. Spec => [][A]_vars
  BY <1>1, ServiceInvariant, PTL DEF Spec
<1>3. QED BY <1>2 DEF StatReportsInode, A

LEMMA ReadEnds ==
    ASSUME ServiceInv, NEW fd \in Fd, ofile[fd] # 0, NEW off \in 0 .. UINT - 1, NEW n \in Count,
           ReadAt(ofile[fd], off, n), UNCHANGED <<itable, ofile>>, ret'.n > 0
    PROVE  ftable'[ofile[fd]].off <= Size(ofile[fd])'
<1>1. PICK r \in Nat : /\ ftable' = [ftable EXCEPT ![ofile[fd]].off = off + r]
                       /\ off + r \in 0 .. UINT - 1
                       /\ ret' = Number(r) \/ (ret' = Error /\ r = 0)
                       /\ r > 0 => off + r <= Size(ofile[fd])
  BY ReadFacts
<1>2. r > 0
  BY <1>1 DEF Number, Error
<1>3. ofile[fd] \in OpenFile /\ FilesKept /\ ftable'[ofile[fd]].off = off + r
  BY <1>1, FileFacts, OffsetSet
<1>4. Size(ofile[fd])' = Size(ofile[fd])
  BY <1>3 DEF Size, FilesKept
<1>5. QED BY <1>1, <1>2, <1>3, <1>4

LEMMA WriteEnds ==
    ASSUME ServiceInv, Running, NEW fd \in Fd, ofile[fd] # 0, NEW off \in 0 .. UINT - 1,
           NEW n \in Count, WriteAt(ofile[fd], off, n), UNCHANGED <<dir, ofile>>
    PROVE  /\ ret'.n > 0 => ftable'[ofile[fd]].off <= Size(ofile[fd])'
           /\ ret'.n > 0 => ret'.n <= ftable'[ofile[fd]].off - off
<1>1. PICK k \in Nat : /\ ftable' = [ftable EXCEPT ![ofile[fd]].off = off + k]
                       /\ off + k \in 0 .. UINT - 1
                       /\ ret' = Number(Reported(k, n)) \/ (ret' = Error /\ k = 0)
                       /\ k > 0 => off + k <= Size(ofile[fd])'
  BY WriteFacts
<1>2. ofile[fd] \in OpenFile /\ ftable'[ofile[fd]].off = off + k
  BY <1>1, FileFacts, OffsetSet
<1>3. n \in Nat /\ UINT \in Nat
  BY ServiceAssumption
<1>4. Reported(k, n) \in Int /\ Reported(k, n) <= k
  BY <1>3, ReportedFacts
<1>5. ret' = Error \/ ret'.n = Reported(k, n)
  BY <1>1 DEF Number
<1>6. ret'.n > 0 => k > 0
  BY <1>1, <1>4 DEF Number, Error
<1>7. (off + k) - off = k
  BY <1>3
<1>8. ret'.n > 0 => ret'.n <= k
  BY <1>4, <1>5 DEF Error, Number
<1>9. QED BY <1>1, <1>2, <1>6, <1>7, <1>8

LEMMA SeekFailsReturns == ASSUME NEW f, NEW off, SeekFails(f, off) PROVE ~(ret'.n > 0)
BY DEF SeekFails, Error, Number

\* A client can rely on what a transfer returns, whatever offset it has sought to:
\* write reports no more than it moved the offset by, and what any transfer moves
\* ends inside the file.
THEOREM TransfersAreSound == Spec => TransfersSound
<1> DEFINE A == \A fd \in Fd, n \in Count : ret'.n > 0 /\ Write(fd, n) => ret'.n <= Moved(fd)
           B == \A fd \in Fd :
                  /\ ret'.n > 0
                  /\ \E n \in Count :
                       \/ Read(fd, n) \/ Write(fd, n)
                       \/ \E p \in Pos : Pread(fd, p, n) \/ Pwrite(fd, p, n)
                  => ftable'[ofile[fd]].off <= Size(ofile[fd])'
<1>1. ServiceInv /\ [Next]_vars => [A]_vars
  BY FileFacts, WriteEnds DEF Write, Moved
<1>2. ServiceInv /\ [Next]_vars => [B]_vars
  <2> SUFFICES ASSUME ServiceInv, NEW fd \in Fd, ret'.n > 0, NEW n \in Count,
                      \/ Read(fd, n) \/ Write(fd, n)
                      \/ \E p \in Pos : Pread(fd, p, n) \/ Pwrite(fd, p, n)
               PROVE  ftable'[ofile[fd]].off <= Size(ofile[fd])'
    OBVIOUS
  <2>1. CASE Read(fd, n)
    BY <2>1, FileFacts, ReadEnds DEF Read
  <2>2. CASE Write(fd, n)
    BY <2>2, FileFacts, WriteEnds DEF Write
  <2>3. ASSUME NEW p \in Pos, Pread(fd, p, n) PROVE ftable'[ofile[fd]].off <= Size(ofile[fd])'
    BY <2>3, PositionOffset, SeekFailsReturns, ReadEnds DEF Pread
  <2>4. ASSUME NEW p \in Pos, Pwrite(fd, p, n) PROVE ftable'[ofile[fd]].off <= Size(ofile[fd])'
    BY <2>4, PositionOffset, SeekFailsReturns, WriteEnds DEF Pwrite
  <2>5. QED BY <2>1, <2>2, <2>3, <2>4
<1> HIDE DEF A, B
<1>3. Spec => [][A]_vars /\ [][B]_vars
  BY <1>1, <1>2, ServiceInvariant, PTL DEF Spec
<1>4. QED BY <1>3 DEF TransfersSound, WriteNotOverstated, TransferInsideFile, A, B
===============================================================================
