# sel4service: specification and verification

sel4service runs a file system as a set of user level servers on seL4: an
application (SQLite with a benchmark), the `xv6fs` server and the `ramdisk`
server.  This directory holds TLA+ modules for the parts with logic of their
own, TLC configurations that check them on small instances, and theorems
checked by TLAPS.

## 1. Inventory

### 1.1 The system's parts

| part | source | state | operations |
|---|---|---|---|
| ramdisk server | `ramdisk/src/main.c` | the array `fs_data` of blocks | `DISK_READ`, `DISK_WRITE` |
| buffer cache | `xv6fs/src/bio.c` | `NBUF` buffers (`dev`, `blockno`, `valid`, `refcnt`, `data`), a list ordered by use | `binit`, `bread` (`bget`), `bwrite`, `brelse`, `bpin`, `bunpin` |
| inode layer | `xv6fs/src/fs.c` | free bitmap, inodes on disk, inode table (`ref`, `valid`, copy of the inode), block contents, root directory | `create_image`, `balloc`, `bfree`, `ialloc`, `iget`, `iupdate`, `ilock`, `iput`, `bmap`, `itrunc`, `readi`, `writei`, `dirlookup`, `dirlink`, `namei` |
| file table | `xv6fs/src/file.c` | `NFILE` open files (`ref`, mode, inode, offset) | `filealloc`, `fileclose`, `fileread`, `filewrite`, `fileseek`, `filestat` |
| system calls | `xv6fs/src/sysfile.c` | file descriptors of the client | open, close, fstat, getcwd, lstat, read, write, pread, pwrite, lseek, unlink |
| transports | `xv6fs/src/main.c`, `ramdisk/src/main.c` | shared buffers, spinlocks, pending interrupt bits | the two main loops, `disk_rw`, `CallBadged` |
| root server | `rootserver/src/main.c` | kernel objects | boot: allocates frames, starts the three processes |
| benchmark | `sqlite3/src/benchmark.c`, `random.c`, `histogram.c`, `raw.c`, `main.c` | key and value generators, loop over batches, statistics | `benchmark_run`, `benchmark_write`, `benchmark_read`, `rand_next`, `rand_gen_generate`, `finished_single_op`, `histogram_add`, `raw_add`, `percentile` |

`mkdir`, `mknod`, `chdir`, `link`, `fsync` and their like exist in `sysfile.c`,
but the loop of `main()` never calls them.

### 1.2 How they interact

The application calls xv6fs, and every `bread` of xv6fs that misses the cache
calls the ramdisk through `disk_rw`.  Three transports are selected when the
system is built:

* `TEST_NORMAL`: seL4 IPC (`seL4_Call`, `seL4_Recv`, `seL4_Reply`).
* `TEST_POLL`: one shared buffer per pair of processes, guarded by a spinlock.
  A label other than `FS_RET` is a request.  xv6fs holds the lock of the client
  buffer while it handles a call, `disk_rw` included.
* `TEST_UINTR`: the same buffers without locks; requests and answers are
  announced by user interrupts.  xv6fs has one set of pending bits: bit 1 is a
  request of the application, bit 2 an answer of the ramdisk.  Receiving clears
  all bits, so a bit that is not wanted now is written back.

Each server is single threaded, and xv6fs has one client.  Concurrency is
between the three processes only; within xv6fs the hard part is long sequences
of legal calls over shared mutable structures (list, bitmap, two copies of every
inode, trees of block pointers), and paths that fail half way when the disk is
full.  Nothing is persistent: the disk is memory and is formatted at every
start, so there is no crash recovery to verify.

### 1.3 What makes each part correct

* **Buffer cache**: one copy of a block; a buffer is never recycled under its
  holder; the list keeps every buffer, and the one recycled is the one released
  longest ago;
  a block's contents survive eviction; the only panic is the one for a cache
  full of held buffers.
* **Inode layer**: a block has at most one owner; a referenced block is marked
  and a marked block is referenced; table and disk agree; an inode lives exactly
  as long as it has a name or a reference; no panic is reachable; the
  application sees files: reads return what was written.
* **Transports**: a buffer is not touched by two processes at once; every call
  is carried out exactly once, with complete arguments, and returns with its own
  answer; no request and no answer is lost, duplicated or mistaken for another.
* **File table and system calls**: an inode has one slot of the table, and its
  reference count changes with the open files on it; an open file has one descriptor
  and a loaded inode; failure paths give everything back; what is reported
  agrees with what was done; transfers stay inside the file.
* **Benchmark**: every key is written and every value lies inside the
  generator's data; the key generator never leaves its cycle; transactions and
  statements are balanced; the histogram and the median agree with the raw data;
  the list of benchmarks ends.

`PROJECT.json` lists the hazards of this code line by line with the properties
that cover them.

## 2. The modules

```
BlockStore  <--implements--  BufferCache   (BufferCacheProofs, MCBufferCache)
FileStore   <--implements--  InodeBlocks   (InodeFunctionProofs, InodeBlocksProofs, MCInodeBlocks)
FileService (FileServiceProofs, MCFileService)
RemoteCall  <--implements--  PollTransport (PollTransportProofs, MCPollTransport)
            <--implements--  UintrTransport (UintrTransportProofs, MCUintrTransport)
            <--implements--  IpcTransport (IpcTransportProofs, MCIpcTransport)
                             each for the client link and for the disk link
Benchmark   (BenchmarkProofs, MCBenchmark)
```

The layers are joined by their abstract specifications: `InodeBlocks` works on
an ideal store of blocks, which is what `BlockStore` promises, and
`BufferCache` reads and writes the disk in one step, which is what the disk link
of the transports promises (`RemoteCall`).

### BufferCache, BlockStore

One action per call of `bio.c`.  `list` has the `next` and `prev` pointers of
the head (node 0) and of every buffer: `Unlinked` and `AtFront` are the six
assignments of `brelse`, `Binit` the loop of `binit`, and `Hit` and `Victim` the
walks of `bget`, which take the first buffer that fits from the front or from the
back (`FirstMet`).  `ListIsRing`, a part of the invariant `CacheInv`, says that
both directions meet every buffer once.  `BreadHit`, `BreadMiss` and
`BreadPanic` are the outcomes of `bread`.  `valid` is left out: between two
calls a bound buffer is always valid.  `MaxRef` bounds `refcnt`.

Two families of callers.  `Spec` is the discipline the comment at the top of
`bio.c` asks for: write a changed buffer with `bwrite` before giving it up, and
give up the last hold with `brelse` (`bunpin` leaves a buffer where it is on the
list, so it is for a pin beside a hold).  `FsSpec` is what `fs.c` does, where
every `log_write` is commented out.

`LeastRecentlyUsed` has both halves of "recycle the least recently used unused
buffer": a buffer that falls out of use comes before all that were unused, whose
order never changes otherwise; and the buffer that gets another block comes after
every other unused one.

`BlockStore` has the contents and the number of holds per block and no buffers;
a call may halt only when `NBUF` different blocks are held.

### InodeBlocks, FileStore

The helpers (`balloc`, `bmap`, `itrunc`, `iput`, `readi`, `writei`, ...) are
functions from a state of the file system to the next one and carry the names
of the C functions; a system call chains them on `Now` and installs the result
with `Become`.  The functions on the contents of an inode (`bmap`, `readi` and
their like) get a `Pointer` to its entry in the table, and `Changed` puts back
what they did to it.  A call that panics stops the server.

A `Place` is the way to a block pointer: which pointer of the inode, and which
entries of indirect blocks after it.  `bmap` walks and extends such a path as the
code does, in three branches of index arithmetic; `Ptr` reads the pointer at a
place, so that "all pointers of a file" is a function (`Pointers`) and "no block
is reached twice" its injectivity.  `itrunc` calls `bfree` for every pointer of
the file, which `bfreeAll` does in one step, with its panic for a block that is
not marked or met twice.  The loops of `readi` and `writei` are functions of the
number of words done.

Names stand for inode
numbers, which loses nothing in a flat directory whose files have one name.
Sizes and offsets are counted in words of 4 bytes; the code's index arithmetic
in `bmap` is the same, as a block has `NINDIRECT` words.  The initial state is
the image of `create_image`, with the root held by `main()`.

`InodeInv` is the inductive invariant.  Its structural part, `StructInv`, has
besides types and block ownership what the table may know that the disk does not
(`TableInv`), how names, links and references of a file go together (`NamesInv`),
and that the directory has no holes and names a file once (`DirInv`).  `DataInv`
is about contents: a file is zero behind its end, so that a write that skips
words leaves zeros; a free inode is empty; and an inode on disk that lacks
pointers of its copy in the table lacks only blocks of zeros, so that the copy can
be forgotten.

Two families of applications: `Spec` does everything; `SmallTruncSpec` never
opens a file that has a double indirect block with `O_TRUNC` (finding 2), and is
what the passing runs use.  Reading a hole (finding 3) is part of both:
`BlocksKept` says that no call, on success or failure, adds to the marked blocks
that belong to no inode, and that only a read leaves an inode in the table ahead of
the disk, so that blocks go when its table entry does.

Assumed: no application opens the root directory for writing (the check in
`xv6fs_open` is commented out, sysfile.c:338); offsets do not overflow 32 bits.
The inode table is unbounded, and `MaxRef` bounds the references to an inode.
Writes begin at an `Offset`, reads at a `ReadOffset`.

**What this rests on.**  `InodeBlocks` works on blocks that keep what is written
to them.  The code of `fs.c` does not get such blocks: by finding 1 a block that
it changed is lost when the cache recycles its buffer.  Everything said about
inodes and files here, checked or proved, is about the server as long as no
changed buffer is recycled, or once the `log_write` calls are replaced by
`bwrite`.

`FileStore` has for every file its status (free, linked, unlinked), references
and contents, and neither blocks nor inodes.  `FileStatus`, `FileRefs` and
`FileContents` say what it sees of a state of `InodeBlocks`.

### FileService

The same system calls from the client's side: descriptors, open files, offsets
and the slots of the inode table, of which the root's own, held by `main()` for
ever, is left out.  Blocks are left to `InodeBlocks`: a read or write may stop
early at any unit, which is what a hole or a write does on a full disk.  Offsets
are unsigned numbers modulo `UINT` (2^32), and `fileseek` returns them as an
`int` (`AsInt`), so that a position from 2^31 is stored and then reported as a
failure (`SeekFails`).  What the functions of `fs.c` get is a pointer to a slot:
`iget`, `ilock`, `iput`, `Update` and their like transform what it leads to (a
handle: the slot, its inode and that inode on disk), and `Become` installs it.
`filewrite` works in chunks and returns the complete ones
(`Reported`), while the offset moves by everything written.  A recycled slot
keeps the fields of its previous inode until `ilock`, which `lstat` does not
call.  `halted` says why the server stopped: the panic of `iget`, any other
panic, or the assertion of `SEEK_END`.

`RefsCountPointers` (references equal open files) fails because of finding 4;
`KeptOnlyByLookups` is what remains for every step: the references beyond the
open files change by one, upwards, and only in the two calls of finding 4.
`PanicOnlyByLeaks` says which panics are left: with more files than slots (200
inodes and 50 slots in the code) only `iget` panics, and only when a descriptor
is open for every slot, which 13 descriptors cannot be, or when some slot has a
reference that finding 4 kept.  All properties hold with those calls included.
`TransferInsideFile` is about the comparisons of `readi` and `writei`, which add
offset and length in 32 bits.  `InodeTableSound`,
`NothingAbandoned` and `TransfersSound` are conjunctions of named parts.
`ServiceInv` relates slots, inodes of the disk, names, open files and
descriptors, and is inductive: what has no name is loaded in a slot
(`NamesInv`), which is why the last `iput` can trust `valid` (fs.c:493), and a
slot has at least the references of the open files on it (`FilesInv`).  The `VIEW`
leaves out what no later step looks at: the result of the last call, the fields
of a free slot, and the copy in a slot that is not loaded yet.  The client structure comes from `malloc` and is
taken to be zeroed (main.c:131).

Three departures of the code from its comments are in the model without a run of
their own: `lstat` of a file that is not open may report a stale inode
(sysfile.c:463; fs.c:655 wants the lock), `write` reports fewer units than it
wrote when it is cut short inside a chunk (file.c:168, 174), and `pread` at 2^32
or more reads at the position modulo 2^32 (file.c:91, sysfile.c:91).
`StatReportsInode` and `WriteNotOverstated` say what remains true of the first
two.

### PollTransport, UintrTransport, IpcTransport, RemoteCall

One action per access to shared state, one process per program.  xv6fs and
ramdisk are translated line by line; the side of the application, and the
functions `Call`, `Wait`, `acquire`, `release`, `seL4_UintrSend`,
`seL4_UintrNBRecv` and `uipi_write`, are outside the repository and modelled
from how they are used: `Call` and `Wait` take the lock, look at the label and
release it until the label is `FS_RET`, and `Wait` returns with the lock held
(main.c:76 releases it); `uipi_write` adds to the pending bits, as its comment
"write the pending bits back" needs.  The label `FS_RET` is 0, since the ramdisk
clears the label by writing 0 (ramdisk main.c:122, 154).

What a request does to the file system is left to `InodeBlocks`; here it is up
to `MaxOps` disk operations of any kind.  xv6fs also uses the disk before it
listens, when it formats the disk.  The second word of a buffer carries an
argument one way and the result the other, and the model keeps it as one cell.

`IpcTransport` has the message registers of each thread (label and first word)
as state.  xv6fs is server on one endpoint and client on the other with the same
registers; `FsFetch` is the part of a handler before its first disk operation,
where all handlers read their arguments.  `seL4_Call`, `seL4_Recv` and
`seL4_Reply` are modelled as the blocking rendezvous the two loops rely on.  The
number of disk operations of a handler is not bounded here.

`RemoteCall` is a link with one client: a call is asked, served once (its effect
and its answer are computed together), and returned; with weak fairness on
serving and returning, every call returns.

### Benchmark

The driver takes any list of `MaxBench` benchmarks (the names of
`benchmark_run` as records of order, number, size and batch), one action for the
start of a benchmark, the two ends of a batch, an operation and the end.  SQLite
is external: a set of keys, a flag for an open transaction, the number of
statements, and a step that may fail, after which the program exits
(`StepFails`).  SQLite's refusal of `BEGIN` in a transaction, `END` outside of
one, and closing with statements left is the place `misuse`, which `Finishes`
excludes.  The constants that
the code writes as literals (100, 1000, 1024, 16807, 2^31 - 1, the bucket limits)
are parameters, so that small ones stand for them with the same arithmetic:
`rand_next` reduces by adding high and low bits, `DataSize` rounds up twice, and
a value starts over at the beginning of the data when it does not fit.  `M` is
2^31 - 1; the shift by 31 and the mask of `rand_next` are division by and
remainder of `M + 1`.  `BenchmarkAssumption` says of `M` that it divides no
product of `A` and a seed, which a prime above `A` does not.  `DriverInv` is the
invariant of the driver: where the loops are, what is open while they run, and
which keys a sequential fill has written in the middle of a batch.

The values of the `...100K` benchmarks are larger than all of the data: the
assertion of random.c:91 stops the program at their first write.  `Finishes`
says that no other benchmark stops there: the list comes to its end, closed, or
at a step that SQLite fails, or at such a value.

Two departures of the code from its comments are in the model without a run of
their own.  main.c:22 and 23 promise that `fillrand100K` and `fillseq100K`, which
are in the default list, "write N/1000 100K values": they write none, and nothing
after them in the list runs.  main.c:17 promises that `fillseqbatch` writes N
values: a fill in batches writes whole batches, so more than N where the batch of
1000 does not divide it (`FillsEveryKey`, a part of `DriverInv`, says how far).

## 3. The runs

| run | question | size |
|---|---|---|
| `buffer_cache` | do callers that write back see a store of blocks? | 3 buffers, 4 blocks, 2 contents; 19,493 states with symmetry |
| `fs_never_writes_back` | ... and callers that do not? | violated: finding 1 |
| `large_files` | blocks and files up to the last word of the double indirect block, and reads of holes, on a disk that fills up; is a block ever lost? | `NDIRECT` 1, `NINDIRECT` 3, 4 blocks, 2 files, writes at 8 and 38, reads at 2, lengths 1 and 2; 42,142 states |
| `shared_files` | references, unlink of open files, writes across the border to the indirect block, a directory that cannot grow | the same blocks and files, writes and reads at 2, 2 references; 15,833 states |
| `trunc_double_indirect` | does `O_TRUNC` discard the contents? | violated: finding 2 |
| `read_hole` | is every inode change written to disk? | violated: finding 3 |
| `file_service` | all calls on two descriptors and two modes: slots, references, panics, offsets, stats | 2 slots, 3 files, 3 open files, sizes up to 1, chunks of 1, transfers of 1 and 2, position 4, UINT = 3; 280,359 states |
| `leaked_references` | ... with lstat and failing creates? | violated: finding 4 |
| `poll_transport` | are both polling links remote calls that return? | 2 blocks, 2 contents, 2 requests, 2 disk operations each; 39,940 states |
| `uintr_transport` | the same for user interrupts | 33,538 states |
| `ipc_transport` | the same for seL4 IPC | 2 blocks, 2 contents, 2 requests; 6,276 states |
| `benchmark` | keys, values, statistics and SQLite calls of any two benchmarks | 3 entries, batches of 2, data of 16 or 18 bytes, 3 times, 4 buckets, keys modulo 31; 231,716 states |

Bounds.  With 3 buffers and 4 blocks every buffer can be first, middle and last
of the list, and recycling happens with some buffers held.  The ring of 3 buffers and a
head is the least in which a buffer can be unlinked between two others.

In `large_files` and `shared_files` a block has 3 words and a file 1 + 3 + 9
blocks, 39 words.  What the runs reach: the direct block; the entries [1] and [2]
of the indirect block and the border between them (words 8 and 9); the entry
[2][2] under the double indirect block, which holds the last word 38; the
comparison with `MAXFILE`, without which a write of words 38 and 39 is a panic of
`bmap`; reads of words 2 and 3, the border between the direct block and entry
[0], as holes, as data and on a full disk; and in `shared_files` the writes
across that border and the path on which `create()` takes an inode back because
the directory cannot grow.  The 4 blocks do not suffice for two files, so
allocation fails at every depth.  The other entries and borders, among them that
between the indirect and the double indirect block, larger blocks and more files
are covered by the theorems only.  Both runs use the view `InUseOnly`, which
leaves out what free blocks and free inodes still contain: `balloc` zeroes a block
and `ialloc` an inode before anything looks at it, so no later state differs in
anything else.  That applications see files is checked in `shared_files`, up to
the indirect block; at the double indirect block a run finds it violated where it
is (`trunc_double_indirect`), and the theorem `FilesAreStored` is for every level.

Two requests and two operations are
enough to mistake the answer of one for the other.  Every property of a passing
run has a mutant in its module, a plausible mistake in one definition, and the
run finds it.

`file_service` has a table of 2 slots and 3 files, so that slots are leaked, full
and reused, and `iget` panics both ways: with two descriptors open on two files,
and with kept references.  Two descriptors share a file or not, and `NFILE`
exceeds them, as in the code, so that `fdalloc` fails with a file in hand.
UINT = 3 is the least modulus above twice the largest size; transfers of 2 and the
position 4 make offset plus length wrap, and the offset 2 is negative as `int`.
With chunks of 1 a write is cut short between two chunks only; a write that is cut
short inside a chunk, and reported too low, is covered by the theorem
`TransfersAreSound`.

In `benchmark` the batch of 2 does not divide the 3 entries, 3 / 2 and 3 / 3 are
1 where `--reads=0` gives 0, the raw buffer starts with one place and doubles
twice, one of the times equals a bucket limit, and the seed 7 leads within three
keys to a sum that has to be reduced.

Deadlock is not checked for `buffer_cache` and the `FileService` runs, where the
server stops in a panic or an assertion, and for `benchmark`, which ends.

Fairness.  Weak fairness of each process: all three are scheduled, and no step
but a lock waits for another process.  A request is not forced: the application
need not call.  `PollTransport` has strong fairness for getting a spinlock: all
processes take and release the locks again and again, and weak fairness would
allow one to miss every free moment.  The spinlock is a library that is not in
the repository, so this is an assumption about it (or about the probability of
losing forever): that every call returns over polling holds if no process is
starved at a lock, and the run does not show that none is.  `UintrTransport` needs none.  `IpcTransport` has strong
fairness for xv6fs beginning to listen and replying: a handler ends, it does not
use the disk for ever (the other two bound this by `MaxOps`).  `Benchmark` has
weak fairness of its one thread.

### Findings

1. **Changed blocks are not written back** (`fs_never_writes_back`): all
   `log_write` calls are commented out and nothing calls `bwrite`; a change is
   lost when its buffer is recycled.  `bio.c:9` asks for `bwrite`.
2. **`itrunc` keeps the double indirect pointer** (`trunc_double_indirect`):
   fs.c:647 clears `addrs[NDIRECT]` where `addrs[NDIRECT + 1]` is meant.
3. **A read changes the inode without `iupdate`** (`read_hole`): `readi` calls
   `bmap`, which allocates blocks in holes; fs.c:386 asks for `iupdate`.

4. **References nobody owns** (`leaked_references`): `lstat`, and `create()` of
   an existing name, never `iput` (sysfile.c:459, 263), where fs.c:303-305 counts
   open files and current directories.  After `NINODE` such names `iget` panics.

## 4. The proofs

`BufferCacheProofs` proves, for any set of blocks, any contents and any numbers
of buffers and references (`CacheAssumption`):

* `CacheInvariant`: `Spec => []CacheInv`, the inductive invariant.
  `OneCopyPerBlock` is inductive with `TypeOK` (a block enters the cache only
  when it is not there).  `UnheldIsClean` needs `OneCopyPerBlock`: writing one
  buffer to the disk must not make another stale.  `HeldIsBound` gives the type
  of `disk'` in `bwrite`.  For `ListIsRing`, `BinitIs` computes the list that
  `binit` leaves; `MoveKeepsRing` gives the order of the ring after `brelse` (the
  buffer first, those before it one place further) and follows the six
  assignments through it, also where the buffer is the first, the last or the
  only one; and `WalkOfRing` says that the loops of `bget` meet the buffers in
  that order, so that they find a block if and only if it is there (`CachedIs`).
* `TypeCorrect`, `OneCopy`: two of its parts as theorems of the specification.
* `RecycledInOrder`: the action property `LeastRecentlyUsed`, from the order before
  and after `brelse` and from `VictimIsLast`: the victim is behind every other
  unused buffer.
* `CacheImplementsStore`: the refinement of `BlockStore`.  The mapping reads a
  block from its buffer if there is one; `UnheldIsClean` makes an eviction
  invisible, `OneCopyPerBlock` makes `BufOf` unique, and the panic maps to a halt
  because all buffers are held and bound to different blocks (an injection of the
  buffers into the held blocks).

`Spec` is the discipline of callers that write back; the theorems say nothing of
`FsSpec`, for which the refinement is refuted by TLC.

`PollTransportProofs`, `UintrTransportProofs` and `IpcTransportProofs` prove the
safety of the three transports for any blocks, contents and requests, and (where
the model has it) any `MaxOps`.  `PollAssumption`, `UintrAssumption` and
`IpcAssumption` only keep `None` and the status and block values apart.

* `PollInvariant`, `UintrInvariant`, `IpcInvariant`: the inductive invariants
  `PollInv`, `UintrInv`, `IpcInv`.  All have `AppInv` and `DiskInv`, which say
  what a request and a disk operation are at each place of their way: what the
  label, the word and the data of the buffer (or the registers) hold, and whether
  the word is still the block number or already the status.  Under polling
  `LockInv` says who holds which lock.  Under user interrupts there are no locks:
  the invariant says that a call has exactly one sign, which is a pending bit, a
  bit in hand, the server at work, or a bit on its way back, and this is what
  keeps a bit that is written back from being taken twice.
* `NoBufferRace` (polling and user interrupts): `BuffersNotRaced`.
* `StatusReadInTime` (polling): `NoFalseFailure`; `AnswersTakenOnce` (user
  interrupts): `AnswersMatched`.  Over IPC the same is in the type of `pc`, and
  `IpcTypeCorrect` states it.
* `DiskLinkSafe`, `AppLinkSafe`: the safety halves of `DiskCallsServed` and
  `AppCallsServed`: initial states map to initial states of `RemoteCall`, and
  every step to a step or a stutter.  The invariant gives the serving step its
  arguments, and the returning step its answer.

`FileServiceProofs` proves, for any sizes of the tables, any set of files and
any integer modulus above twice the largest size (`ServiceAssumption`, which
`fs.h` and the width of `uint` justify):

* `ServiceInvariant`: `ServiceInv` is inductive.  The functions of `fs.c` have
  lemmas about a handle alone (`LockFacts`, `PutFacts`, `IgetFacts`: locking and
  putting keep a handle consistent).  `Installed` says what `Become` does to the
  table: slots stay distinct, and all other slots and inodes keep what they have.
  `AddedFacts` and `RemovedFacts` say how the number of open files on an inode
  changes when one is added or removed, by cardinalities.  Each system call is
  then one of a few shapes (`InstalledKept`, `InstalledAdded`,
  `InstalledRemoved`), failing paths included.
* `TableIsSound`, `NothingIsAbandoned`: `InodeTableSound` and `NothingAbandoned`
  as theorems of the specification.
* `PanicsAreLeaks`: `PanicOnlyByLeaks`, with any number of files.  `ServiceInv`
  rules out every panic but that of `iget`, which needs a table without a free
  slot.  If then every reference is that of an open file, every slot has an open
  file, every open file has a descriptor of its own, and so there are at least as
  many descriptors as slots: the descriptors' files reach all of them (`FullTable`).
* `OnlyLookupsKeep`, `StatIsCurrent`, `TransfersAreSound`: the action properties
  `KeptOnlyByLookups`, `StatReportsInode` and `TransfersSound`; the last is
  about additions of offset and length that wrap around.

`BenchmarkProofs` proves, for any numbers of entries, batch sizes, value sizes,
tables of increasing limits and multiplicative generators
(`BenchmarkAssumption`):

* `DriverInvariant`: `DriverInv` is inductive.  `RoundUpFacts` says that whole
  batches that begin below `n` end at `n` rounded up to a batch, and `RandFacts`
  that adding the halves of the product is multiplication modulo `M`: hi * (M + 1)
  + lo and hi + lo differ by a multiple of `M`, and the sum is below 2M.
* `TypeCorrect`: its part on types as a theorem of the specification;
  `KeysAreLehmer`: the action property `KeysFromLehmer`.
* `HistogramAgrees`: the half of `StatisticsAgree` about `HistogramOfRaw`.  As the limits
  increase, the number of limits at or below a time is the place of the one bucket
  that encloses it (`BucketEncloses`, `OneBucket`); one more time adds one
  element to the set of one bucket (`CountsOfOneMore`).

`InodeFunctionProofs` and `InodeBlocksProofs` prove, for any numbers of pointers per
inode and per block, inodes and blocks, and any words, offsets and lengths
(`InodeAssumption`), of applications that stay clear of finding 2
(`SmallTruncSpec`; for `Spec` it makes the theorems false):

* `InodeInvariant`: `InodeInv` is inductive.  The argument for `StructInv` has three
  levels; the one for `DataInv` is that of the refinement, below.
  - A pointer (`InodeFunctionProofs`).  `Owned(h, O)` says that the blocks of the inode
    are marked, met once, and none of the blocks `O` of the others; `Grew` and
    `Filled` say what allocation may do: fill null pointers with blocks that
    were free, and leave the rest alone.  `balloc`, `AddrOf`, `EntryOf` and `bmap`
    keep `Owned` and are `Filled` (`BmapFacts`), whether or not the disk is full.
    The delicate case is an entry of an indirect block: that block must not be a
    data block or an indirect block of another path, which is the injectivity
    itself (`OneMore`, `EntryOfFacts`).  `WriteLoopFacts` and `ReadLoopFacts`
    follow by induction over the words, and `WordsApart` says that words of
    different offsets are different cells, by division with remainder.
  - A state.  `Whole` is `StructInv` as a predicate of the record that the functions
    of `fs.c` transform, and `Sound` is what still holds of it in the middle of
    a system call.  Each function that does not panic comes to `Put`: one
    inode, on disk and in the table, and the blocks have new values; `Fits` says
    when such a change is harmless to all other inodes (`PutBlocks`), to the
    directory and to the links (`PutGood`).  So `ilockSound`, `iputSound`,
    `writeiSound` and their like show that every panic is out of reach and that
    the result is sound.  A word written to the directory adds or removes one name and keeps
    the others (`DirWritten`, `DirAdded`, `DirRemoved`).
  - A system call chains these lemmas (`OpenCreateStep`, `UnlinkStep`, `CloseStep`
    and so on).  `OpenCreateStep` includes the path on which the directory cannot grow.
* `TypeCorrect`, `BlocksHaveOneOwner`, `InodesNeverPanic`: parts of it as theorems
  of the specification.  `FreedAtTheEnd`: `FreedWithLastReference`.
* `NoBlockLost`: the action property `BlocksKept`.  `Gone` is the set of lost blocks of
  a state, and `Tidy(s, t)` says that `t` has no more of them than `s` and is no
  more ahead of the disk.  `Accounts` is what a change of one inode owes for that
  (every block newly marked is pointed to, every block no longer pointed to
  is unmarked; `PutTidy`), and allocation pays it because new blocks are pointed to
  (`GrewAccounts`).  Each function keeps `Tidy`, and so each system call does
  but `Read`, of which only the first half holds.
* `FilesAreStored`: `InodeBlocks` implements `FileStore`.  `FileWord` and `DiskWord` are
  the words of a file by its inode in the table and on disk, and `DataOK` is
  `DataInv` for one file.  Each function leaves every file as it is (`Same`; `ilockSame`,
  `igetSame`, `readiSame`) or changes one (`SameBut`): `iputData` empties it when
  it frees it, `itruncEmpties` leaves no word, and `writeiStores` stores the first
  `n` words of what it was given and nothing else, `n` being what it returns.
  Reading a hole allocates a block of zeros in place of no block, so no word
  changes (`DiskFilled` for the inode on disk, which does not have the block).
  `Moves(s, t)` says that what becomes of the files is one step of the store, and
  `MovesAre` that it is one of its actions under the mapping.  Each system call
  moves files this way (`OpenCreateMoves`, `WriteMoves`, `UnlinkMoves` and so on).
  A short write is a write of the prefix that was stored (`StoredText`), and a
  failing create changes no file.
* `ReadsReturnContents`: the invariant `ReadReturnsContents`.  The words that the loop of
  `readi` returned are those of the file before it (`ReadLoopFacts`); it ends early
  only when `bmap` finds no block, and by then every block of the disk is in use
  (`Exhausts`).

Only model-checked: the median of `StatisticsAgree`, whose sum over the buckets
and sorted sequence need induction over data; and liveness (`Finishes`, and the
returning half of the remote calls).

## 5. Plan

Done: (a) buffer cache, (b) inode layer, (c) the three transports, (d) system
calls and file table, (e) the benchmark, and proofs about all of them.

Nothing of it is left.  What would come next is outside the present scope: a
model of boot, once the capability libraries of the root server are at hand, and
`mkdir` and `link`, once the loop of `main()` calls them.

## 6. Not modelled

* SQLite (`sqlite3.c`, `shell.c` and their headers): a vendored library, 266,000
  of the 270,000 lines of C in the repository.  Nothing of it is specific to this
  system, and `shell.c` is not even built; only its use by the benchmark is
  modelled.  The lines of the system itself are about 4,000.
* The root server: a straight line of calls into allocator, loader and kernel
  libraries that are not in the repository.  It runs once, before the other
  processes exist, and no step of it depends on an earlier state.
* Subdirectories, devices, links and the working directory: unreachable through
  the loop of `main()`, which never calls `mkdir`, `mknod`, `link` or `chdir`.
  `getcwd` changes no file system state.
* In the benchmark: flags, printing, pragmas, checkpoints, wrap-around of 32-bit
  counters, and the functions that are never called (`histogram_merge`,
  `raw_to_string`, fresh databases).
* Errors of the transports: the ramdisk's label check and failing status, which
  no request of xv6fs leads to.
