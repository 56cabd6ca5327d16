------------------------------ MODULE BufferCache ------------------------------
(***************************************************************************)
(* The buffer cache of the xv6fs server (xv6fs/src/bio.c): NBUF buffers on  *)
(* a list ordered by recency of use, each bound to a block of the disk.     *)
(*                                                                          *)
(* The server is single threaded, so every call is one step.  The list is   *)
(* the ring of next and prev pointers that bget walks and brelse rewrites.  *)
(* A buffer's valid flag is not kept: bread fills the buffer it recycled    *)
(* before it returns, so a bound buffer is valid in every state between     *)
(* two calls.                                                               *)
(***************************************************************************)
EXTENDS Integers

CONSTANTS
    Block,      \* the block numbers of the device
    Data,       \* what a block can contain
    Zero,       \* the contents of a buffer that was never filled
    NoBlock,    \* the binding of a buffer that was never used (dev = 0)
    NBUF,       \* number of buffers
    MaxRef      \* bound on refcnt

ASSUME CacheAssumption ==
    /\ NBUF \in Nat \ {0}
    /\ MaxRef \in Nat \ {0}
    /\ NoBlock \notin Block
    /\ Zero \in Data

Buf == 1 .. NBUF
Head == 0               \* bcache.head, which holds no block
Node == Buf \cup {Head}

VARIABLES
    disk,       \* the blocks of the ramdisk
    blockno,    \* blockno[i]: the block buffer i is bound to
    refcnt,     \* refcnt[i]: how many callers hold buffer i
    data,       \* data[i]: the contents of buffer i
    list,       \* list.next[n], list.prev[n]: the pointers of buffer or head n
    panicked    \* bget found no buffer: the server stops

vars == <<disk, blockno, refcnt, data, list, panicked>>

-----------------------------------------------------------------------------
(* The list *)

\* Mutant of Unlinked: b->next->prev keeps pointing at b.
UnlinkedForwardOnly(l, b) == [l EXCEPT !.next[l.prev[b]] = l.next[b]]

\* Buffer b is taken out: its neighbours are linked to each other.
Unlinked(l, b) ==
    [next |-> [l.next EXCEPT ![l.prev[b]] = l.next[b]],
     prev |-> [l.prev EXCEPT ![l.next[b]] = l.prev[b]]]

\* Buffer b is put between the head and the first buffer.
AtFront(l, b) ==
    LET first == l.next[Head]
    IN  [next |-> [l.next EXCEPT ![b] = first, ![Head] = b],
         prev |-> [l.prev EXCEPT ![b] = Head, ![first] = b]]

\* The list after binit() has inserted n buffers.
Binit[n \in Node] ==
    IF n = 0 THEN [next |-> [m \in Node |-> Head], prev |-> [m \in Node |-> Head]]
    ELSE AtFront(Binit[n - 1], n)

\* The node that a loop over the list stands on after k steps along link.
Walk(link) ==
    LET at[k \in Node] == IF k = 0 THEN Head ELSE link[at[k - 1]] IN at

\* Buffer i is the first one of S that such a loop meets.
FirstMet(link, S, i) ==
    LET at == Walk(link)
    IN  /\ i \in S
        /\ \E k \in Buf : at[k] = i /\ \A m \in 1 .. k - 1 : at[m] \notin S \cup {Head}

-----------------------------------------------------------------------------
(* State after binit() *)

Init ==
    /\ disk \in [Block -> Data]
    /\ blockno = [i \in Buf |-> NoBlock]
    /\ refcnt = [i \in Buf |-> 0]
    /\ data = [i \in Buf |-> Zero]
    /\ list = Binit[NBUF]
    /\ panicked = FALSE

\* Mutant of Hit: bget looks for the block among the buffers in use only.
HitAmongHeld(b, i) == FirstMet(list.next, {j \in Buf : blockno[j] = b /\ refcnt[j] > 0}, i)

\* The walk from head.next finds block b in buffer i.
Hit(b, i) == FirstMet(list.next, {j \in Buf : blockno[j] = b}, i)

Cached(b) == \E i \in Buf : Hit(b, i)

\* The walk from head.prev finds buffer i unused.
Victim(i) == FirstMet(list.prev, {j \in Buf : refcnt[j] = 0}, i)

-----------------------------------------------------------------------------
(* bread(dev, b) *)

BreadHit(b) ==
    /\ ~panicked
    /\ \E i \in Buf :
        /\ Hit(b, i)
        /\ refcnt[i] < MaxRef
        /\ refcnt' = [refcnt EXCEPT ![i] = @ + 1]
    /\ UNCHANGED <<disk, blockno, data, list, panicked>>

\* Mutant of BreadMiss: bget leaves valid set, so the block is not read.
BreadMissStillValid(b) ==
    /\ ~panicked
    /\ ~Cached(b)
    /\ \E i \in Buf :
        /\ Victim(i)
        /\ blockno' = [blockno EXCEPT ![i] = b]
        /\ refcnt' = [refcnt EXCEPT ![i] = 1]
    /\ UNCHANGED <<disk, data, list, panicked>>

BreadMiss(b) ==
    /\ ~panicked
    /\ ~Cached(b)
    /\ \E i \in Buf :
        /\ Victim(i)
        /\ blockno' = [blockno EXCEPT ![i] = b]
        /\ refcnt' = [refcnt EXCEPT ![i] = 1]
        /\ data' = [data EXCEPT ![i] = disk[b]]
    /\ UNCHANGED <<disk, list, panicked>>

\* panic("bget: no buffers")
BreadPanic(b) ==
    /\ ~panicked
    /\ ~Cached(b)
    /\ ~\E i \in Buf : Victim(i)
    /\ panicked' = TRUE
    /\ UNCHANGED <<disk, blockno, refcnt, data, list>>

-----------------------------------------------------------------------------
(* What the holder of a buffer does with it. *)

\* The caller writes into b->data.
Store(i, d) ==
    /\ ~panicked
    /\ refcnt[i] > 0
    /\ data' = [data EXCEPT ![i] = d]
    /\ UNCHANGED <<disk, blockno, refcnt, list, panicked>>

Bwrite(i) ==
    /\ ~panicked
    /\ refcnt[i] > 0
    /\ disk' = [disk EXCEPT ![blockno[i]] = data[i]]
    /\ UNCHANGED <<blockno, refcnt, data, list, panicked>>

\* Mutant of Brelse: the buffer stays where it is.
BrelseInPlace(i) ==
    /\ ~panicked
    /\ refcnt[i] > 0
    /\ refcnt' = [refcnt EXCEPT ![i] = @ - 1]
    /\ UNCHANGED <<disk, blockno, data, list, panicked>>

Brelse(i) ==
    /\ ~panicked
    /\ refcnt[i] > 0
    /\ refcnt' = [refcnt EXCEPT ![i] = @ - 1]
    /\ list' = IF refcnt[i] = 1 THEN AtFront(Unlinked(list, i), i) ELSE list
    /\ UNCHANGED <<disk, blockno, data, panicked>>

Bpin(i) ==
    /\ ~panicked
    /\ refcnt[i] \in 1 .. MaxRef - 1
    /\ refcnt' = [refcnt EXCEPT ![i] = @ + 1]
    /\ UNCHANGED <<disk, blockno, data, list, panicked>>

Bunpin(i) ==
    /\ ~panicked
    /\ refcnt[i] > 0
    /\ refcnt' = [refcnt EXCEPT ![i] = @ - 1]
    /\ UNCHANGED <<disk, blockno, data, list, panicked>>

-----------------------------------------------------------------------------
(* The callers bio.c asks for: a changed buffer is written with bwrite     *)
(* before the last hold on it is given up, and that is given up by brelse.  *)

Clean(i) == data[i] = disk[blockno[i]]

Next ==
    \/ \E b \in Block : BreadHit(b) \/ BreadMiss(b) \/ BreadPanic(b)
    \/ \E i \in Buf, d \in Data : Store(i, d)
    \/ \E i \in Buf :
        \/ Bwrite(i)
        \/ Bpin(i)
        \/ (refcnt[i] = 1 => Clean(i)) /\ Brelse(i)
        \/ refcnt[i] > 1 /\ Bunpin(i)

Spec == Init /\ [][Next]_vars

(* The callers fs.c is: every log_write is commented out, nothing calls    *)
(* bwrite, bpin or bunpin, and a buffer is released as it is.               *)

FsNext ==
    \/ \E b \in Block : BreadHit(b) \/ BreadMiss(b) \/ BreadPanic(b)
    \/ \E i \in Buf, d \in Data : Store(i, d)
    \/ \E i \in Buf : Brelse(i)

FsSpec == Init /\ [][FsNext]_vars

-----------------------------------------------------------------------------
(* Properties *)

\* The variables have their types.
TypeOK ==
    /\ disk \in [Block -> Data]
    /\ blockno \in [Buf -> Block \cup {NoBlock}]
    /\ refcnt \in [Buf -> 0 .. MaxRef]
    /\ data \in [Buf -> Data]
    /\ list \in [next : [Node -> Node], prev : [Node -> Node]]
    /\ panicked \in BOOLEAN

\* A block is cached in at most one buffer, whatever sequence of bget, brelse
\* and recycling led here: two copies would let a change be missed.
OneCopyPerBlock ==
    \A i, j \in Buf : blockno[i] = blockno[j] /\ blockno[i] # NoBlock => i = j

\* Head and buffers, taken in the order p, are linked to a ring by next, and
\* prev leads back.
After(k) == IF k = NBUF THEN 0 ELSE k + 1

RingInOrder(l, p) ==
    /\ p[0] = Head
    /\ \A n \in Node : \E k \in Node : p[k] = n
    /\ \A k, m \in Node : p[k] = p[m] => k = m
    /\ \A k \in Node : l.next[p[k]] = p[After(k)] /\ l.prev[p[After(k)]] = p[k]

\* The six pointer assignments of brelse, made over and over on buffers at any
\* place of the list, never lose, repeat or cut off a buffer: in both directions
\* a walk from the head meets every buffer once.
ListIsRing == \E p \in [Node -> Node] : RingInOrder(list, p)

\* A buffer that is not held agrees with the disk, so that recycling it in
\* bget forgets nothing: this is what bwrite before brelse is for.
UnheldIsClean ==
    \A i \in Buf : blockno[i] # NoBlock /\ refcnt[i] = 0 => Clean(i)

\* A buffer that is held is bound to a block of the disk.
HeldIsBound == \A i \in Buf : refcnt[i] > 0 => blockno[i] \in Block

\* The inductive invariant.
CacheInv ==
    /\ TypeOK
    /\ OneCopyPerBlock
    /\ ListIsRing
    /\ UnheldIsClean
    /\ HeldIsBound

\* Buffer i is met before buffer j on the walk from head.next.
Before(i, j) ==
    LET at == Walk(list.next) IN \E k, m \in Buf : k < m /\ at[k] = i /\ at[m] = j

\* "Recycle the least recently used (LRU) unused buffer" (bget).  A buffer that
\* falls out of use comes before all that were unused already, and those keep
\* their order whatever happens to others: unused buffers are at all times
\* ordered by when they were released.  The one that bget binds to another block
\* is behind every other one that is unused: it was released longest ago.
LeastRecentlyUsed ==
    [][/\ \A i, j \in Buf :
            /\ i # j
            /\ refcnt'[i] = 0
            /\ refcnt[j] = 0 /\ refcnt'[j] = 0
            => (Before(i, j)' <=> (refcnt[i] > 0 \/ Before(i, j)))
       /\ \A i \in Buf :
            blockno'[i] # blockno[i]
              => \A j \in Buf \ {i} : refcnt[j] = 0 => Before(j, i)]_vars

(* The cache implements the block store: a block's contents are those of   *)
(* its buffer, or the disk's when no buffer is bound to it.                 *)

Bound(b) == \E i \in Buf : blockno[i] = b
BufOf(b) == CHOOSE i \in Buf : blockno[i] = b

Contents == [b \in Block |-> IF Bound(b) THEN data[BufOf(b)] ELSE disk[b]]
Holds == [b \in Block |-> IF Bound(b) THEN refcnt[BufOf(b)] ELSE 0]

BS == INSTANCE BlockStore
        WITH store <- Contents, held <- Holds, halted <- panicked, Capacity <- NBUF

\* Every call of bio.c is a step of the block store: what is read is what was
\* last stored, through any number of evictions and reloads, and the server
\* panics for lack of buffers only when NBUF different blocks are held.
ImplementsBlockStore == BS!Spec
===============================================================================
