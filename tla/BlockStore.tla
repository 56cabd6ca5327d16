------------------------------ MODULE BlockStore ------------------------------
(***************************************************************************)
(* What the buffer cache of xv6fs promises to fs.c: it is a store of disk   *)
(* blocks.  A caller acquires a block (bread), looks at it and changes it   *)
(* while it holds it, and releases it (brelse).  Caching, recycling and     *)
(* writing back are invisible: the contents of a block change only when     *)
(* somebody who holds it changes them, and whoever acquires it sees the     *)
(* contents that were last put there.                                       *)
(***************************************************************************)
EXTENDS Integers

CONSTANTS
    Block,      \* the block numbers of the disk
    Data,       \* what a block can contain
    Capacity    \* how many blocks can be held at the same time

VARIABLES
    store,      \* store[b]: the contents a reader of block b sees
    held,       \* held[b]: how many times block b is held
    halted      \* the server has panicked

vars == <<store, held, halted>>

HeldBlocks == {b \in Block : held[b] > 0}

\* Capacity different blocks are held.
Exhausted ==
    \E slot \in [1 .. Capacity -> HeldBlocks] :
        \A m, n \in 1 .. Capacity : slot[m] = slot[n] => m = n

Init ==
    /\ store \in [Block -> Data]
    /\ held = [b \in Block |-> 0]
    /\ halted = FALSE

Acquire(b) ==
    /\ ~halted
    /\ held' = [held EXCEPT ![b] = @ + 1]
    /\ UNCHANGED <<store, halted>>

Change(b, d) ==
    /\ ~halted
    /\ held[b] > 0
    /\ store' = [store EXCEPT ![b] = d]
    /\ UNCHANGED <<held, halted>>

Release(b) ==
    /\ ~halted
    /\ held[b] > 0
    /\ held' = [held EXCEPT ![b] = @ - 1]
    /\ UNCHANGED <<store, halted>>

\* The store may give up only when its capacity is exhausted.
Halt ==
    /\ ~halted
    /\ Exhausted
    /\ halted' = TRUE
    /\ UNCHANGED <<store, held>>

Next ==
    \/ \E b \in Block : Acquire(b) \/ Release(b)
    \/ \E b \in Block, d \in Data : Change(b, d)
    \/ Halt

Spec == Init /\ [][Next]_vars
===============================================================================
