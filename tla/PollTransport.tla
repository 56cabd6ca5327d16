----------------------------- MODULE PollTransport -----------------------------
(***************************************************************************)
(* The polling transport (TEST_POLL): an application, the xv6fs server and  *)
(* the ramdisk, three processes that share two buffers.  The client buffer  *)
(* is between the application and xv6fs, the server buffer between xv6fs    *)
(* and the ramdisk; each is guarded by a spinlock, a label different from   *)
(* "none" (FS_RET, 0) in it is a request, and its second word carries an    *)
(* argument one way and the return value the other.                         *)
(*                                                                          *)
(* xv6fs holds the lock of the client buffer while it handles a request and *)
(* takes the other one for every disk_rw within.  How many disk operations  *)
(* a request needs is left open, up to MaxOps.                              *)
(***************************************************************************)
EXTENDS Integers

CONSTANTS
    Block, Data,    \* blocks of the disk and their contents
    Req,            \* the requests of the application, with their arguments
    None,           \* no request, no lock holder
    Ok,             \* the status word 0
    MaxOps          \* bound on the disk operations of one request

DiskOp == [write : {TRUE}, block : Block, data : Data]
            \cup [write : {FALSE}, block : Block, data : {None}]

ASSUME PollAssumption ==
    /\ MaxOps \in Nat
    /\ None \notin Req \cup Block \cup Data \cup DiskOp \cup {"app", "fs", "rd"}
    /\ Ok \notin Req \cup Block \cup {None}

VARIABLES
    pc,     \* pc[p]: where each process is
    clk,    \* the holder of the client buffer's lock
    slk,    \* the holder of the server buffer's lock
    cbuf,   \* the client buffer: label and second word
    sbuf,   \* the server buffer: label, second word and block
    areq,   \* the request the application is making
    ares,   \* the answer the application got last
    freq,   \* the request xv6fs is handling
    fop,    \* the disk operation xv6fs is in
    fgot,   \* the block xv6fs read last
    left,   \* disk operations xv6fs may still make for the request
    disk    \* the ramdisk

vars == <<pc, clk, slk, cbuf, sbuf, areq, ares, freq, fop, fgot, left, disk>>

appVars == <<areq, ares>>
fsVars == <<freq, fop, fgot, left>>

\* xv6fs starts by creating the file system image: it may use the disk before
\* it listens, while the application and the ramdisk are already running.
Init ==
    /\ pc = [app |-> "idle", fs |-> "run", rd |-> "loop"]
    /\ clk = None /\ slk = None
    /\ cbuf = [label |-> "none", word |-> None]
    /\ sbuf = [label |-> "none", word |-> None, data |-> None]
    /\ areq = None /\ ares = None
    /\ freq = None /\ fop = None /\ fgot = None
    /\ left = MaxOps
    /\ disk \in [Block -> Data]

Goto(p, from, to) == pc[p] = from /\ pc' = [pc EXCEPT ![p] = to]

-----------------------------------------------------------------------------
(* The application's side of a call (its system call library). *)

AppCall(r) ==
    /\ Goto("app", "idle", "lock")
    /\ areq' = r
    /\ UNCHANGED <<clk, slk, cbuf, sbuf, ares, fsVars, disk>>

AppLock ==
    /\ Goto("app", "lock", "label")
    /\ clk = None /\ clk' = "app"
    /\ UNCHANGED <<slk, cbuf, sbuf, appVars, fsVars, disk>>

AppLabel ==
    /\ Goto("app", "label", "args")
    /\ cbuf' = [cbuf EXCEPT !.label = "call"]
    /\ UNCHANGED <<clk, slk, sbuf, appVars, fsVars, disk>>

AppArgs ==
    /\ Goto("app", "args", "unlock")
    /\ cbuf' = [cbuf EXCEPT !.word = areq]
    /\ UNCHANGED <<clk, slk, sbuf, appVars, fsVars, disk>>

AppUnlock ==
    /\ Goto("app", "unlock", "wait")
    /\ clk' = None
    /\ UNCHANGED <<slk, cbuf, sbuf, appVars, fsVars, disk>>

AppPoll ==
    /\ Goto("app", "wait", "look")
    /\ clk = None /\ clk' = "app"
    /\ UNCHANGED <<slk, cbuf, sbuf, appVars, fsVars, disk>>

AppRetry ==
    /\ Goto("app", "look", "wait")
    /\ cbuf.label # "none"
    /\ clk' = None
    /\ UNCHANGED <<slk, cbuf, sbuf, appVars, fsVars, disk>>

AppReturn ==
    /\ Goto("app", "look", "idle")
    /\ cbuf.label = "none"
    /\ ares' = cbuf.word /\ areq' = None
    /\ clk' = None
    /\ UNCHANGED <<slk, cbuf, sbuf, fsVars, disk>>

-----------------------------------------------------------------------------
(* xv6fs: the loop of main(). *)

\* fsinit() is over: the server starts to listen.
FsListen ==
    /\ Goto("fs", "run", "loop")
    /\ freq = None
    /\ UNCHANGED <<clk, slk, cbuf, sbuf, appVars, fsVars, disk>>

FsLock ==
    /\ Goto("fs", "loop", "check")
    /\ clk = None /\ clk' = "fs"
    /\ UNCHANGED <<slk, cbuf, sbuf, appVars, fsVars, disk>>

FsNothing ==
    /\ Goto("fs", "check", "loop")
    /\ cbuf.label = "none"
    /\ clk' = None
    /\ UNCHANGED <<slk, cbuf, sbuf, appVars, fsVars, disk>>

\* Mutant of FsAccept: the lock is released before the request is handled.
FsAcceptUnlocking ==
    /\ Goto("fs", "check", "run")
    /\ cbuf.label # "none"
    /\ freq' = cbuf.word /\ left' = MaxOps
    /\ clk' = None
    /\ UNCHANGED <<slk, cbuf, sbuf, appVars, fop, fgot, disk>>

FsAccept ==
    /\ Goto("fs", "check", "run")
    /\ cbuf.label # "none"
    /\ freq' = cbuf.word /\ left' = MaxOps
    /\ UNCHANGED <<clk, slk, cbuf, sbuf, appVars, fop, fgot, disk>>

\* Mutant of FsReplyLabel: the label of the request stays.
FsReplyLabelMissing ==
    /\ Goto("fs", "run", "ret")
    /\ freq # None
    /\ UNCHANGED <<clk, slk, cbuf, sbuf, appVars, fsVars, disk>>

FsReplyLabel ==
    /\ Goto("fs", "run", "ret")
    /\ freq # None
    /\ cbuf' = [cbuf EXCEPT !.label = "none"]
    /\ UNCHANGED <<clk, slk, sbuf, appVars, fsVars, disk>>

\* Mutant of FsReplyWord: the answer is taken from the server buffer.
FsReplyWrongWord ==
    /\ Goto("fs", "ret", "unlock")
    /\ cbuf' = [cbuf EXCEPT !.word = sbuf.word]
    /\ UNCHANGED <<clk, slk, sbuf, appVars, fsVars, disk>>

FsReplyWord ==
    /\ Goto("fs", "ret", "unlock")
    /\ cbuf' = [cbuf EXCEPT !.word = freq]
    /\ UNCHANGED <<clk, slk, sbuf, appVars, fsVars, disk>>

FsUnlock ==
    /\ Goto("fs", "unlock", "loop")
    /\ clk' = None /\ freq' = None
    /\ UNCHANGED <<slk, cbuf, sbuf, appVars, fop, fgot, left, disk>>

-----------------------------------------------------------------------------
(* xv6fs: disk_rw. *)

DiskRw(op) ==
    /\ Goto("fs", "run", "slock")
    /\ left > 0 /\ left' = left - 1
    /\ fop' = op
    /\ UNCHANGED <<clk, slk, cbuf, sbuf, appVars, freq, fgot, disk>>

DiskLock ==
    /\ Goto("fs", "slock", "slabel")
    /\ slk = None /\ slk' = "fs"
    /\ UNCHANGED <<clk, cbuf, sbuf, appVars, fsVars, disk>>

DiskLabel ==
    /\ Goto("fs", "slabel", "sargs")
    /\ sbuf' = [sbuf EXCEPT !.label = IF fop.write THEN "write" ELSE "read"]
    /\ UNCHANGED <<clk, slk, cbuf, appVars, fsVars, disk>>

DiskArgs ==
    /\ Goto("fs", "sargs", IF fop.write THEN "sdata" ELSE "sunlock")
    /\ sbuf' = [sbuf EXCEPT !.word = fop.block]
    /\ UNCHANGED <<clk, slk, cbuf, appVars, fsVars, disk>>

DiskData ==
    /\ Goto("fs", "sdata", "sunlock")
    /\ sbuf' = [sbuf EXCEPT !.data = fop.data]
    /\ UNCHANGED <<clk, slk, cbuf, appVars, fsVars, disk>>

DiskUnlock ==
    /\ Goto("fs", "sunlock", "swait")
    /\ slk' = None
    /\ UNCHANGED <<clk, cbuf, sbuf, appVars, fsVars, disk>>

(* Call() and Wait() poll the buffer until the label is gone; Wait() returns  *)
(* with the lock held, so that the block can be copied out.                   *)

DiskPoll ==
    /\ Goto("fs", "swait", "slook")
    /\ slk = None /\ slk' = "fs"
    /\ UNCHANGED <<clk, cbuf, sbuf, appVars, fsVars, disk>>

DiskRetry ==
    /\ Goto("fs", "slook", "swait")
    /\ sbuf.label # "none"
    /\ slk' = None
    /\ UNCHANGED <<clk, cbuf, sbuf, appVars, fsVars, disk>>

\* A status other than 0: panic("Failed to write block" or "... read block").
DiskReturn ==
    /\ Goto("fs", "slook", IF sbuf.word = Ok THEN "run" ELSE "panic")
    /\ sbuf.label = "none"
    /\ fgot' = IF fop.write THEN fgot ELSE sbuf.data
    /\ fop' = None
    /\ slk' = None
    /\ UNCHANGED <<clk, cbuf, sbuf, appVars, freq, left, disk>>

-----------------------------------------------------------------------------
(* ramdisk: the loop of main(). *)

RdLock ==
    /\ Goto("rd", "loop", "check")
    /\ slk = None /\ slk' = "rd"
    /\ UNCHANGED <<clk, cbuf, sbuf, appVars, fsVars, disk>>

RdNothing ==
    /\ Goto("rd", "check", "loop")
    /\ sbuf.label = "none"
    /\ slk' = None
    /\ UNCHANGED <<clk, cbuf, sbuf, appVars, fsVars, disk>>

RdRead ==
    /\ Goto("rd", "check", "clear")
    /\ sbuf.label = "read"
    /\ sbuf' = [sbuf EXCEPT !.data = disk[sbuf.word]]
    /\ UNCHANGED <<clk, slk, cbuf, appVars, fsVars, disk>>

RdWrite ==
    /\ Goto("rd", "check", "clear")
    /\ sbuf.label = "write"
    /\ disk' = [disk EXCEPT ![sbuf.word] = sbuf.data]
    /\ UNCHANGED <<clk, slk, cbuf, sbuf, appVars, fsVars>>

\* Mutant of RdClear: the label stays, the request is served again.
RdClearMissing ==
    /\ Goto("rd", "clear", "status")
    /\ UNCHANGED <<clk, slk, cbuf, sbuf, appVars, fsVars, disk>>

RdClear ==
    /\ Goto("rd", "clear", "status")
    /\ sbuf' = [sbuf EXCEPT !.label = "none"]
    /\ UNCHANGED <<clk, slk, cbuf, appVars, fsVars, disk>>

\* Mutant of RdStatus: the status is forgotten.
RdStatusMissing ==
    /\ Goto("rd", "status", "unlock")
    /\ UNCHANGED <<clk, slk, cbuf, sbuf, appVars, fsVars, disk>>

RdStatus ==
    /\ Goto("rd", "status", "unlock")
    /\ sbuf' = [sbuf EXCEPT !.word = Ok]
    /\ UNCHANGED <<clk, slk, cbuf, appVars, fsVars, disk>>

RdUnlock ==
    /\ Goto("rd", "unlock", "loop")
    /\ slk' = None
    /\ UNCHANGED <<clk, cbuf, sbuf, appVars, fsVars, disk>>

-----------------------------------------------------------------------------
AppSteps == AppLabel \/ AppArgs \/ AppUnlock \/ AppRetry \/ AppReturn
FsSteps ==
    \/ FsListen \/ FsNothing \/ FsAccept \/ FsReplyLabel \/ FsReplyWord \/ FsUnlock
    \/ \E op \in DiskOp : DiskRw(op)
    \/ DiskLabel \/ DiskArgs \/ DiskData \/ DiskUnlock
    \/ DiskRetry \/ DiskReturn
RdSteps == RdNothing \/ RdRead \/ RdWrite \/ RdClear \/ RdStatus \/ RdUnlock

Next ==
    \/ \E r \in Req : AppCall(r)
    \/ AppLock \/ AppPoll \/ AppSteps
    \/ FsLock \/ DiskLock \/ DiskPoll \/ FsSteps
    \/ RdLock \/ RdSteps

\* Every process keeps running, and one that spins on a lock gets it if the
\* lock is free again and again.  An application need not make any call.
Fairness ==
    /\ WF_vars(AppSteps) /\ WF_vars(FsSteps) /\ WF_vars(RdSteps)
    /\ SF_vars(AppLock) /\ SF_vars(AppPoll)
    /\ SF_vars(FsLock) /\ SF_vars(DiskLock) /\ SF_vars(DiskPoll)
    /\ SF_vars(RdLock)

Spec == Init /\ [][Next]_vars /\ Fairness

-----------------------------------------------------------------------------
(* Properties *)

AppPC == {"idle", "lock", "label", "args", "unlock", "wait", "look"}
FsPC == {"run", "loop", "check", "ret", "unlock", "slock", "slabel", "sargs",
         "sdata", "sunlock", "swait", "slook", "panic"}
RdPC == {"loop", "check", "clear", "status", "unlock"}

\* The variables have their types.
TypeOK ==
    /\ pc \in [app : AppPC, fs : FsPC, rd : RdPC]
    /\ clk \in {None, "app", "fs"} /\ slk \in {None, "fs", "rd"}
    /\ cbuf \in [label : {"none", "call"}, word : Req \cup {None}]
    /\ sbuf \in [label : {"none", "read", "write"}, word : Block \cup {None, Ok},
                 data : Data \cup {None}]
    /\ areq \in Req \cup {None} /\ ares \in Req \cup {None}
    /\ freq \in Req \cup {None} /\ fop \in DiskOp \cup {None}
    /\ fgot \in Data \cup {None} /\ left \in 0 .. MaxOps
    /\ disk \in [Block -> Data]

\* Where a process reads or writes a buffer.
AppAtClient == pc.app \in {"label", "args", "unlock", "look"}
FsAtClient == pc.fs \in {"check", "ret", "unlock"}
FsAtServer == pc.fs \in {"slabel", "sargs", "sdata", "sunlock", "slook"}
RdAtServer == pc.rd \in {"check", "clear", "status", "unlock"}

\* Two processes never touch the same buffer at the same time, and while xv6fs
\* handles a request, disk operations included, the application is kept out of
\* the client buffer, so that arguments and answer cannot be overwritten.
BuffersNotRaced ==
    /\ ~(AppAtClient /\ FsAtClient)
    /\ ~(FsAtServer /\ RdAtServer)
    /\ freq # None => ~AppAtClient

\* xv6fs never takes a block number left in the second word for a failure: the
\* status is in place whenever the label is gone.
NoFalseFailure == pc.fs # "panic"

\* Who holds which lock.
LockInv ==
    /\ clk = "app" <=> AppAtClient
    /\ clk = "fs" <=> FsAtClient \/ freq # None
    /\ slk = "fs" <=> FsAtServer
    /\ slk = "rd" <=> RdAtServer

\* What a request of the application is at each place of its way.
AppInv ==
    /\ areq = None <=> pc.app = "idle"
    /\ freq # None => pc.app = "wait" /\ freq = areq
    /\ pc.fs \in {"loop", "check"} => freq = None
    /\ pc.fs \in {"ret", "unlock"} => freq # None
    /\ pc.app \in {"unlock", "wait", "look"} => cbuf.word = areq
    /\ pc.app \in {"idle", "lock", "label"} => cbuf.label = "none"
    /\ pc.app \in {"args", "unlock"} => cbuf.label = "call"
    /\ freq # None => (cbuf.label = "none" <=> pc.fs \in {"ret", "unlock"})

DiskLabelOf(op) == IF op.write THEN "write" ELSE "read"

\* The ramdisk has carried out the disk operation.
DiskServed ==
    \/ pc.rd \in {"clear", "status", "unlock"}
    \/ pc.fs \in {"swait", "slook"} /\ sbuf.label = "none"

\* What a disk operation is at each place of its way.
DiskInv ==
    /\ fop # None <=> pc.fs = "slock" \/ pc.fs = "swait" \/ FsAtServer
    /\ pc.rd \in {"clear", "status", "unlock"} => pc.fs = "swait"
    /\ pc.rd = "clear" => sbuf.label # "none"
    /\ pc.rd \in {"status", "unlock"} => sbuf.label = "none"
    /\ pc.fs \in {"slock", "slabel"} \/ fop = None => sbuf.label = "none"
    /\ pc.fs \in {"sargs", "sdata", "sunlock"} => sbuf.label # "none"
    /\ sbuf.label # "none" => sbuf.label = DiskLabelOf(fop)
    /\ sbuf.label # "none" /\ pc.fs # "sargs" => sbuf.word = fop.block
    /\ pc.fs = "sdata" => fop.write
    /\ pc.fs \in {"sunlock", "swait", "slook"} =>
           /\ fop.write /\ sbuf.label # "none" => sbuf.data = fop.data
           /\ ~fop.write /\ DiskServed => sbuf.data = disk[fop.block]
           /\ sbuf.label = "none" /\ pc.rd # "status" => sbuf.word = Ok

\* The inductive invariant: locks, buffers and the places of the processes agree
\* at every step.
PollInv == TypeOK /\ LockInv /\ AppInv /\ DiskInv /\ NoFalseFailure

(* The two links as remote calls. *)

DiskEffect(d, r) == IF r.write THEN [d EXCEPT ![r.block] = r.data] ELSE d
DiskAnswer(d, r, last) == IF r.write THEN last ELSE d[r.block]

DiskLink == INSTANCE RemoteCall
    WITH Request <- DiskOp, Effect <- DiskEffect, Answer <- DiskAnswer,
         phase <- IF fop = None THEN "idle" ELSE IF DiskServed THEN "served" ELSE "asked",
         request <- fop, store <- disk, result <- fgot

\* Every disk_rw is carried out once by the ramdisk, after its arguments are
\* complete, gives the block as it then is, and returns.
DiskCallsServed == DiskLink!Spec

AppEffect(s, r) == s
AppAnswer(s, r, last) == r

\* xv6fs has taken the request: it is at work on it, or has answered it.
Accepted == freq # None \/ (pc.app \in {"wait", "look"} /\ cbuf.label = "none")

AppLink == INSTANCE RemoteCall
    WITH Request <- Req, Effect <- AppEffect, Answer <- AppAnswer,
         phase <- IF areq = None THEN "idle" ELSE IF Accepted THEN "served" ELSE "asked",
         request <- areq, store <- None, result <- ares

\* Every request of the application is taken up once by xv6fs, and the
\* application gets the answer to that request and no other.
AppCallsServed == AppLink!Spec
===============================================================================
