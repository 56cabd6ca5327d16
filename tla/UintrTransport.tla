---------------------------- MODULE UintrTransport ----------------------------
(***************************************************************************)
(* The user interrupt transport (TEST_UINTR): the same three processes and *)
(* buffers as in PollTransport without locks.  A process announces a        *)
(* request or an answer by setting a pending bit of the other one.  xv6fs   *)
(* has one set of pending bits for both its neighbours: bit 1 is a request  *)
(* of the application, bit 2 an answer of the ramdisk.  Receiving takes all *)
(* pending bits at once, so a bit xv6fs is not waiting for is written back. *)
(*                                                                          *)
(* uipi_write, like sending, is taken to add bits to the pending ones.      *)
(***************************************************************************)
EXTENDS Integers

CONSTANTS
    Block, Data,    \* blocks of the disk and their contents
    Req,            \* the requests of the application, with their arguments
    None,           \* no request, no operation
    Ok,             \* the status word 0
    MaxOps          \* bound on the disk operations of one request

DiskOp == [write : {TRUE}, block : Block, data : Data]
            \cup [write : {FALSE}, block : Block, data : {None}]

ASSUME UintrAssumption ==
    /\ MaxOps \in Nat
    /\ None \notin Req \cup Block \cup Data \cup DiskOp
    /\ Ok \notin Req \cup Block \cup {None}

VARIABLES
    pc,         \* pc[p]: where each process is
    pending,    \* pending[p]: the pending bits of each process
    badge,      \* the bits xv6fs received and has not looked at
    cbuf,       \* the client buffer: label and second word
    sbuf,       \* the server buffer: label, second word and block
    areq,       \* the request the application is making
    ares,       \* the answer the application got last
    freq,       \* the request xv6fs is handling
    fop,        \* the disk operation xv6fs is in
    fgot,       \* the block xv6fs read last
    left,       \* disk operations xv6fs may still make for the request
    disk        \* the ramdisk

vars == <<pc, pending, badge, cbuf, sbuf, areq, ares, freq, fop, fgot, left, disk>>

appVars == <<areq, ares>>
fsVars == <<freq, fop, fgot, left>>

\* xv6fs starts by creating the file system image: the application may send
\* its first request while xv6fs waits for the ramdisk.
Init ==
    /\ pc = [app |-> "idle", fs |-> "run", rd |-> "recv"]
    /\ pending = [app |-> {}, fs |-> {}, rd |-> {}]
    /\ badge = {}
    /\ cbuf = [label |-> "none", word |-> None]
    /\ sbuf = [label |-> "none", word |-> None, data |-> None]
    /\ areq = None /\ ares = None
    /\ freq = None /\ fop = None /\ fgot = None
    /\ left = MaxOps
    /\ disk \in [Block -> Data]

Goto(p, from, to) == pc[p] = from /\ pc' = [pc EXCEPT ![p] = to]

\* Set bit n of process p: seL4_UintrSend, uipi_write.
Raise(p, n) == pending' = [pending EXCEPT ![p] = @ \cup {n}]

\* seL4_UintrNBRecv of xv6fs: takes whatever is pending, perhaps nothing.
FsReceives ==
    /\ badge' = pending.fs
    /\ pending' = [pending EXCEPT !.fs = {}]

-----------------------------------------------------------------------------
(* The application's side of a call (its system call library). *)

AppCall(r) ==
    /\ Goto("app", "idle", "label")
    /\ areq' = r
    /\ UNCHANGED <<pending, badge, cbuf, sbuf, ares, fsVars, disk>>

AppLabel ==
    /\ Goto("app", "label", "args")
    /\ cbuf' = [cbuf EXCEPT !.label = "call"]
    /\ UNCHANGED <<pending, badge, sbuf, appVars, fsVars, disk>>

AppArgs ==
    /\ Goto("app", "args", "send")
    /\ cbuf' = [cbuf EXCEPT !.word = areq]
    /\ UNCHANGED <<pending, badge, sbuf, appVars, fsVars, disk>>

AppSend ==
    /\ Goto("app", "send", "wait")
    /\ Raise("fs", 1)
    /\ UNCHANGED <<badge, cbuf, sbuf, appVars, fsVars, disk>>

AppWake ==
    /\ Goto("app", "wait", "look")
    /\ pending.app # {}
    /\ pending' = [pending EXCEPT !.app = {}]
    /\ UNCHANGED <<badge, cbuf, sbuf, appVars, fsVars, disk>>

AppReturn ==
    /\ Goto("app", "look", "idle")
    /\ ares' = cbuf.word /\ areq' = None
    /\ UNCHANGED <<pending, badge, cbuf, sbuf, fsVars, disk>>

-----------------------------------------------------------------------------
(* xv6fs: the loop of main(). *)

\* fsinit() is over: the server starts to listen.
FsListen ==
    /\ Goto("fs", "run", "recv")
    /\ freq = None
    /\ UNCHANGED <<pending, badge, cbuf, sbuf, appVars, fsVars, disk>>

FsRecv ==
    /\ Goto("fs", "recv", "sort")
    /\ FsReceives
    /\ UNCHANGED <<cbuf, sbuf, appVars, fsVars, disk>>

FsSort ==
    /\ Goto("fs", "sort", IF 1 \in badge THEN "args" ELSE "recv")
    /\ IF 2 \in badge THEN Raise("fs", 2) ELSE UNCHANGED pending
    /\ badge' = {}
    /\ UNCHANGED <<cbuf, sbuf, appVars, fsVars, disk>>

FsAccept ==
    /\ Goto("fs", "args", "run")
    /\ freq' = cbuf.word /\ left' = MaxOps
    /\ UNCHANGED <<pending, badge, cbuf, sbuf, appVars, fop, fgot, disk>>

FsReplyLabel ==
    /\ Goto("fs", "run", "ret")
    /\ freq # None
    /\ cbuf' = [cbuf EXCEPT !.label = "none"]
    /\ UNCHANGED <<pending, badge, sbuf, appVars, fsVars, disk>>

\* Mutant of FsReplyWord: the answer is taken from the server buffer.
FsReplyWrongWord ==
    /\ Goto("fs", "ret", "send")
    /\ cbuf' = [cbuf EXCEPT !.word = sbuf.word]
    /\ UNCHANGED <<pending, badge, sbuf, appVars, fsVars, disk>>

FsReplyWord ==
    /\ Goto("fs", "ret", "send")
    /\ cbuf' = [cbuf EXCEPT !.word = freq]
    /\ UNCHANGED <<pending, badge, sbuf, appVars, fsVars, disk>>

FsReplySend ==
    /\ Goto("fs", "send", "recv")
    /\ Raise("app", 1)
    /\ freq' = None
    /\ UNCHANGED <<badge, cbuf, sbuf, appVars, fop, fgot, left, disk>>

-----------------------------------------------------------------------------
(* xv6fs: disk_rw and CallBadged. *)

DiskRw(op) ==
    /\ Goto("fs", "run", "slabel")
    /\ left > 0 /\ left' = left - 1
    /\ fop' = op
    /\ UNCHANGED <<pending, badge, cbuf, sbuf, appVars, freq, fgot, disk>>

DiskLabel ==
    /\ Goto("fs", "slabel", "sargs")
    /\ sbuf' = [sbuf EXCEPT !.label = IF fop.write THEN "write" ELSE "read"]
    /\ UNCHANGED <<pending, badge, cbuf, appVars, fsVars, disk>>

\* Mutant of DiskArgs: the ramdisk is woken before the block is copied.
DiskArgsSending ==
    /\ Goto("fs", "sargs", IF fop.write THEN "sdata" ELSE "ssend")
    /\ sbuf' = [sbuf EXCEPT !.word = fop.block]
    /\ Raise("rd", 1)
    /\ UNCHANGED <<badge, cbuf, appVars, fsVars, disk>>

DiskArgs ==
    /\ Goto("fs", "sargs", IF fop.write THEN "sdata" ELSE "ssend")
    /\ sbuf' = [sbuf EXCEPT !.word = fop.block]
    /\ UNCHANGED <<pending, badge, cbuf, appVars, fsVars, disk>>

DiskData ==
    /\ Goto("fs", "sdata", "ssend")
    /\ sbuf' = [sbuf EXCEPT !.data = fop.data]
    /\ UNCHANGED <<pending, badge, cbuf, appVars, fsVars, disk>>

DiskSend ==
    /\ Goto("fs", "ssend", "srecv")
    /\ Raise("rd", 1)
    /\ UNCHANGED <<badge, cbuf, sbuf, appVars, fsVars, disk>>

DiskRecv ==
    /\ Goto("fs", "srecv", "ssort")
    /\ FsReceives
    /\ UNCHANGED <<cbuf, sbuf, appVars, fsVars, disk>>

\* Mutants of DiskSort: all received bits are written back, any bit ends the
\* wait, the bit of the application is not written back.
DiskSortWritingAllBack ==
    /\ Goto("fs", "ssort", IF 2 \in badge THEN "slook" ELSE "srecv")
    /\ pending' = [pending EXCEPT !.fs = @ \cup badge]
    /\ badge' = {}
    /\ UNCHANGED <<cbuf, sbuf, appVars, fsVars, disk>>

DiskSortAnyBit ==
    /\ Goto("fs", "ssort", IF badge # {} THEN "slook" ELSE "srecv")
    /\ IF 1 \in badge THEN Raise("fs", 1) ELSE UNCHANGED pending
    /\ badge' = {}
    /\ UNCHANGED <<cbuf, sbuf, appVars, fsVars, disk>>

DiskSortDropping ==
    /\ Goto("fs", "ssort", IF 2 \in badge THEN "slook" ELSE "srecv")
    /\ badge' = {}
    /\ UNCHANGED <<pending, cbuf, sbuf, appVars, fsVars, disk>>

DiskSort ==
    /\ Goto("fs", "ssort", IF 2 \in badge THEN "slook" ELSE "srecv")
    /\ IF 1 \in badge THEN Raise("fs", 1) ELSE UNCHANGED pending
    /\ badge' = {}
    /\ UNCHANGED <<cbuf, sbuf, appVars, fsVars, disk>>

\* A status other than 0: panic("Failed to write block" or "... read block").
DiskReturn ==
    /\ Goto("fs", "slook", IF sbuf.word = Ok THEN "run" ELSE "panic")
    /\ fgot' = IF fop.write THEN fgot ELSE sbuf.data
    /\ fop' = None
    /\ UNCHANGED <<pending, badge, cbuf, sbuf, appVars, freq, left, disk>>

-----------------------------------------------------------------------------
(* ramdisk: the loop of main(). *)

RdWake ==
    /\ Goto("rd", "recv", "serve")
    /\ pending.rd # {}
    /\ pending' = [pending EXCEPT !.rd = {}]
    /\ UNCHANGED <<badge, cbuf, sbuf, appVars, fsVars, disk>>

RdRead ==
    /\ Goto("rd", "serve", "clear")
    /\ sbuf.label = "read"
    /\ sbuf' = [sbuf EXCEPT !.data = disk[sbuf.word]]
    /\ UNCHANGED <<pending, badge, cbuf, appVars, fsVars, disk>>

RdWrite ==
    /\ Goto("rd", "serve", "clear")
    /\ sbuf.label = "write"
    /\ disk' = [disk EXCEPT ![sbuf.word] = sbuf.data]
    /\ UNCHANGED <<pending, badge, cbuf, sbuf, appVars, fsVars>>

RdClear ==
    /\ Goto("rd", "clear", "status")
    /\ sbuf' = [sbuf EXCEPT !.label = "none"]
    /\ UNCHANGED <<pending, badge, cbuf, appVars, fsVars, disk>>

\* Mutant of RdStatus: the status is forgotten.
RdStatusMissing ==
    /\ Goto("rd", "status", "send")
    /\ UNCHANGED <<pending, badge, cbuf, sbuf, appVars, fsVars, disk>>

RdStatus ==
    /\ Goto("rd", "status", "send")
    /\ sbuf' = [sbuf EXCEPT !.word = Ok]
    /\ UNCHANGED <<pending, badge, cbuf, appVars, fsVars, disk>>

RdSend ==
    /\ Goto("rd", "send", "recv")
    /\ Raise("fs", 2)
    /\ UNCHANGED <<badge, cbuf, sbuf, appVars, fsVars, disk>>

-----------------------------------------------------------------------------
AppSteps == AppLabel \/ AppArgs \/ AppSend \/ AppWake \/ AppReturn
FsSteps ==
    \/ FsListen \/ FsRecv \/ FsSort \/ FsAccept
    \/ FsReplyLabel \/ FsReplyWord \/ FsReplySend
    \/ \E op \in DiskOp : DiskRw(op)
    \/ DiskLabel \/ DiskArgs \/ DiskData \/ DiskSend
    \/ DiskRecv \/ DiskSort \/ DiskReturn
RdSteps == RdWake \/ RdRead \/ RdWrite \/ RdClear \/ RdStatus \/ RdSend

Next ==
    \/ \E r \in Req : AppCall(r)
    \/ AppSteps \/ FsSteps \/ RdSteps

\* Every process keeps running; an application need not make any call.
Fairness == WF_vars(AppSteps) /\ WF_vars(FsSteps) /\ WF_vars(RdSteps)

Spec == Init /\ [][Next]_vars /\ Fairness

-----------------------------------------------------------------------------
(* Properties *)

AppPC == {"idle", "label", "args", "send", "wait", "look"}
FsPC == {"run", "recv", "sort", "args", "ret", "send", "slabel", "sargs",
         "sdata", "ssend", "srecv", "ssort", "slook", "panic"}
RdPC == {"recv", "serve", "clear", "status", "send"}

\* The variables have their types: xv6fs has two pending bits, the others one.
TypeOK ==
    /\ pc \in [app : AppPC, fs : FsPC, rd : RdPC]
    /\ pending \in [app : SUBSET {1}, fs : SUBSET {1, 2}, rd : SUBSET {1}]
    /\ badge \subseteq {1, 2}
    /\ cbuf \in [label : {"none", "call"}, word : Req \cup {None}]
    /\ sbuf \in [label : {"none", "read", "write"}, word : Block \cup {None, Ok},
                 data : Data \cup {None}]
    /\ areq \in Req \cup {None} /\ ares \in Req \cup {None}
    /\ freq \in Req \cup {None} /\ fop \in DiskOp \cup {None}
    /\ fgot \in Data \cup {None} /\ left \in 0 .. MaxOps
    /\ disk \in [Block -> Data]

\* Without a lock, the pending bits alone keep two processes from touching a
\* buffer at the same time.
BuffersNotRaced ==
    /\ ~(pc.app \in {"label", "args", "send", "look"}
         /\ (pc.fs \in {"args", "ret", "send"} \/ freq # None))
    /\ ~(pc.fs \in {"slabel", "sargs", "sdata", "ssend", "slook"}
         /\ pc.rd \in {"serve", "clear", "status", "send"})

\* An answer of the ramdisk is pending, or in xv6fs's hands, only while xv6fs
\* waits for it in CallBadged: main() never has one to write back, and no
\* disk_rw can be ended by the answer to an earlier one.
NoStrayAnswer == 2 \in pending.fs \cup badge => pc.fs \in {"srecv", "ssort"}

\* xv6fs never takes a block number left in the second word for a failure.
NoFalseFailure == pc.fs # "panic"

\* Every answer of the ramdisk is taken by the disk_rw that asked for it, with
\* the status and not what the word held before.
AnswersMatched == NoStrayAnswer /\ NoFalseFailure

\* What a request of the application is at each place of its way: there is one
\* sign of it, which is a pending bit, a bit in hand, xv6fs at work, or a bit on
\* its way back, and there is one while the application waits only.
AppInv ==
    /\ areq = None <=> pc.app = "idle"
    /\ pc.app \in {"send", "wait", "look"} => cbuf.word = areq
    /\ 1 \in pending.fs \cup badge \/ pc.fs = "args" \/ freq # None \/ pending.app # {}
           => pc.app = "wait"
    /\ 1 \in pending.fs => 1 \notin badge
    /\ 1 \in pending.fs \cup badge => pc.fs # "args" /\ freq = None /\ pending.app = {}
    /\ pc.fs = "args" => pending.app = {}
    /\ freq # None => freq = areq /\ pending.app = {}
    /\ pc.fs \in {"recv", "sort", "args"} => freq = None
    /\ pc.fs \in {"ret", "send"} => freq # None
    /\ badge # {} => pc.fs \in {"sort", "ssort"}

\* The ramdisk has carried out the disk operation.
DiskServed ==
    \/ pc.rd \in {"clear", "status", "send"}
    \/ 2 \in pending.fs \cup badge
    \/ pc.fs = "slook"

DiskMessage ==
    /\ sbuf.label = IF fop.write THEN "write" ELSE "read"
    /\ sbuf.word = fop.block
    /\ fop.write => sbuf.data = fop.data

\* What a disk operation is at each place of its way, with one sign of it likewise.
DiskInv ==
    /\ fop # None <=> pc.fs \in {"slabel", "sargs", "sdata", "ssend", "srecv", "ssort", "slook"}
    /\ pending.rd # {} \/ pc.rd # "recv" \/ 2 \in pending.fs \cup badge
           => pc.fs \in {"srecv", "ssort"}
    /\ pending.rd # {} => pc.rd = "recv" /\ 2 \notin pending.fs \cup badge
    /\ pc.rd # "recv" => 2 \notin pending.fs \cup badge
    /\ 2 \in pending.fs => 2 \notin badge
    /\ pc.fs \in {"sargs", "sdata", "ssend"} =>
           sbuf.label = IF fop.write THEN "write" ELSE "read"
    /\ pc.fs \in {"sdata", "ssend"} => sbuf.word = fop.block
    /\ pc.fs = "sdata" => fop.write
    /\ pc.fs = "ssend" /\ fop.write => sbuf.data = fop.data
    /\ pending.rd # {} \/ pc.rd = "serve" => DiskMessage
    /\ DiskServed /\ ~fop.write => sbuf.data = disk[fop.block]
    /\ pc.rd = "send" \/ 2 \in pending.fs \cup badge \/ pc.fs = "slook" => sbuf.word = Ok

\* The inductive invariant: bits, buffers and the places of the processes agree at
\* every step.
UintrInv == TypeOK /\ AppInv /\ DiskInv /\ NoFalseFailure

(* The two links as remote calls. *)

DiskEffect(d, r) == IF r.write THEN [d EXCEPT ![r.block] = r.data] ELSE d
DiskAnswer(d, r, last) == IF r.write THEN last ELSE d[r.block]

DiskLink == INSTANCE RemoteCall
    WITH Request <- DiskOp, Effect <- DiskEffect, Answer <- DiskAnswer,
         phase <- IF fop = None THEN "idle" ELSE IF DiskServed THEN "served" ELSE "asked",
         request <- fop, store <- disk, result <- fgot

\* Every disk_rw is carried out once by the ramdisk, after its arguments are
\* complete, gives the block as it then is, and returns.
DiskCallsServed == DiskLink!Spec

AppEffect(s, r) == s
AppAnswer(s, r, last) == r

\* xv6fs has taken the request: it is at work on it, or has answered it.
Accepted == freq # None \/ pending.app # {} \/ pc.app = "look"

AppLink == INSTANCE RemoteCall
    WITH Request <- Req, Effect <- AppEffect, Answer <- AppAnswer,
         phase <- IF areq = None THEN "idle" ELSE IF Accepted THEN "served" ELSE "asked",
         request <- areq, store <- None, result <- ares

\* Every request of the application is taken up once by xv6fs, however it
\* interleaves with the answers of the ramdisk in the same pending bits, and
\* the application gets the answer to that request and no other.
AppCallsServed == AppLink!Spec
===============================================================================
