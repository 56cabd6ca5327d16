----------------------------- MODULE IpcTransport -----------------------------
(***************************************************************************)
(* The IPC transport (TEST_NORMAL): the application calls xv6fs and xv6fs   *)
(* calls the ramdisk through seL4 endpoints.  A call blocks its caller until *)
(* the server replies.  Arguments and results travel in message registers,   *)
(* one set per thread, which every send, receive and reply of the thread     *)
(* writes: xv6fs's registers hold the arguments of the request it serves     *)
(* only until its first disk_rw.  Blocks travel in the buffer that xv6fs and *)
(* the ramdisk share.                                                        *)
(***************************************************************************)
CONSTANTS
    Block, Data,    \* blocks of the disk and their contents
    Req,            \* the requests of the application, with their arguments
    None,           \* no request, no caller
    Ok              \* the status word 0

DiskOp == [write : {TRUE}, block : Block, data : Data]
            \cup [write : {FALSE}, block : Block, data : {None}]

ASSUME IpcAssumption ==
    /\ None \notin Req \cup Block \cup Data \cup DiskOp \cup {"app", "fs"}
    /\ Ok \notin Req \cup Block \cup {None}

VARIABLES
    pc,     \* pc[p]: where each thread is
    mr,     \* mr[p]: the message registers of a thread: label and first word
    caller, \* caller[s]: the thread that waits for the reply of server s
    sbuf,   \* the shared buffer of xv6fs and the ramdisk
    areq,   \* the request the application is making
    ares,   \* the answer the application got last
    freq,   \* the arguments xv6fs has fetched
    fop,    \* the disk operation xv6fs is in
    fgot,   \* the block xv6fs read last
    disk    \* the ramdisk

vars == <<pc, mr, caller, sbuf, areq, ares, freq, fop, fgot, disk>>

Thread == {"app", "fs", "rd"}

\* xv6fs creates the file system image before it listens.
Init ==
    /\ pc = [app |-> "run", fs |-> "run", rd |-> "recv"]
    /\ mr = [p \in Thread |-> [label |-> None, word |-> None]]
    /\ caller = [fs |-> None, rd |-> None]
    /\ sbuf = None
    /\ areq = None /\ ares = None
    /\ freq = None /\ fop = None /\ fgot = None
    /\ disk \in [Block -> Data]

-----------------------------------------------------------------------------
(* The kernel. *)

\* seL4_Call: the thread sets its registers and waits at the endpoint.
Call(p, label, word) ==
    /\ mr' = [mr EXCEPT ![p] = [label |-> label, word |-> word]]
    /\ pc' = [pc EXCEPT ![p] = "send"]

\* seL4_Recv: server s takes the message of c, who now waits for the reply.
Recv(c, s) ==
    /\ pc[s] = "recv" /\ pc[c] = "send"
    /\ pc' = [pc EXCEPT ![s] = "received", ![c] = "reply"]
    /\ mr' = [mr EXCEPT ![s] = mr[c]]
    /\ caller' = [caller EXCEPT ![s] = c]

\* seL4_Reply: the caller gets the registers and runs again; the server goes
\* back to its endpoint.
Reply(s, word) ==
    LET msg == [mr[s] EXCEPT !.word = word]
    IN  /\ pc' = [pc EXCEPT ![s] = "recv", ![caller[s]] = "answered"]
        /\ mr' = [mr EXCEPT ![s] = msg, ![caller[s]] = msg]
        /\ caller' = [caller EXCEPT ![s] = None]

-----------------------------------------------------------------------------
(* The application. *)

AppCall(r) ==
    /\ pc.app = "run"
    /\ Call("app", "call", r)
    /\ areq' = r
    /\ UNCHANGED <<caller, sbuf, ares, freq, fop, fgot, disk>>

AppReturn ==
    /\ pc.app = "answered"
    /\ pc' = [pc EXCEPT !.app = "run"]
    /\ ares' = mr.app.word /\ areq' = None
    /\ UNCHANGED <<mr, caller, sbuf, freq, fop, fgot, disk>>

-----------------------------------------------------------------------------
(* xv6fs: main() and the handlers' use of the registers. *)

FsListen ==
    /\ pc.fs = "run" /\ caller.fs = None
    /\ pc' = [pc EXCEPT !.fs = "recv"]
    /\ UNCHANGED <<mr, caller, sbuf, areq, ares, freq, fop, fgot, disk>>

FsRecv == Recv("app", "fs") /\ UNCHANGED <<sbuf, areq, ares, freq, fop, fgot, disk>>

\* Mutant of FsFetch: a path is looked up before the arguments are fetched.
FsFetchAfterDisk ==
    /\ pc.fs = "received"
    /\ pc' = [pc EXCEPT !.fs = "run"]
    /\ freq' \in {mr.fs.word, Ok}
    /\ UNCHANGED <<mr, caller, sbuf, areq, ares, fop, fgot, disk>>

\* Every handler fetches all its arguments before it uses the disk.
FsFetch ==
    /\ pc.fs = "received"
    /\ pc' = [pc EXCEPT !.fs = "run"]
    /\ freq' = mr.fs.word
    /\ UNCHANGED <<mr, caller, sbuf, areq, ares, fop, fgot, disk>>

FsReply ==
    /\ pc.fs = "run" /\ caller.fs # None
    /\ Reply("fs", freq)
    /\ freq' = None
    /\ UNCHANGED <<sbuf, areq, ares, fop, fgot, disk>>

-----------------------------------------------------------------------------
(* xv6fs: disk_rw, any number of times, while it serves a request or formats  *)
(* the disk.                                                                  *)

\* A block to be written goes to the shared buffer before the call.
DiskRw(op) ==
    /\ pc.fs = "run"
    /\ pc' = [pc EXCEPT !.fs = "call"]
    /\ fop' = op
    /\ sbuf' = IF op.write THEN op.data ELSE sbuf
    /\ UNCHANGED <<mr, caller, areq, ares, freq, fgot, disk>>

DiskCall ==
    /\ pc.fs = "call"
    /\ Call("fs", IF fop.write THEN "write" ELSE "read", fop.block)
    /\ UNCHANGED <<caller, sbuf, areq, ares, freq, fop, fgot, disk>>

\* panic("Failed to write block") and "... read block".
DiskReturn ==
    /\ pc.fs = "answered"
    /\ pc' = [pc EXCEPT !.fs = IF mr.fs.word = Ok THEN "run" ELSE "panic"]
    /\ fgot' = IF fop.write THEN fgot ELSE sbuf
    /\ fop' = None
    /\ UNCHANGED <<mr, caller, sbuf, areq, ares, freq, disk>>

-----------------------------------------------------------------------------
(* ramdisk: the loop of main(). *)

RdRecv == Recv("fs", "rd") /\ UNCHANGED <<sbuf, areq, ares, freq, fop, fgot, disk>>

\* Mutant of RdServe: the blocks are copied the same way for both labels.
RdServeReading ==
    /\ pc.rd = "received"
    /\ pc' = [pc EXCEPT !.rd = "serve"]
    /\ sbuf' = disk[mr.rd.word]
    /\ UNCHANGED <<mr, caller, areq, ares, freq, fop, fgot, disk>>

RdServe ==
    /\ pc.rd = "received"
    /\ pc' = [pc EXCEPT !.rd = "serve"]
    /\ \/ mr.rd.label = "read" /\ sbuf' = disk[mr.rd.word] /\ UNCHANGED disk
       \/ /\ mr.rd.label = "write" /\ UNCHANGED sbuf
          /\ disk' = [disk EXCEPT ![mr.rd.word] = sbuf]
    /\ UNCHANGED <<mr, caller, areq, ares, freq, fop, fgot>>

\* Mutant of RdReply: the status is not set, the block number stays.
RdReplyUnset ==
    /\ pc.rd = "serve"
    /\ Reply("rd", mr.rd.word)
    /\ UNCHANGED <<sbuf, areq, ares, freq, fop, fgot, disk>>

RdReply ==
    /\ pc.rd = "serve"
    /\ Reply("rd", Ok)
    /\ UNCHANGED <<sbuf, areq, ares, freq, fop, fgot, disk>>

-----------------------------------------------------------------------------
FsSteps == FsListen \/ FsRecv \/ FsFetch \/ FsReply \/ DiskCall \/ DiskReturn
RdSteps == RdRecv \/ RdServe \/ RdReply

Next ==
    \/ \E r \in Req : AppCall(r)
    \/ AppReturn
    \/ FsSteps
    \/ \E op \in DiskOp : DiskRw(op)
    \/ RdSteps

\* Every thread keeps running, and a handler ends: it does not use the disk
\* for ever.  An application need not make any call.
Fairness ==
    /\ WF_vars(AppReturn) /\ WF_vars(FsSteps) /\ WF_vars(RdSteps)
    /\ SF_vars(FsListen) /\ SF_vars(FsReply)

Spec == Init /\ [][Next]_vars /\ Fairness

-----------------------------------------------------------------------------
(* Properties *)

\* The variables have their types; in particular xv6fs never panics, so it
\* never takes the block number it sent, or anything else left in the register,
\* for the status of the ramdisk.
TypeOK ==
    /\ pc \in [app : {"run", "send", "reply", "answered"},
              fs : {"run", "recv", "received", "call", "send", "reply", "answered"},
              rd : {"recv", "received", "serve"}]
    /\ mr \in [Thread -> [label : {None, "call", "read", "write"},
                         word : Req \cup Block \cup {None, Ok}]]
    /\ caller \in [fs : {None, "app"}, rd : {None, "fs"}]
    /\ sbuf \in Data \cup {None} /\ fgot \in Data \cup {None}
    /\ areq \in Req \cup {None} /\ ares \in Req \cup {None}
    /\ freq \in Req \cup {None} /\ fop \in DiskOp \cup {None}
    /\ disk \in [Block -> Data]

\* The message of the disk operation that xv6fs is in.
DiskMessage == [label |-> IF fop.write THEN "write" ELSE "read", word |-> fop.block]

\* What a request of the application is at each place of its way.
AppInv ==
    /\ pc.app = "run" <=> areq = None
    /\ pc.app = "reply" <=> caller.fs = "app"
    /\ pc.app \in {"send", "answered"} => mr.app.word = areq
    /\ pc.fs = "recv" => caller.fs = None
    /\ pc.fs = "received" => caller.fs = "app" /\ mr.fs.word = areq
    /\ freq = IF caller.fs = "app" /\ pc.fs # "received" THEN areq ELSE None

\* What a disk operation is at each place of its way.
DiskInv ==
    /\ fop # None <=> pc.fs \in {"call", "send", "reply", "answered"}
    /\ caller.rd = "fs" <=> pc.fs = "reply"
    /\ caller.rd = None <=> pc.rd = "recv"
    /\ pc.fs = "send" => mr.fs = DiskMessage
    /\ pc.rd = "received" => mr.rd = DiskMessage
    /\ fop # None /\ fop.write => sbuf = fop.data
    /\ (pc.rd = "serve" \/ pc.fs = "answered") /\ ~fop.write => sbuf = disk[fop.block]
    /\ pc.fs = "answered" => mr.fs.word = Ok

\* The inductive invariant: registers, buffer and the places of the threads agree
\* at every step, so that no message is taken for another and xv6fs never takes
\* the block number it sent for the status of the ramdisk.
IpcInv == TypeOK /\ AppInv /\ DiskInv

(* The two links as remote calls. *)

DiskEffect(d, r) == IF r.write THEN [d EXCEPT ![r.block] = r.data] ELSE d
DiskAnswer(d, r, last) == IF r.write THEN last ELSE d[r.block]

DiskLink == INSTANCE RemoteCall
    WITH Request <- DiskOp, Effect <- DiskEffect, Answer <- DiskAnswer,
         phase <- IF fop = None THEN "idle"
                  ELSE IF pc.rd = "serve" \/ pc.fs = "answered" THEN "served" ELSE "asked",
         request <- fop, store <- disk, result <- fgot

\* Every disk_rw is carried out once by the ramdisk, gives the block as it then
\* is, and returns.
DiskCallsServed == DiskLink!Spec

AppEffect(s, r) == s
AppAnswer(s, r, last) == r

AppLink == INSTANCE RemoteCall
    WITH Request <- Req, Effect <- AppEffect, Answer <- AppAnswer,
         phase <- IF areq = None THEN "idle"
                  ELSE IF freq # None \/ pc.app = "answered" THEN "served" ELSE "asked",
         request <- areq, store <- None, result <- ares

\* Every request of the application is taken up once by xv6fs, with its own
\* arguments however much the registers are used meanwhile, and the application
\* gets the answer to that request.
AppCallsServed == AppLink!Spec
===============================================================================
