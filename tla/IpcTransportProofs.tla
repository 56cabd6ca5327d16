-------------------------- MODULE IpcTransportProofs --------------------------
(***************************************************************************)
(* Proofs about IpcTransport: its inductive invariant, and that every step  *)
(* of both links is a step of a remote call, for every set of blocks,       *)
(* contents and requests.                                                   *)
(***************************************************************************)
EXTENDS IpcTransport, TLAPS

USE IpcAssumption

\* The tables of threads and servers, as records.
LEMMA TypeFacts ==
    ASSUME TypeOK
    PROVE  /\ pc.app \in {"run", "send", "reply", "answered"}
           /\ pc.fs \in {"run", "recv", "received", "call", "send", "reply", "answered"}
           /\ pc.rd \in {"recv", "received", "serve"}
           /\ caller.fs \in {None, "app"} /\ caller.rd \in {None, "fs"}
           /\ \A p \in Thread : mr[p].label \in {None, "call", "read", "write"}
                                /\ mr[p].word \in Req \cup Block \cup {None, Ok}
BY DEF TypeOK

\* A disk operation has a block, and data when it is a write.
LEMMA DiskOpFacts ==
    ASSUME NEW op \in DiskOp
    PROVE  /\ op # None /\ op.block \in Block /\ op.write \in BOOLEAN
           /\ op.write => op.data \in Data
BY DEF DiskOp

\* The invariant holds when xv6fs starts.
LEMMA IpcInit == Init => IpcInv
<1> SUFFICES ASSUME Init PROVE IpcInv
  OBVIOUS
<1>1. TypeOK
  BY DEF Init, TypeOK, Thread
<1>2. AppInv
  BY DEF Init, AppInv
<1>3. DiskInv
  BY DEF Init, DiskInv
<1>4. QED BY <1>1, <1>2, <1>3 DEF IpcInv

\* Every step of a thread keeps it.
LEMMA IpcStep == IpcInv /\ [Next]_vars => IpcInv'
<1> SUFFICES ASSUME IpcInv, [Next]_vars PROVE IpcInv'
  OBVIOUS
<1> USE TypeFacts DEF IpcInv
<1>1. ASSUME NEW r \in Req, AppCall(r) PROVE IpcInv'
  <2>1. TypeOK'
    BY <1>1 DEF AppCall, Call, TypeOK, Thread
  <2>2. AppInv'
    BY <1>1 DEF AppCall, Call, TypeOK, Thread, AppInv
  <2>3. DiskInv'
    BY <1>1 DEF AppCall, Call, TypeOK, Thread, DiskInv, DiskMessage
  <2>4. QED BY <2>1, <2>2, <2>3
<1>2. CASE AppReturn
  <2>1. TypeOK'
    BY <1>2 DEF AppReturn, TypeOK, Thread, AppInv
  <2>2. AppInv'
    BY <1>2 DEF AppReturn, TypeOK, Thread, AppInv
  <2>3. DiskInv'
    BY <1>2 DEF AppReturn, TypeOK, Thread, DiskInv, DiskMessage
  <2>4. QED BY <2>1, <2>2, <2>3
<1>3. CASE FsListen
  <2>1. TypeOK'
    BY <1>3 DEF FsListen, TypeOK
  <2>2. AppInv'
    BY <1>3 DEF FsListen, TypeOK, AppInv
  <2>3. DiskInv'
    BY <1>3 DEF FsListen, TypeOK, DiskInv, DiskMessage
  <2>4. QED BY <2>1, <2>2, <2>3
<1>4. CASE FsRecv
  <2>1. TypeOK'
    BY <1>4 DEF FsRecv, Recv, TypeOK, Thread
  <2>2. AppInv'
    BY <1>4 DEF FsRecv, Recv, TypeOK, Thread, AppInv
  <2>3. DiskInv'
    BY <1>4 DEF FsRecv, Recv, TypeOK, Thread, DiskInv, DiskMessage
  <2>4. QED BY <2>1, <2>2, <2>3
<1>5. CASE FsFetch
  <2>1. TypeOK'
    BY <1>5 DEF FsFetch, TypeOK, AppInv
  <2>2. AppInv'
    BY <1>5 DEF FsFetch, TypeOK, AppInv
  <2>3. DiskInv'
    BY <1>5 DEF FsFetch, TypeOK, DiskInv, DiskMessage
  <2>4. QED BY <2>1, <2>2, <2>3
<1>6. CASE FsReply
  <2>1. TypeOK'
    BY <1>6 DEF FsReply, Reply, TypeOK, Thread, AppInv
  <2>2. AppInv'
    BY <1>6 DEF FsReply, Reply, TypeOK, Thread, AppInv
  <2>3. DiskInv'
    BY <1>6 DEF FsReply, Reply, TypeOK, Thread, DiskInv, DiskMessage
  <2>4. QED BY <2>1, <2>2, <2>3
<1>7. ASSUME NEW op \in DiskOp, DiskRw(op) PROVE IpcInv'
  <2> USE DiskOpFacts
  <2>1. TypeOK'
    BY <1>7 DEF DiskRw, TypeOK
  <2>2. AppInv'
    BY <1>7 DEF DiskRw, TypeOK, AppInv
  <2>3. DiskInv'
    BY <1>7 DEF DiskRw, TypeOK, DiskInv, DiskMessage
  <2>4. QED BY <2>1, <2>2, <2>3
<1>8. CASE DiskCall
  <2>0. fop \in DiskOp /\ fop.block \in Block
    BY <1>8, DiskOpFacts DEF DiskCall, TypeOK, DiskInv
  <2>1. TypeOK'
    BY <1>8, <2>0 DEF DiskCall, Call, TypeOK, Thread
  <2>2. AppInv'
    BY <1>8 DEF DiskCall, Call, TypeOK, Thread, AppInv
  <2>3. DiskInv'
    BY <1>8 DEF DiskCall, Call, TypeOK, Thread, DiskInv, DiskMessage
  <2>4. QED BY <2>1, <2>2, <2>3
<1>9. CASE DiskReturn
  <2>0. mr.fs.word = Ok
    BY <1>9 DEF DiskReturn, DiskInv
  <2>1. TypeOK'
    BY <1>9, <2>0 DEF DiskReturn, TypeOK
  <2>2. AppInv'
    BY <1>9, <2>0 DEF DiskReturn, TypeOK, AppInv
  <2>3. DiskInv'
    BY <1>9, <2>0 DEF DiskReturn, TypeOK, DiskInv, DiskMessage
  <2>4. QED BY <2>1, <2>2, <2>3
<1>10. CASE RdRecv
  <2>1. TypeOK'
    BY <1>10 DEF RdRecv, Recv, TypeOK, Thread
  <2>2. AppInv'
    BY <1>10 DEF RdRecv, Recv, TypeOK, Thread, AppInv
  <2>3. DiskInv'
    BY <1>10 DEF RdRecv, Recv, TypeOK, Thread, DiskInv, DiskMessage
  <2>4. QED BY <2>1, <2>2, <2>3
<1>11. CASE RdServe
  <2>0. fop \in DiskOp /\ fop.block \in Block /\ mr.rd.word = fop.block
        /\ (mr.rd.label = "write" => fop.write /\ sbuf \in Data)
        /\ (mr.rd.label = "read" => ~fop.write)
    <3>1. pc.rd = "received" /\ pc.fs = "reply" /\ fop \in DiskOp
      BY <1>11 DEF RdServe, TypeOK, DiskInv
    <3>2. mr.rd = DiskMessage /\ (fop.write => sbuf = fop.data)
      BY <3>1 DEF DiskInv
    <3>3. QED BY <3>1, <3>2, DiskOpFacts DEF DiskMessage
  <2>1. TypeOK'
    BY <1>11, <2>0 DEF RdServe, TypeOK
  <2>2. AppInv'
    BY <1>11 DEF RdServe, TypeOK, AppInv
  <2>3. DiskInv'
    BY <1>11, <2>0 DEF RdServe, TypeOK, DiskInv, DiskMessage
  <2>4. QED BY <2>1, <2>2, <2>3
<1>12. CASE RdReply
  <2>1. TypeOK'
    BY <1>12 DEF RdReply, Reply, TypeOK, Thread, DiskInv
  <2>2. AppInv'
    BY <1>12 DEF RdReply, Reply, TypeOK, Thread, AppInv, DiskInv
  <2>3. DiskInv'
    BY <1>12 DEF RdReply, Reply, TypeOK, Thread, DiskInv, DiskMessage
  <2>4. QED BY <2>1, <2>2, <2>3
<1>13. CASE UNCHANGED vars
  BY <1>13 DEF vars, TypeOK, AppInv, DiskInv, DiskMessage
<1>14. QED
  BY <1>1, <1>2, <1>3, <1>4, <1>5, <1>6, <1>7, <1>8, <1>9, <1>10, <1>11, <1>12,
     <1>13 DEF Next, FsSteps, RdSteps

\* Registers, buffer and threads agree in every reachable state: no thread takes
\* the message of another call for its own, whatever the servers do meanwhile.
THEOREM IpcInvariant == Spec => []IpcInv
<1>1. QED BY IpcInit, IpcStep, PTL DEF Spec

\* Type correctness: in particular xv6fs never panics over a status word.
THEOREM IpcTypeCorrect == Spec => []TypeOK
<1>1. IpcInv => TypeOK
  BY DEF IpcInv
<1>2. QED BY <1>1, IpcInvariant, PTL

-----------------------------------------------------------------------------
(* The two links. *)

\* Where a disk operation is, seen as a remote call.
DiskPhase ==
    IF fop = None THEN "idle"
    ELSE IF pc.rd = "serve" \/ pc.fs = "answered" THEN "served" ELSE "asked"

\* Every step is a step of the disk's remote call or leaves it alone.
LEMMA DiskLinkStep ==
    IpcInv /\ [Next]_vars => [DiskLink!Next]_(DiskLink!vars)
<1> SUFFICES ASSUME IpcInv, Next PROVE DiskLink!Next \/ UNCHANGED DiskLink!vars
  BY DEF vars, DiskLink!vars
<1> USE TypeFacts DEF IpcInv
<1>1. ASSUME NEW op \in DiskOp, DiskRw(op) PROVE DiskLink!Ask(op)
  <2>1. fop = None /\ fop' = op /\ op # None /\ pc'.fs = "call" /\ pc'.rd = pc.rd
    BY <1>1, DiskOpFacts DEF DiskRw, DiskInv, TypeOK
  <2>2. pc.rd # "serve"
    BY <1>1 DEF DiskRw, DiskInv
  <2>3. QED BY <1>1, <2>1, <2>2 DEF DiskRw, DiskLink!Ask
<1>2. CASE RdServe
  <2>1. pc.rd = "received" /\ pc.fs = "reply" /\ fop \in DiskOp /\ fop # None
    BY <1>2 DEF RdServe, DiskInv, TypeOK
  <2>2. mr.rd = DiskMessage /\ (fop.write => sbuf = fop.data)
    BY <2>1 DEF DiskInv
  <2>3. disk' = DiskEffect(disk, fop)
    BY <1>2, <2>1, <2>2, DiskOpFacts DEF RdServe, DiskMessage, DiskEffect
  <2>4. pc'.rd = "serve" /\ fop' = fop
    BY <1>2 DEF RdServe, TypeOK
  <2>5. DiskLink!Serve
    BY <1>2, <2>1, <2>3, <2>4 DEF RdServe, DiskLink!Serve
  <2>6. QED BY <2>5 DEF DiskLink!Next
<1>3. CASE DiskReturn
  <2>1. mr.fs.word = Ok /\ fop \in DiskOp /\ fop # None /\ pc.fs = "answered"
    BY <1>3 DEF DiskReturn, DiskInv, TypeOK
  <2>2. fgot' = DiskAnswer(disk, fop, fgot)
    BY <1>3, <2>1, DiskOpFacts DEF DiskReturn, DiskInv, DiskAnswer
  <2>3. DiskLink!Return
    BY <1>3, <2>1, <2>2 DEF DiskReturn, DiskLink!Return
  <2>4. QED BY <2>3 DEF DiskLink!Next
<1>4. ASSUME (\E r \in Req : AppCall(r)) \/ AppReturn \/ FsListen \/ FsRecv \/ FsFetch
             \/ FsReply \/ DiskCall \/ RdRecv \/ RdReply
      PROVE  UNCHANGED DiskLink!vars
  <2>1. UNCHANGED <<fop, fgot, disk>>
    BY <1>4 DEF AppCall, AppReturn, FsListen, FsRecv, FsFetch, FsReply, DiskCall, RdRecv, RdReply
  <2>2. UNCHANGED DiskPhase
    <3>1. CASE \E r \in Req : AppCall(r)
      BY <3>1, <2>1 DEF AppCall, Call, TypeOK, DiskPhase
    <3>2. CASE AppReturn \/ FsListen \/ FsFetch
      BY <3>2, <2>1 DEF AppReturn, FsListen, FsFetch, TypeOK, DiskPhase
    <3>3. CASE FsRecv
      BY <3>3, <2>1 DEF FsRecv, Recv, TypeOK, DiskPhase
    <3>4. CASE FsReply
      BY <3>4, <2>1 DEF FsReply, Reply, TypeOK, DiskPhase
    <3>5. CASE DiskCall
      BY <3>5, <2>1 DEF DiskCall, Call, TypeOK, DiskPhase
    <3>6. CASE RdRecv
      BY <3>6, <2>1 DEF RdRecv, Recv, TypeOK, DiskPhase
    <3>7. CASE RdReply
      BY <3>7, <2>1 DEF RdReply, Reply, TypeOK, DiskPhase, DiskInv
    <3>8. QED BY <1>4, <3>1, <3>2, <3>3, <3>4, <3>5, <3>6, <3>7
  <2>3. QED BY <2>1, <2>2 DEF DiskLink!vars, DiskPhase
<1>5. QED
  BY <1>1, <1>2, <1>3, <1>4 DEF Next, FsSteps, RdSteps, DiskLink!Next

\* Over seL4 IPC the disk is a remote call as far as safety goes: every disk_rw
\* is carried out once, between asking and returning, and gets its own answer.
THEOREM DiskLinkSafe == Spec => DiskLink!Init /\ [][DiskLink!Next]_(DiskLink!vars)
<1>1. Init => DiskLink!Init
  BY DEF Init, DiskLink!Init
<1>2. QED BY <1>1, DiskLinkStep, IpcInvariant, PTL DEF Spec

\* Where a request of the application is, seen as a remote call.
AppPhase ==
    IF areq = None THEN "idle"
    ELSE IF freq # None \/ pc.app = "answered" THEN "served" ELSE "asked"

\* Every step is a step of the application's remote call or leaves it alone.
LEMMA AppLinkStep ==
    IpcInv /\ [Next]_vars => [AppLink!Next]_(AppLink!vars)
<1> SUFFICES ASSUME IpcInv, Next PROVE AppLink!Next \/ UNCHANGED AppLink!vars
  BY DEF vars, AppLink!vars
<1> USE TypeFacts DEF IpcInv
<1>1. ASSUME NEW r \in Req, AppCall(r) PROVE AppLink!Ask(r)
  <2>1. areq = None /\ areq' = r /\ r # None /\ pc'.app = "send"
    BY <1>1 DEF AppCall, Call, AppInv, TypeOK
  <2>2. freq = None
    BY <1>1 DEF AppCall, AppInv
  <2>3. QED BY <1>1, <2>1, <2>2 DEF AppCall, AppLink!Ask
<1>2. CASE FsFetch
  <2>1. areq # None /\ freq = None /\ freq' = areq /\ pc.app = "reply"
    BY <1>2 DEF FsFetch, AppInv, TypeOK
  <2>2. AppLink!Serve
    BY <1>2, <2>1 DEF FsFetch, AppLink!Serve, AppEffect
  <2>3. QED BY <2>2 DEF AppLink!Next
<1>3. CASE AppReturn
  <2>1. areq # None /\ ares' = areq
    BY <1>3 DEF AppReturn, AppInv, TypeOK
  <2>2. AppLink!Return
    BY <1>3, <2>1 DEF AppReturn, AppLink!Return, AppAnswer
  <2>3. QED BY <2>2 DEF AppLink!Next
<1>4. ASSUME FsListen \/ FsRecv \/ FsReply \/ (\E op \in DiskOp : DiskRw(op))
             \/ DiskCall \/ DiskReturn \/ RdRecv \/ RdServe \/ RdReply
      PROVE  UNCHANGED AppLink!vars
  <2>1. UNCHANGED <<areq, ares>>
    BY <1>4 DEF FsListen, FsRecv, FsReply, DiskRw, DiskCall, DiskReturn, RdRecv, RdServe, RdReply
  <2>2. UNCHANGED AppPhase
    <3>1. CASE FsReply
      BY <3>1, <2>1 DEF FsReply, Reply, TypeOK, AppPhase, AppInv
    <3>2. CASE FsRecv
      BY <3>2, <2>1 DEF FsRecv, Recv, TypeOK, AppPhase
    <3>3. CASE RdRecv \/ RdReply
      BY <3>3, <2>1 DEF RdRecv, RdReply, Recv, Reply, TypeOK, AppPhase, DiskInv
    <3>4. CASE FsListen \/ (\E op \in DiskOp : DiskRw(op)) \/ DiskCall \/ DiskReturn \/ RdServe
      BY <3>4, <2>1 DEF FsListen, DiskRw, DiskCall, Call, DiskReturn, RdServe, TypeOK, AppPhase
    <3>5. QED BY <1>4, <3>1, <3>2, <3>3, <3>4
  <2>3. QED BY <2>1, <2>2 DEF AppLink!vars, AppPhase
<1>5. QED
  BY <1>1, <1>2, <1>3, <1>4 DEF Next, FsSteps, RdSteps, AppLink!Next

\* Over seL4 IPC the application's link is a remote call as far as safety goes:
\* a request is taken up once and is answered with the answer to that request.
THEOREM AppLinkSafe == Spec => AppLink!Init /\ [][AppLink!Next]_(AppLink!vars)
<1>1. Init => AppLink!Init
  BY DEF Init, AppLink!Init
<1>2. QED BY <1>1, AppLinkStep, IpcInvariant, PTL DEF Spec
===============================================================================
