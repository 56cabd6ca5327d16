------------------------- MODULE UintrTransportProofs -------------------------
(***************************************************************************)
(* Proofs about UintrTransport: its inductive invariant, the safety          *)
(* properties that follow from it, and that every step of both links is a   *)
(* step of a remote call, for every set of blocks, contents and requests and *)
(* every number of disk operations of a request.                            *)
(***************************************************************************)
EXTENDS UintrTransport, TLAPS

USE UintrAssumption

\* A disk operation has a block, and data when it is a write.
LEMMA DiskOpFacts ==
    ASSUME NEW op \in DiskOp
    PROVE  /\ op # None /\ op.block \in Block /\ op.write \in BOOLEAN
           /\ op.write => op.data \in Data
BY DEF DiskOp

\* The invariant holds when the processes start.
LEMMA UintrInit == Init => UintrInv
<1> SUFFICES ASSUME Init PROVE UintrInv
  OBVIOUS
<1>1. TypeOK
  BY DEF Init, TypeOK, AppPC, FsPC, RdPC
<1>2. AppInv
  BY DEF Init, AppInv
<1>3. DiskInv
  BY DEF Init, DiskInv, DiskServed
<1>4. NoFalseFailure
  BY DEF Init, NoFalseFailure
<1>5. QED BY <1>1, <1>2, <1>3, <1>4 DEF UintrInv

\* Every step of a process keeps it.
LEMMA UintrStep == UintrInv /\ [Next]_vars => UintrInv'
<1> SUFFICES ASSUME UintrInv, [Next]_vars PROVE UintrInv'
  OBVIOUS
<1> USE DiskOpFacts DEF UintrInv, Goto, appVars, fsVars
<1>1. ASSUME NEW r \in Req, AppCall(r) PROVE UintrInv'
  <2>1. TypeOK' /\ NoFalseFailure'
    BY <1>1 DEF AppCall, TypeOK, AppPC, FsPC, RdPC, NoFalseFailure
  <2>2. AppInv'
    BY <1>1 DEF AppCall, TypeOK, AppInv
  <2>3. DiskInv'
    BY <1>1 DEF AppCall, TypeOK, DiskInv, DiskServed, DiskMessage
  <2>4. QED BY <2>1, <2>2, <2>3
<1>2. CASE AppLabel
  <2>1. TypeOK' /\ NoFalseFailure'
    BY <1>2 DEF AppLabel, TypeOK, AppPC, FsPC, RdPC, NoFalseFailure
  <2>2. AppInv'
    BY <1>2 DEF AppLabel, TypeOK, AppInv
  <2>3. DiskInv'
    BY <1>2 DEF AppLabel, TypeOK, DiskInv, DiskServed, DiskMessage
  <2>4. QED BY <2>1, <2>2, <2>3
<1>3. CASE AppArgs
  <2>1. TypeOK' /\ NoFalseFailure'
    BY <1>3 DEF AppArgs, TypeOK, AppPC, FsPC, RdPC, NoFalseFailure
  <2>2. AppInv'
    BY <1>3 DEF AppArgs, TypeOK, AppInv
  <2>3. DiskInv'
    BY <1>3 DEF AppArgs, TypeOK, DiskInv, DiskServed, DiskMessage
  <2>4. QED BY <2>1, <2>2, <2>3
<1>4. CASE AppSend
  <2>1. TypeOK' /\ NoFalseFailure'
    BY <1>4 DEF AppSend, Raise, TypeOK, AppPC, FsPC, RdPC, NoFalseFailure
  <2>2. AppInv'
    BY <1>4 DEF AppSend, Raise, TypeOK, AppInv
  <2>3. DiskInv'
    BY <1>4 DEF AppSend, Raise, TypeOK, DiskInv, DiskServed, DiskMessage
  <2>4. QED BY <2>1, <2>2, <2>3
<1>5. CASE AppWake
  <2>1. TypeOK' /\ NoFalseFailure'
    BY <1>5 DEF AppWake, TypeOK, AppPC, FsPC, RdPC, NoFalseFailure
  <2>2. AppInv'
    BY <1>5 DEF AppWake, TypeOK, AppInv
  <2>3. DiskInv'
    BY <1>5 DEF AppWake, TypeOK, DiskInv, DiskServed, DiskMessage
  <2>4. QED BY <2>1, <2>2, <2>3
<1>6. CASE AppReturn
  <2>1. TypeOK' /\ NoFalseFailure'
    BY <1>6 DEF AppReturn, TypeOK, AppPC, FsPC, RdPC, NoFalseFailure
  <2>2. AppInv'
    BY <1>6 DEF AppReturn, TypeOK, AppInv
  <2>3. DiskInv'
    BY <1>6 DEF AppReturn, TypeOK, DiskInv, DiskServed, DiskMessage
  <2>4. QED BY <2>1, <2>2, <2>3
<1>7. CASE FsListen
  <2>1. TypeOK' /\ NoFalseFailure'
    BY <1>7 DEF FsListen, TypeOK, AppPC, FsPC, RdPC, NoFalseFailure
  <2>2. AppInv'
    BY <1>7 DEF FsListen, TypeOK, AppInv
  <2>3. DiskInv'
    BY <1>7 DEF FsListen, TypeOK, DiskInv, DiskServed
  <2>4. QED BY <2>1, <2>2, <2>3
<1>8. CASE FsRecv
  <2>1. TypeOK' /\ NoFalseFailure'
    BY <1>8 DEF FsRecv, FsReceives, TypeOK, AppPC, FsPC, RdPC, NoFalseFailure
  <2>2. AppInv'
    BY <1>8 DEF FsRecv, FsReceives, TypeOK, AppInv
  <2>3. DiskInv'
    BY <1>8 DEF FsRecv, FsReceives, TypeOK, DiskInv, DiskServed
  <2>4. QED BY <2>1, <2>2, <2>3
<1>9. CASE FsSort
  <2>1. TypeOK' /\ NoFalseFailure'
    BY <1>9 DEF FsSort, Raise, TypeOK, AppPC, FsPC, RdPC, NoFalseFailure
  <2>2. AppInv'
    BY <1>9 DEF FsSort, Raise, TypeOK, AppInv
  <2>3. DiskInv'
    BY <1>9 DEF FsSort, Raise, TypeOK, DiskInv, DiskServed
  <2>4. QED BY <2>1, <2>2, <2>3
<1>10. CASE FsAccept
  <2>0. MaxOps \in 0 .. MaxOps
    OBVIOUS
  <2>1. TypeOK' /\ NoFalseFailure'
    BY <1>10, <2>0 DEF FsAccept, TypeOK, AppPC, FsPC, RdPC, NoFalseFailure
  <2>2. AppInv'
    BY <1>10 DEF FsAccept, TypeOK, AppInv
  <2>3. DiskInv'
    BY <1>10 DEF FsAccept, TypeOK, DiskInv, DiskServed
  <2>4. QED BY <2>1, <2>2, <2>3
<1>11. CASE FsReplyLabel
  <2>1. TypeOK' /\ NoFalseFailure'
    BY <1>11 DEF FsReplyLabel, TypeOK, AppPC, FsPC, RdPC, NoFalseFailure
  <2>2. AppInv'
    BY <1>11 DEF FsReplyLabel, TypeOK, AppInv
  <2>3. DiskInv'
    BY <1>11 DEF FsReplyLabel, TypeOK, DiskInv, DiskServed
  <2>4. QED BY <2>1, <2>2, <2>3
<1>12. CASE FsReplyWord
  <2>1. TypeOK' /\ NoFalseFailure'
    BY <1>12 DEF FsReplyWord, TypeOK, AppPC, FsPC, RdPC, NoFalseFailure
  <2>2. AppInv'
    BY <1>12 DEF FsReplyWord, TypeOK, AppInv
  <2>3. DiskInv'
    BY <1>12 DEF FsReplyWord, TypeOK, DiskInv, DiskServed
  <2>4. QED BY <2>1, <2>2, <2>3
<1>13. CASE FsReplySend
  <2>1. TypeOK' /\ NoFalseFailure'
    BY <1>13 DEF FsReplySend, Raise, TypeOK, AppPC, FsPC, RdPC, NoFalseFailure
  <2>2. AppInv'
    BY <1>13 DEF FsReplySend, Raise, TypeOK, AppInv
  <2>3. DiskInv'
    BY <1>13 DEF FsReplySend, Raise, TypeOK, DiskInv, DiskServed
  <2>4. QED BY <2>1, <2>2, <2>3
<1>14. ASSUME NEW op \in DiskOp, DiskRw(op) PROVE UintrInv'
  <2>1. TypeOK' /\ NoFalseFailure'
    BY <1>14 DEF DiskRw, TypeOK, AppPC, FsPC, RdPC, NoFalseFailure
  <2>2. AppInv'
    BY <1>14 DEF DiskRw, TypeOK, AppInv
  <2>3. DiskInv'
    BY <1>14 DEF DiskRw, TypeOK, DiskInv, DiskServed
  <2>4. QED BY <2>1, <2>2, <2>3
<1>15. CASE DiskLabel
  <2>1. TypeOK' /\ NoFalseFailure'
    BY <1>15 DEF DiskLabel, TypeOK, AppPC, FsPC, RdPC, NoFalseFailure
  <2>2. AppInv'
    BY <1>15 DEF DiskLabel, TypeOK, AppInv
  <2>3. DiskInv'
    BY <1>15 DEF DiskLabel, TypeOK, DiskInv, DiskServed
  <2>4. QED BY <2>1, <2>2, <2>3
<1>16. CASE DiskArgs
  <2>1. TypeOK' /\ NoFalseFailure'
    BY <1>16 DEF DiskArgs, TypeOK, AppPC, FsPC, RdPC, NoFalseFailure, DiskInv,
       DiskServed
  <2>2. AppInv'
    BY <1>16 DEF DiskArgs, TypeOK, AppInv
  <2>3. DiskInv'
    BY <1>16 DEF DiskArgs, TypeOK, DiskInv, DiskServed
  <2>4. QED BY <2>1, <2>2, <2>3
<1>17. CASE DiskData
  <2>1. TypeOK' /\ NoFalseFailure'
    BY <1>17 DEF DiskData, TypeOK, AppPC, FsPC, RdPC, NoFalseFailure, DiskInv,
       DiskServed
  <2>2. AppInv'
    BY <1>17 DEF DiskData, TypeOK, AppInv
  <2>3. DiskInv'
    BY <1>17 DEF DiskData, TypeOK, DiskInv, DiskServed
  <2>4. QED BY <2>1, <2>2, <2>3
<1>18. CASE DiskSend
  <2>1. TypeOK' /\ NoFalseFailure'
    BY <1>18 DEF DiskSend, Raise, TypeOK, AppPC, FsPC, RdPC, NoFalseFailure
  <2>2. AppInv'
    BY <1>18 DEF DiskSend, Raise, TypeOK, AppInv
  <2>3. DiskInv'
    BY <1>18 DEF DiskSend, Raise, TypeOK, DiskInv, DiskServed, DiskMessage
  <2>4. QED BY <2>1, <2>2, <2>3
<1>19. CASE DiskRecv
  <2>1. TypeOK' /\ NoFalseFailure'
    BY <1>19 DEF DiskRecv, FsReceives, TypeOK, AppPC, FsPC, RdPC, NoFalseFailure
  <2>2. AppInv'
    BY <1>19 DEF DiskRecv, FsReceives, TypeOK, AppInv
  <2>3. DiskInv'
    BY <1>19 DEF DiskRecv, FsReceives, TypeOK, DiskInv, DiskServed, DiskMessage
  <2>4. QED BY <2>1, <2>2, <2>3
<1>20. CASE DiskSort
  <2>1. TypeOK' /\ NoFalseFailure'
    BY <1>20 DEF DiskSort, Raise, TypeOK, AppPC, FsPC, RdPC, NoFalseFailure
  <2>2. AppInv'
    BY <1>20 DEF DiskSort, Raise, TypeOK, AppInv
  <2>3. DiskInv'
    BY <1>20 DEF DiskSort, Raise, TypeOK, DiskInv, DiskServed, DiskMessage
  <2>4. QED BY <2>1, <2>2, <2>3
<1>21. CASE DiskReturn
  <2>1. TypeOK' /\ NoFalseFailure'
    BY <1>21 DEF DiskReturn, TypeOK, AppPC, FsPC, RdPC, NoFalseFailure, DiskInv,
       DiskServed
  <2>2. AppInv'
    BY <1>21 DEF DiskReturn, TypeOK, AppInv
  <2>3. DiskInv'
    BY <1>21 DEF DiskReturn, TypeOK, DiskInv, DiskServed
  <2>4. QED BY <2>1, <2>2, <2>3
<1>22. CASE RdWake
  <2>1. TypeOK' /\ NoFalseFailure'
    BY <1>22 DEF RdWake, TypeOK, AppPC, FsPC, RdPC, NoFalseFailure
  <2>2. AppInv'
    BY <1>22 DEF RdWake, TypeOK, AppInv
  <2>3. DiskInv'
    BY <1>22 DEF RdWake, TypeOK, DiskInv, DiskServed, DiskMessage
  <2>4. QED BY <2>1, <2>2, <2>3
<1>23. CASE RdRead
  <2>0. pc.fs \in {"srecv", "ssort"} /\ fop \in DiskOp /\ sbuf.word = fop.block
        /\ ~fop.write
    BY <1>23 DEF RdRead, TypeOK, DiskInv, DiskMessage
  <2>1. TypeOK' /\ NoFalseFailure'
    BY <1>23, <2>0 DEF RdRead, TypeOK, AppPC, FsPC, RdPC, NoFalseFailure
  <2>2. AppInv'
    BY <1>23, <2>0 DEF RdRead, TypeOK, AppInv
  <2>3. DiskInv'
    BY <1>23, <2>0 DEF RdRead, TypeOK, DiskInv, DiskServed
  <2>4. QED BY <2>1, <2>2, <2>3
<1>24. CASE RdWrite
  <2>0. pc.fs \in {"srecv", "ssort"} /\ fop \in DiskOp /\ sbuf.word = fop.block
        /\ fop.write /\ sbuf.data = fop.data
    BY <1>24 DEF RdWrite, TypeOK, DiskInv, DiskMessage
  <2>1. TypeOK' /\ NoFalseFailure'
    BY <1>24, <2>0 DEF RdWrite, TypeOK, AppPC, FsPC, RdPC, NoFalseFailure
  <2>2. AppInv'
    BY <1>24, <2>0 DEF RdWrite, TypeOK, AppInv
  <2>3. DiskInv'
    BY <1>24, <2>0 DEF RdWrite, TypeOK, DiskInv, DiskServed
  <2>4. QED BY <2>1, <2>2, <2>3
<1>25. CASE RdClear
  <2>1. TypeOK' /\ NoFalseFailure'
    BY <1>25 DEF RdClear, TypeOK, AppPC, FsPC, RdPC, NoFalseFailure
  <2>2. AppInv'
    BY <1>25 DEF RdClear, TypeOK, AppInv
  <2>3. DiskInv'
    BY <1>25 DEF RdClear, TypeOK, DiskInv, DiskServed
  <2>4. QED BY <2>1, <2>2, <2>3
<1>26. CASE RdStatus
  <2>1. TypeOK' /\ NoFalseFailure'
    BY <1>26 DEF RdStatus, TypeOK, AppPC, FsPC, RdPC, NoFalseFailure
  <2>2. AppInv'
    BY <1>26 DEF RdStatus, TypeOK, AppInv
  <2>3. DiskInv'
    BY <1>26 DEF RdStatus, TypeOK, DiskInv, DiskServed
  <2>4. QED BY <2>1, <2>2, <2>3
<1>27. CASE RdSend
  <2>1. TypeOK' /\ NoFalseFailure'
    BY <1>27 DEF RdSend, Raise, TypeOK, AppPC, FsPC, RdPC, NoFalseFailure
  <2>2. AppInv'
    BY <1>27 DEF RdSend, Raise, TypeOK, AppInv
  <2>3. DiskInv'
    BY <1>27 DEF RdSend, Raise, TypeOK, DiskInv, DiskServed
  <2>4. QED BY <2>1, <2>2, <2>3
<1>28. CASE UNCHANGED vars
  BY <1>28 DEF vars, TypeOK, AppInv, DiskInv, DiskMessage, DiskServed, NoFalseFailure
<1>29. QED
  BY <1>1, <1>2, <1>3, <1>4, <1>5, <1>6, <1>7, <1>8, <1>9, <1>10, <1>11, <1>12, <1>13,
     <1>14, <1>15, <1>16, <1>17, <1>18, <1>19, <1>20, <1>21, <1>22, <1>23, <1>24,
     <1>25, <1>26, <1>27, <1>28
     DEF Next, AppSteps, FsSteps, RdSteps

\* Pending bits, buffers and processes agree in every reachable state, however the
\* three processes interleave.
THEOREM UintrInvariant == Spec => []UintrInv
<1>1. QED BY UintrInit, UintrStep, PTL DEF Spec

\* No two processes are ever inside the same buffer, although there is no lock.
THEOREM NoBufferRace == Spec => []BuffersNotRaced
<1>1. UintrInv => BuffersNotRaced
  BY DEF UintrInv, AppInv, DiskInv, BuffersNotRaced
<1>2. QED BY <1>1, UintrInvariant, PTL

\* Every answer of the ramdisk is taken by the disk_rw that asked for it.
THEOREM AnswersTakenOnce == Spec => []AnswersMatched
<1>1. UintrInv => AnswersMatched
  BY DEF UintrInv, DiskInv, AnswersMatched, NoStrayAnswer
<1>2. QED BY <1>1, UintrInvariant, PTL

-----------------------------------------------------------------------------
(* The two links. *)

\* Every step is a step of the disk's remote call or leaves it alone.
LEMMA DiskLinkStep ==
    UintrInv /\ [Next]_vars => [DiskLink!Next]_(DiskLink!vars)
<1> SUFFICES ASSUME UintrInv, Next PROVE DiskLink!Next \/ UNCHANGED DiskLink!vars
  BY DEF vars, DiskLink!vars, DiskServed
<1> USE DiskOpFacts DEF UintrInv, Goto, appVars, fsVars
<1>1. ASSUME NEW op \in DiskOp, DiskRw(op) PROVE DiskLink!Ask(op)
  <2>1. fop = None /\ fop' = op /\ op # None /\ ~DiskServed'
    BY <1>1 DEF DiskRw, TypeOK, DiskInv, DiskServed
  <2>2. QED BY <1>1, <2>1 DEF DiskRw, DiskLink!Ask
<1>2. CASE RdRead
  <2>1. fop \in DiskOp /\ fop # None /\ ~fop.write /\ ~DiskServed
    BY <1>2 DEF RdRead, TypeOK, DiskInv, DiskMessage, DiskServed
  <2>2. DiskServed' /\ UNCHANGED <<fop, fgot, disk>>
    BY <1>2 DEF RdRead, TypeOK, DiskServed
  <2>3. DiskLink!Serve
    BY <2>1, <2>2 DEF DiskLink!Serve, DiskEffect
  <2>4. QED BY <2>3 DEF DiskLink!Next
<1>3. CASE RdWrite
  <2>1. fop \in DiskOp /\ fop # None /\ fop.write /\ ~DiskServed
        /\ sbuf.word = fop.block /\ sbuf.data = fop.data
    BY <1>3 DEF RdWrite, TypeOK, DiskInv, DiskMessage, DiskServed
  <2>2. DiskServed' /\ UNCHANGED <<fop, fgot>>
    BY <1>3 DEF RdWrite, TypeOK, DiskServed
  <2>3. disk' = DiskEffect(disk, fop)
    BY <1>3, <2>1 DEF RdWrite, DiskEffect
  <2>4. DiskLink!Serve
    BY <2>1, <2>2, <2>3 DEF DiskLink!Serve
  <2>5. QED BY <2>4 DEF DiskLink!Next
<1>4. CASE DiskReturn
  <2>1. fop # None /\ DiskServed /\ fop' = None /\ UNCHANGED disk
    BY <1>4 DEF DiskReturn, TypeOK, DiskInv, DiskServed
  <2>2. fgot' = DiskAnswer(disk, fop, fgot)
    BY <1>4, <2>1 DEF DiskReturn, DiskAnswer, DiskInv
  <2>3. DiskLink!Return
    BY <2>1, <2>2 DEF DiskLink!Return
  <2>4. QED BY <2>3 DEF DiskLink!Next
<1>5. ASSUME \/ \E r \in Req : AppCall(r)
             \/ AppLabel \/ AppArgs \/ AppWake \/ AppReturn
             \/ FsListen \/ FsRecv \/ FsSort \/ FsAccept \/ FsReplyLabel \/ FsReplyWord
             \/ FsReplySend \/ AppSend
      PROVE  UNCHANGED DiskLink!vars
  <2>1. UNCHANGED <<fop, fgot, disk>>
    BY <1>5 DEF AppCall, AppLabel, AppArgs, AppSend, AppWake, AppReturn, FsListen, FsRecv,
       FsSort, FsAccept, FsReplyLabel, FsReplyWord, FsReplySend
  <2>2. fop # None => UNCHANGED DiskServed
    BY <1>5 DEF AppCall, AppLabel, AppArgs, AppSend, Raise, AppWake, AppReturn, FsListen, FsRecv,
       FsSort, FsAccept, FsReplyLabel, FsReplyWord, FsReplySend, TypeOK, DiskInv, DiskServed
  <2>3. QED BY <2>1, <2>2 DEF DiskLink!vars
<1>6. ASSUME \/ DiskLabel \/ DiskArgs \/ DiskData \/ DiskSend \/ DiskRecv \/ DiskSort
             \/ RdWake \/ RdClear \/ RdStatus \/ RdSend
      PROVE  UNCHANGED DiskLink!vars
  <2>1. UNCHANGED <<fop, fgot, disk>>
    BY <1>6 DEF DiskLabel, DiskArgs, DiskData, DiskSend, DiskRecv, DiskSort, RdWake, RdClear,
       RdStatus, RdSend
  <2>2. UNCHANGED DiskServed
    <3>1. CASE DiskLabel \/ DiskArgs \/ DiskData
      BY <3>1 DEF DiskLabel, DiskArgs, DiskData, TypeOK, DiskServed
    <3>2. CASE DiskSend
      BY <3>2 DEF DiskSend, Raise, TypeOK, DiskServed
    <3>3. CASE DiskRecv
      BY <3>3 DEF DiskRecv, FsReceives, TypeOK, AppInv, DiskServed
    <3>4. CASE DiskSort
      BY <3>4 DEF DiskSort, Raise, TypeOK, DiskInv, DiskServed
    <3>5. CASE RdWake \/ RdClear \/ RdStatus \/ RdSend
      BY <3>5 DEF RdWake, RdClear, RdStatus, RdSend, Raise, TypeOK, DiskServed
    <3>6. QED BY <1>6, <3>1, <3>2, <3>3, <3>4, <3>5
  <2>3. QED BY <2>1, <2>2 DEF DiskLink!vars
<1>7. QED
  BY <1>1, <1>2, <1>3, <1>4, <1>5, <1>6
     DEF Next, AppSteps, FsSteps, RdSteps, DiskLink!Next

\* Over user interrupts the disk is a remote call as far as safety goes: carried
\* out once, with complete arguments, and answered with its own answer.
THEOREM DiskLinkSafe == Spec => DiskLink!Init /\ [][DiskLink!Next]_(DiskLink!vars)
<1>1. Init => DiskLink!Init
  BY DEF Init, DiskLink!Init
<1>2. QED BY <1>1, DiskLinkStep, UintrInvariant, PTL DEF Spec

\* Every step is a step of the application's remote call or leaves it alone.
LEMMA AppLinkStep ==
    UintrInv /\ [Next]_vars => [AppLink!Next]_(AppLink!vars)
<1> SUFFICES ASSUME UintrInv, Next PROVE AppLink!Next \/ UNCHANGED AppLink!vars
  BY DEF vars, AppLink!vars, Accepted
<1> USE DEF UintrInv, Goto, appVars, fsVars
<1>1. ASSUME NEW r \in Req, AppCall(r) PROVE AppLink!Ask(r)
  <2>1. areq = None /\ areq' = r /\ r # None /\ ~Accepted'
    BY <1>1 DEF AppCall, TypeOK, AppInv, Accepted
  <2>2. QED BY <1>1, <2>1 DEF AppCall, AppLink!Ask
<1>2. CASE FsAccept
  <2>1. areq # None /\ ~Accepted /\ cbuf.word = areq
    BY <1>2 DEF FsAccept, TypeOK, AppInv, Accepted
  <2>2. Accepted' /\ UNCHANGED <<areq, ares>>
    BY <1>2, <2>1 DEF FsAccept, Accepted
  <2>3. AppLink!Serve
    BY <2>1, <2>2 DEF AppLink!Serve, AppEffect
  <2>4. QED BY <2>3 DEF AppLink!Next
<1>3. CASE AppReturn
  <2>1. areq # None /\ Accepted /\ areq' = None /\ ares' = areq
    BY <1>3 DEF AppReturn, TypeOK, AppInv, Accepted
  <2>2. AppLink!Return
    BY <2>1 DEF AppLink!Return, AppAnswer
  <2>3. QED BY <2>2 DEF AppLink!Next
<1>4. CASE FsReplySend
  <2>1. Accepted /\ UNCHANGED <<areq, ares>>
    BY <1>4 DEF FsReplySend, AppInv, Accepted
  <2>2. Accepted'
    BY <1>4 DEF FsReplySend, Raise, TypeOK, Accepted
  <2>3. QED BY <2>1, <2>2 DEF AppLink!vars
<1>5. CASE AppWake
  <2>1. UNCHANGED <<areq, ares>> /\ Accepted /\ Accepted'
    BY <1>5 DEF AppWake, TypeOK, Accepted
  <2>2. QED BY <2>1 DEF AppLink!vars
<1>6. ASSUME \/ AppLabel \/ AppArgs \/ AppSend
             \/ FsListen \/ FsRecv \/ FsSort \/ FsReplyLabel \/ FsReplyWord
             \/ \E op \in DiskOp : DiskRw(op)
             \/ DiskLabel \/ DiskArgs \/ DiskData \/ DiskSend \/ DiskRecv \/ DiskSort
             \/ DiskReturn
             \/ RdWake \/ RdRead \/ RdWrite \/ RdClear \/ RdStatus \/ RdSend
      PROVE  UNCHANGED AppLink!vars
  <2>1. UNCHANGED <<areq, ares, freq, pending.app>>
    BY <1>6 DEF AppLabel, AppArgs, AppSend, Raise, FsListen, FsRecv, FsReceives, FsSort,
       FsReplyLabel, FsReplyWord, DiskRw, DiskLabel, DiskArgs, DiskData, DiskSend, DiskRecv,
       DiskSort, DiskReturn, RdWake, RdRead, RdWrite, RdClear, RdStatus, RdSend, TypeOK
  <2>2. UNCHANGED (pc.app = "look")
    BY <1>6 DEF AppLabel, AppArgs, AppSend, FsListen, FsRecv, FsSort, FsReplyLabel,
       FsReplyWord, DiskRw, DiskLabel, DiskArgs, DiskData, DiskSend, DiskRecv, DiskSort,
       DiskReturn, RdWake, RdRead, RdWrite, RdClear, RdStatus, RdSend, TypeOK
  <2>3. QED BY <2>1, <2>2 DEF AppLink!vars, Accepted
<1>7. QED
  BY <1>1, <1>2, <1>3, <1>4, <1>5, <1>6
     DEF Next, AppSteps, FsSteps, RdSteps, AppLink!Next

\* Over user interrupts the application's link is a remote call as far as safety
\* goes: a request is taken up once, however its bit is received and written back,
\* and gets the answer to that request.
THEOREM AppLinkSafe == Spec => AppLink!Init /\ [][AppLink!Next]_(AppLink!vars)
<1>1. Init => AppLink!Init
  BY DEF Init, AppLink!Init
<1>2. QED BY <1>1, AppLinkStep, UintrInvariant, PTL DEF Spec
===============================================================================
