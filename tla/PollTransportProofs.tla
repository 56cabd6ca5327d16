-------------------------- MODULE PollTransportProofs --------------------------
(***************************************************************************)
(* Proofs about PollTransport: its inductive invariant, the safety           *)
(* properties that follow from it, and that every step of both links is a   *)
(* step of a remote call, for every set of blocks, contents and requests and *)
(* every number of disk operations of a request.                            *)
(***************************************************************************)
EXTENDS PollTransport, TLAPS

USE PollAssumption

\* A disk operation has a block, and data when it is a write.
LEMMA DiskOpFacts ==
    ASSUME NEW op \in DiskOp
    PROVE  /\ op # None /\ op.block \in Block /\ op.write \in BOOLEAN
           /\ op.write => op.data \in Data
BY DEF DiskOp

\* The invariant holds when the processes start.
LEMMA PollInit == Init => PollInv
<1> SUFFICES ASSUME Init PROVE PollInv
  OBVIOUS
<1>1. TypeOK
  BY DEF Init, TypeOK, AppPC, FsPC, RdPC
<1>2. LockInv
  BY DEF Init, LockInv, AppAtClient, FsAtClient, FsAtServer, RdAtServer
<1>3. AppInv
  BY DEF Init, AppInv
<1>4. DiskInv
  BY DEF Init, DiskInv, FsAtServer
<1>5. NoFalseFailure
  BY DEF Init, NoFalseFailure
<1>6. QED BY <1>1, <1>2, <1>3, <1>4, <1>5 DEF PollInv

\* Every step of a process keeps it.
LEMMA PollStep == PollInv /\ [Next]_vars => PollInv'
<1> SUFFICES ASSUME PollInv, [Next]_vars PROVE PollInv'
  OBVIOUS
<1> USE DiskOpFacts DEF PollInv, Goto, appVars, fsVars
<1>1. ASSUME NEW r \in Req, AppCall(r) PROVE PollInv'
  <2>1. TypeOK' /\ NoFalseFailure'
    BY <1>1 DEF AppCall, TypeOK, AppPC, FsPC, RdPC, NoFalseFailure
  <2>2. LockInv'
    BY <1>1 DEF AppCall, TypeOK, LockInv, AppAtClient, FsAtClient, FsAtServer,
       RdAtServer
  <2>3. AppInv'
    BY <1>1 DEF AppCall, TypeOK, AppInv
  <2>4. DiskInv'
    BY <1>1 DEF AppCall, TypeOK, DiskInv, DiskLabelOf, DiskServed, FsAtServer
  <2>5. QED BY <2>1, <2>2, <2>3, <2>4
<1>2. CASE AppLock
  <2>1. TypeOK' /\ NoFalseFailure'
    BY <1>2 DEF AppLock, TypeOK, AppPC, FsPC, RdPC, NoFalseFailure
  <2>2. LockInv'
    BY <1>2 DEF AppLock, TypeOK, LockInv, AppAtClient, FsAtClient, FsAtServer,
       RdAtServer
  <2>3. AppInv'
    BY <1>2 DEF AppLock, TypeOK, AppInv
  <2>4. DiskInv'
    BY <1>2 DEF AppLock, TypeOK, DiskInv, DiskLabelOf, DiskServed, FsAtServer
  <2>5. QED BY <2>1, <2>2, <2>3, <2>4
<1>3. CASE AppLabel
  <2>1. TypeOK' /\ NoFalseFailure'
    BY <1>3 DEF AppLabel, TypeOK, AppPC, FsPC, RdPC, NoFalseFailure
  <2>2. LockInv'
    BY <1>3 DEF AppLabel, TypeOK, LockInv, AppAtClient, FsAtClient, FsAtServer,
       RdAtServer
  <2>3. AppInv'
    BY <1>3 DEF AppLabel, TypeOK, AppInv
  <2>4. DiskInv'
    BY <1>3 DEF AppLabel, TypeOK, DiskInv, DiskLabelOf, DiskServed, FsAtServer
  <2>5. QED BY <2>1, <2>2, <2>3, <2>4
<1>4. CASE AppArgs
  <2>1. TypeOK' /\ NoFalseFailure'
    BY <1>4 DEF AppArgs, TypeOK, AppPC, FsPC, RdPC, NoFalseFailure
  <2>2. LockInv'
    BY <1>4 DEF AppArgs, TypeOK, LockInv, AppAtClient, FsAtClient, FsAtServer,
       RdAtServer
  <2>3. AppInv'
    BY <1>4 DEF AppArgs, TypeOK, AppInv
  <2>4. DiskInv'
    BY <1>4 DEF AppArgs, TypeOK, DiskInv, DiskLabelOf, DiskServed, FsAtServer
  <2>5. QED BY <2>1, <2>2, <2>3, <2>4
<1>5. CASE AppUnlock
  <2>1. TypeOK' /\ NoFalseFailure'
    BY <1>5 DEF AppUnlock, TypeOK, AppPC, FsPC, RdPC, NoFalseFailure
  <2>2. LockInv'
    BY <1>5 DEF AppUnlock, TypeOK, LockInv, AppAtClient, FsAtClient, FsAtServer,
       RdAtServer
  <2>3. AppInv'
    BY <1>5 DEF AppUnlock, TypeOK, AppInv
  <2>4. DiskInv'
    BY <1>5 DEF AppUnlock, TypeOK, DiskInv, DiskLabelOf, DiskServed, FsAtServer
  <2>5. QED BY <2>1, <2>2, <2>3, <2>4
<1>6. CASE AppPoll
  <2>1. TypeOK' /\ NoFalseFailure'
    BY <1>6 DEF AppPoll, TypeOK, AppPC, FsPC, RdPC, NoFalseFailure
  <2>2. LockInv'
    BY <1>6 DEF AppPoll, TypeOK, LockInv, AppAtClient, FsAtClient, FsAtServer,
       RdAtServer
  <2>3. AppInv'
    BY <1>6 DEF AppPoll, TypeOK, AppInv, LockInv, AppAtClient, FsAtClient
  <2>4. DiskInv'
    BY <1>6 DEF AppPoll, TypeOK, DiskInv, DiskLabelOf, DiskServed, FsAtServer
  <2>5. QED BY <2>1, <2>2, <2>3, <2>4
<1>7. CASE AppRetry
  <2>1. TypeOK' /\ NoFalseFailure'
    BY <1>7 DEF AppRetry, TypeOK, AppPC, FsPC, RdPC, NoFalseFailure
  <2>2. LockInv'
    BY <1>7 DEF AppRetry, TypeOK, LockInv, AppAtClient, FsAtClient, FsAtServer,
       RdAtServer
  <2>3. AppInv'
    BY <1>7 DEF AppRetry, TypeOK, AppInv
  <2>4. DiskInv'
    BY <1>7 DEF AppRetry, TypeOK, DiskInv, DiskLabelOf, DiskServed, FsAtServer
  <2>5. QED BY <2>1, <2>2, <2>3, <2>4
<1>8. CASE AppReturn
  <2>1. TypeOK' /\ NoFalseFailure'
    BY <1>8 DEF AppReturn, TypeOK, AppPC, FsPC, RdPC, NoFalseFailure
  <2>2. LockInv'
    BY <1>8 DEF AppReturn, TypeOK, LockInv, AppAtClient, FsAtClient, FsAtServer,
       RdAtServer
  <2>3. AppInv'
    BY <1>8 DEF AppReturn, TypeOK, AppInv
  <2>4. DiskInv'
    BY <1>8 DEF AppReturn, TypeOK, DiskInv, DiskLabelOf, DiskServed, FsAtServer
  <2>5. QED BY <2>1, <2>2, <2>3, <2>4
<1>9. CASE FsListen
  <2>1. TypeOK' /\ NoFalseFailure'
    BY <1>9 DEF FsListen, TypeOK, AppPC, FsPC, RdPC, NoFalseFailure
  <2>2. LockInv'
    BY <1>9 DEF FsListen, TypeOK, LockInv, AppAtClient, FsAtClient, FsAtServer,
       RdAtServer
  <2>3. AppInv'
    BY <1>9 DEF FsListen, TypeOK, AppInv
  <2>4. DiskInv'
    BY <1>9 DEF FsListen, TypeOK, DiskInv, DiskLabelOf, DiskServed, FsAtServer
  <2>5. QED BY <2>1, <2>2, <2>3, <2>4
<1>10. CASE FsLock
  <2>1. TypeOK' /\ NoFalseFailure'
    BY <1>10 DEF FsLock, TypeOK, AppPC, FsPC, RdPC, NoFalseFailure
  <2>2. LockInv'
    BY <1>10 DEF FsLock, TypeOK, LockInv, AppAtClient, FsAtClient, FsAtServer,
       RdAtServer
  <2>3. AppInv'
    BY <1>10 DEF FsLock, TypeOK, AppInv
  <2>4. DiskInv'
    BY <1>10 DEF FsLock, TypeOK, DiskInv, DiskLabelOf, DiskServed, FsAtServer
  <2>5. QED BY <2>1, <2>2, <2>3, <2>4
<1>11. CASE FsNothing
  <2>1. TypeOK' /\ NoFalseFailure'
    BY <1>11 DEF FsNothing, TypeOK, AppPC, FsPC, RdPC, NoFalseFailure
  <2>2. LockInv'
    BY <1>11 DEF FsNothing, TypeOK, LockInv, AppAtClient, FsAtClient, FsAtServer,
       RdAtServer, AppInv
  <2>3. AppInv'
    BY <1>11 DEF FsNothing, TypeOK, AppInv
  <2>4. DiskInv'
    BY <1>11 DEF FsNothing, TypeOK, DiskInv, DiskLabelOf, DiskServed, FsAtServer
  <2>5. QED BY <2>1, <2>2, <2>3, <2>4
<1>12. CASE FsAccept
  <2>0. pc.app = "wait" /\ cbuf.word = areq /\ areq \in Req /\ freq = None /\ areq # None
        /\ cbuf.label = "call" /\ clk = "fs" /\ MaxOps \in 0 .. MaxOps
    BY <1>12 DEF FsAccept, TypeOK, AppPC, AppInv, LockInv, AppAtClient, FsAtClient
  <2>1. TypeOK' /\ NoFalseFailure'
    BY <1>12, <2>0 DEF FsAccept, TypeOK, AppPC, FsPC, RdPC, NoFalseFailure
  <2>2. LockInv'
    BY <1>12, <2>0 DEF FsAccept, TypeOK, LockInv, AppAtClient, FsAtClient, FsAtServer,
       RdAtServer
  <2>3. AppInv'
    BY <1>12, <2>0 DEF FsAccept, TypeOK, AppInv
  <2>4. DiskInv'
    BY <1>12, <2>0 DEF FsAccept, TypeOK, DiskInv, DiskLabelOf, DiskServed, FsAtServer
  <2>5. QED BY <2>1, <2>2, <2>3, <2>4
<1>13. CASE FsReplyLabel
  <2>1. TypeOK' /\ NoFalseFailure'
    BY <1>13 DEF FsReplyLabel, TypeOK, AppPC, FsPC, RdPC, NoFalseFailure
  <2>2. LockInv'
    BY <1>13 DEF FsReplyLabel, TypeOK, LockInv, AppAtClient, FsAtClient, FsAtServer,
       RdAtServer
  <2>3. AppInv'
    BY <1>13 DEF FsReplyLabel, TypeOK, AppInv
  <2>4. DiskInv'
    BY <1>13 DEF FsReplyLabel, TypeOK, DiskInv, DiskLabelOf, DiskServed, FsAtServer
  <2>5. QED BY <2>1, <2>2, <2>3, <2>4
<1>14. CASE FsReplyWord
  <2>1. TypeOK' /\ NoFalseFailure'
    BY <1>14 DEF FsReplyWord, TypeOK, AppPC, FsPC, RdPC, NoFalseFailure
  <2>2. LockInv'
    BY <1>14 DEF FsReplyWord, TypeOK, LockInv, AppAtClient, FsAtClient, FsAtServer,
       RdAtServer
  <2>3. AppInv'
    BY <1>14 DEF FsReplyWord, TypeOK, AppInv
  <2>4. DiskInv'
    BY <1>14 DEF FsReplyWord, TypeOK, DiskInv, DiskLabelOf, DiskServed, FsAtServer
  <2>5. QED BY <2>1, <2>2, <2>3, <2>4
<1>15. CASE FsUnlock
  <2>1. TypeOK' /\ NoFalseFailure'
    BY <1>15 DEF FsUnlock, TypeOK, AppPC, FsPC, RdPC, NoFalseFailure
  <2>2. LockInv'
    BY <1>15 DEF FsUnlock, TypeOK, LockInv, AppAtClient, FsAtClient, FsAtServer,
       RdAtServer
  <2>3. AppInv'
    BY <1>15 DEF FsUnlock, TypeOK, AppInv
  <2>4. DiskInv'
    BY <1>15 DEF FsUnlock, TypeOK, DiskInv, DiskLabelOf, DiskServed, FsAtServer
  <2>5. QED BY <2>1, <2>2, <2>3, <2>4
<1>16. ASSUME NEW op \in DiskOp, DiskRw(op) PROVE PollInv'
  <2>1. TypeOK' /\ NoFalseFailure'
    BY <1>16 DEF DiskRw, TypeOK, AppPC, FsPC, RdPC, NoFalseFailure
  <2>2. LockInv'
    BY <1>16 DEF DiskRw, TypeOK, LockInv, AppAtClient, FsAtClient, FsAtServer,
       RdAtServer
  <2>3. AppInv'
    BY <1>16 DEF DiskRw, TypeOK, AppInv
  <2>4. DiskInv'
    BY <1>16 DEF DiskRw, TypeOK, DiskInv, DiskLabelOf, DiskServed, FsAtServer
  <2>5. QED BY <2>1, <2>2, <2>3, <2>4
<1>17. CASE DiskLock
  <2>1. TypeOK' /\ NoFalseFailure'
    BY <1>17 DEF DiskLock, TypeOK, AppPC, FsPC, RdPC, NoFalseFailure
  <2>2. LockInv'
    BY <1>17 DEF DiskLock, TypeOK, LockInv, AppAtClient, FsAtClient, FsAtServer,
       RdAtServer
  <2>3. AppInv'
    BY <1>17 DEF DiskLock, TypeOK, AppInv
  <2>4. DiskInv'
    BY <1>17 DEF DiskLock, TypeOK, DiskInv, DiskLabelOf, DiskServed, FsAtServer
  <2>5. QED BY <2>1, <2>2, <2>3, <2>4
<1>18. CASE DiskLabel
  <2>1. TypeOK' /\ NoFalseFailure'
    BY <1>18 DEF DiskLabel, TypeOK, AppPC, FsPC, RdPC, NoFalseFailure
  <2>2. LockInv'
    BY <1>18 DEF DiskLabel, TypeOK, LockInv, AppAtClient, FsAtClient, FsAtServer,
       RdAtServer
  <2>3. AppInv'
    BY <1>18 DEF DiskLabel, TypeOK, AppInv
  <2>4. DiskInv'
    BY <1>18 DEF DiskLabel, TypeOK, DiskInv, DiskLabelOf, DiskServed, FsAtServer
  <2>5. QED BY <2>1, <2>2, <2>3, <2>4
<1>19. CASE DiskArgs
  <2>1. TypeOK' /\ NoFalseFailure'
    BY <1>19 DEF DiskArgs, TypeOK, AppPC, FsPC, RdPC, NoFalseFailure, DiskInv
  <2>2. LockInv'
    BY <1>19 DEF DiskArgs, TypeOK, LockInv, AppAtClient, FsAtClient, FsAtServer,
       RdAtServer
  <2>3. AppInv'
    BY <1>19 DEF DiskArgs, TypeOK, AppInv
  <2>4. DiskInv'
    BY <1>19 DEF DiskArgs, TypeOK, DiskInv, DiskLabelOf, DiskServed, FsAtServer
  <2>5. QED BY <2>1, <2>2, <2>3, <2>4
<1>20. CASE DiskData
  <2>1. TypeOK' /\ NoFalseFailure'
    BY <1>20 DEF DiskData, TypeOK, AppPC, FsPC, RdPC, NoFalseFailure, DiskInv
  <2>2. LockInv'
    BY <1>20 DEF DiskData, TypeOK, LockInv, AppAtClient, FsAtClient, FsAtServer,
       RdAtServer
  <2>3. AppInv'
    BY <1>20 DEF DiskData, TypeOK, AppInv
  <2>4. DiskInv'
    BY <1>20 DEF DiskData, TypeOK, DiskInv, DiskLabelOf, DiskServed, FsAtServer
  <2>5. QED BY <2>1, <2>2, <2>3, <2>4
<1>21. CASE DiskUnlock
  <2>1. TypeOK' /\ NoFalseFailure'
    BY <1>21 DEF DiskUnlock, TypeOK, AppPC, FsPC, RdPC, NoFalseFailure
  <2>2. LockInv'
    BY <1>21 DEF DiskUnlock, TypeOK, LockInv, AppAtClient, FsAtClient, FsAtServer,
       RdAtServer
  <2>3. AppInv'
    BY <1>21 DEF DiskUnlock, TypeOK, AppInv
  <2>4. DiskInv'
    BY <1>21 DEF DiskUnlock, TypeOK, DiskInv, DiskLabelOf, DiskServed, FsAtServer
  <2>5. QED BY <2>1, <2>2, <2>3, <2>4
<1>22. CASE DiskPoll
  <2>1. TypeOK' /\ NoFalseFailure'
    BY <1>22 DEF DiskPoll, TypeOK, AppPC, FsPC, RdPC, NoFalseFailure
  <2>2. LockInv'
    BY <1>22 DEF DiskPoll, TypeOK, LockInv, AppAtClient, FsAtClient, FsAtServer,
       RdAtServer
  <2>3. AppInv'
    BY <1>22 DEF DiskPoll, TypeOK, AppInv
  <2>4. DiskInv'
    BY <1>22 DEF DiskPoll, TypeOK, DiskInv, DiskLabelOf, DiskServed, FsAtServer,
       LockInv, RdAtServer
  <2>5. QED BY <2>1, <2>2, <2>3, <2>4
<1>23. CASE DiskRetry
  <2>1. TypeOK' /\ NoFalseFailure'
    BY <1>23 DEF DiskRetry, TypeOK, AppPC, FsPC, RdPC, NoFalseFailure
  <2>2. LockInv'
    BY <1>23 DEF DiskRetry, TypeOK, LockInv, AppAtClient, FsAtClient, FsAtServer,
       RdAtServer
  <2>3. AppInv'
    BY <1>23 DEF DiskRetry, TypeOK, AppInv
  <2>4. DiskInv'
    BY <1>23 DEF DiskRetry, TypeOK, DiskInv, DiskLabelOf, DiskServed, FsAtServer
  <2>5. QED BY <2>1, <2>2, <2>3, <2>4
<1>24. CASE DiskReturn
  <2>1. TypeOK' /\ NoFalseFailure'
    BY <1>24 DEF DiskReturn, TypeOK, AppPC, FsPC, RdPC, NoFalseFailure, DiskInv
  <2>2. LockInv'
    BY <1>24 DEF DiskReturn, TypeOK, LockInv, AppAtClient, FsAtClient, FsAtServer,
       RdAtServer
  <2>3. AppInv'
    BY <1>24 DEF DiskReturn, TypeOK, AppInv
  <2>4. DiskInv'
    BY <1>24 DEF DiskReturn, TypeOK, DiskInv, DiskLabelOf, DiskServed, FsAtServer
  <2>5. QED BY <2>1, <2>2, <2>3, <2>4
<1>25. CASE RdLock
  <2>1. TypeOK' /\ NoFalseFailure'
    BY <1>25 DEF RdLock, TypeOK, AppPC, FsPC, RdPC, NoFalseFailure
  <2>2. LockInv'
    BY <1>25 DEF RdLock, TypeOK, LockInv, AppAtClient, FsAtClient, FsAtServer,
       RdAtServer
  <2>3. AppInv'
    BY <1>25 DEF RdLock, TypeOK, AppInv
  <2>4. DiskInv'
    BY <1>25 DEF RdLock, TypeOK, DiskInv, DiskLabelOf, DiskServed, FsAtServer
  <2>5. QED BY <2>1, <2>2, <2>3, <2>4
<1>26. CASE RdNothing
  <2>1. TypeOK' /\ NoFalseFailure'
    BY <1>26 DEF RdNothing, TypeOK, AppPC, FsPC, RdPC, NoFalseFailure
  <2>2. LockInv'
    BY <1>26 DEF RdNothing, TypeOK, LockInv, AppAtClient, FsAtClient, FsAtServer,
       RdAtServer
  <2>3. AppInv'
    BY <1>26 DEF RdNothing, TypeOK, AppInv
  <2>4. DiskInv'
    BY <1>26 DEF RdNothing, TypeOK, DiskInv, DiskLabelOf, DiskServed, FsAtServer
  <2>5. QED BY <2>1, <2>2, <2>3, <2>4
<1>27. CASE RdRead
  <2>0. pc.fs = "swait" /\ fop \in DiskOp /\ sbuf.word = fop.block /\ slk = "rd"
        /\ ~fop.write
    BY <1>27 DEF RdRead, TypeOK, DiskInv, DiskLabelOf, LockInv, RdAtServer, FsAtServer
  <2>1. TypeOK' /\ NoFalseFailure'
    BY <1>27, <2>0 DEF RdRead, TypeOK, AppPC, FsPC, RdPC, NoFalseFailure
  <2>2. LockInv'
    BY <1>27, <2>0 DEF RdRead, TypeOK, LockInv, AppAtClient, FsAtClient, FsAtServer,
       RdAtServer
  <2>3. AppInv'
    BY <1>27, <2>0 DEF RdRead, TypeOK, AppInv
  <2>4. DiskInv'
    BY <1>27, <2>0 DEF RdRead, TypeOK, DiskInv, DiskLabelOf, DiskServed, FsAtServer
  <2>5. QED BY <2>1, <2>2, <2>3, <2>4
<1>28. CASE RdWrite
  <2>0. pc.fs = "swait" /\ fop \in DiskOp /\ sbuf.word = fop.block /\ slk = "rd"
        /\ fop.write /\ sbuf.data = fop.data
    BY <1>28 DEF RdWrite, TypeOK, DiskInv, DiskLabelOf, LockInv, RdAtServer, FsAtServer
  <2>1. TypeOK' /\ NoFalseFailure'
    BY <1>28, <2>0 DEF RdWrite, TypeOK, AppPC, FsPC, RdPC, NoFalseFailure
  <2>2. LockInv'
    BY <1>28, <2>0 DEF RdWrite, TypeOK, LockInv, AppAtClient, FsAtClient, FsAtServer,
       RdAtServer
  <2>3. AppInv'
    BY <1>28, <2>0 DEF RdWrite, TypeOK, AppInv
  <2>4. DiskInv'
    BY <1>28, <2>0 DEF RdWrite, TypeOK, DiskInv, DiskLabelOf, DiskServed, FsAtServer
  <2>5. QED BY <2>1, <2>2, <2>3, <2>4
<1>29. CASE RdClear
  <2>1. TypeOK' /\ NoFalseFailure'
    BY <1>29 DEF RdClear, TypeOK, AppPC, FsPC, RdPC, NoFalseFailure
  <2>2. LockInv'
    BY <1>29 DEF RdClear, TypeOK, LockInv, AppAtClient, FsAtClient, FsAtServer,
       RdAtServer
  <2>3. AppInv'
    BY <1>29 DEF RdClear, TypeOK, AppInv
  <2>4. DiskInv'
    BY <1>29 DEF RdClear, TypeOK, DiskInv, DiskLabelOf, DiskServed, FsAtServer
  <2>5. QED BY <2>1, <2>2, <2>3, <2>4
<1>30. CASE RdStatus
  <2>1. TypeOK' /\ NoFalseFailure'
    BY <1>30 DEF RdStatus, TypeOK, AppPC, FsPC, RdPC, NoFalseFailure
  <2>2. LockInv'
    BY <1>30 DEF RdStatus, TypeOK, LockInv, AppAtClient, FsAtClient, FsAtServer,
       RdAtServer
  <2>3. AppInv'
    BY <1>30 DEF RdStatus, TypeOK, AppInv
  <2>4. DiskInv'
    BY <1>30 DEF RdStatus, TypeOK, DiskInv, DiskLabelOf, DiskServed, FsAtServer
  <2>5. QED BY <2>1, <2>2, <2>3, <2>4
<1>31. CASE RdUnlock
  <2>1. TypeOK' /\ NoFalseFailure'
    BY <1>31 DEF RdUnlock, TypeOK, AppPC, FsPC, RdPC, NoFalseFailure
  <2>2. LockInv'
    BY <1>31 DEF RdUnlock, TypeOK, LockInv, AppAtClient, FsAtClient, FsAtServer,
       RdAtServer
  <2>3. AppInv'
    BY <1>31 DEF RdUnlock, TypeOK, AppInv
  <2>4. DiskInv'
    BY <1>31 DEF RdUnlock, TypeOK, DiskInv, DiskLabelOf, DiskServed, FsAtServer
  <2>5. QED BY <2>1, <2>2, <2>3, <2>4
<1>32. CASE UNCHANGED vars
  BY <1>32 DEF vars, TypeOK, LockInv, AppInv, DiskInv, NoFalseFailure, DiskServed,
     AppAtClient, FsAtClient, FsAtServer, RdAtServer
<1>33. QED
  BY <1>1, <1>2, <1>3, <1>4, <1>5, <1>6, <1>7, <1>8, <1>9, <1>10, <1>11, <1>12, <1>13,
     <1>14, <1>15, <1>16, <1>17, <1>18, <1>19, <1>20, <1>21, <1>22, <1>23, <1>24,
     <1>25, <1>26, <1>27, <1>28, <1>29, <1>30, <1>31, <1>32
     DEF Next, AppSteps, FsSteps, RdSteps

\* Locks, buffers and processes agree in every reachable state, however the three
\* processes interleave.
THEOREM PollInvariant == Spec => []PollInv
<1>1. QED BY PollInit, PollStep, PTL DEF Spec

\* No two processes are ever inside the same buffer, and the application stays
\* out of the client buffer while xv6fs handles its request.
THEOREM NoBufferRace == Spec => []BuffersNotRaced
<1>1. PollInv => BuffersNotRaced
  BY DEF PollInv, TypeOK, LockInv, BuffersNotRaced, AppAtClient, FsAtClient, FsAtServer,
     RdAtServer
<1>2. QED BY <1>1, PollInvariant, PTL

\* xv6fs never takes a block number for a failing status.
THEOREM StatusReadInTime == Spec => []NoFalseFailure
<1>1. PollInv => NoFalseFailure
  BY DEF PollInv
<1>2. QED BY <1>1, PollInvariant, PTL

-----------------------------------------------------------------------------
(* The two links. *)

\* Where a disk operation is, seen as a remote call.
DiskPhase == IF fop = None THEN "idle" ELSE IF DiskServed THEN "served" ELSE "asked"

\* Every step is a step of the disk's remote call or leaves it alone.
LEMMA DiskLinkStep ==
    PollInv /\ [Next]_vars => [DiskLink!Next]_(DiskLink!vars)
<1> SUFFICES ASSUME PollInv, Next PROVE DiskLink!Next \/ UNCHANGED DiskLink!vars
  BY DEF vars, DiskLink!vars, DiskServed
<1> USE DiskOpFacts DEF PollInv, Goto, appVars, fsVars
<1>1. ASSUME NEW op \in DiskOp, DiskRw(op) PROVE DiskLink!Ask(op)
  <2>1. fop = None /\ fop' = op /\ op # None /\ ~DiskServed'
    BY <1>1 DEF DiskRw, TypeOK, DiskInv, DiskServed, FsAtServer
  <2>2. QED BY <1>1, <2>1 DEF DiskRw, DiskLink!Ask
<1>2. CASE RdRead
  <2>1. pc.fs = "swait" /\ fop \in DiskOp /\ fop # None /\ ~fop.write /\ ~DiskServed
    BY <1>2 DEF RdRead, TypeOK, DiskInv, DiskLabelOf, DiskServed, LockInv, RdAtServer,
       FsAtServer
  <2>2. DiskServed' /\ UNCHANGED <<fop, fgot, disk>>
    BY <1>2 DEF RdRead, TypeOK, DiskServed
  <2>3. DiskLink!Serve
    BY <2>1, <2>2 DEF DiskLink!Serve, DiskEffect
  <2>4. QED BY <2>3 DEF DiskLink!Next
<1>3. CASE RdWrite
  <2>1. pc.fs = "swait" /\ fop \in DiskOp /\ fop # None /\ fop.write /\ ~DiskServed
        /\ sbuf.word = fop.block /\ sbuf.data = fop.data
    BY <1>3 DEF RdWrite, TypeOK, DiskInv, DiskLabelOf, DiskServed, LockInv, RdAtServer,
       FsAtServer
  <2>2. DiskServed' /\ UNCHANGED <<fop, fgot>>
    BY <1>3 DEF RdWrite, TypeOK, DiskServed
  <2>3. disk' = DiskEffect(disk, fop)
    BY <1>3, <2>1 DEF RdWrite, DiskEffect
  <2>4. DiskLink!Serve
    BY <2>1, <2>2, <2>3 DEF DiskLink!Serve
  <2>5. QED BY <2>4 DEF DiskLink!Next
<1>4. CASE DiskReturn
  <2>1. fop # None /\ DiskServed /\ fop' = None /\ UNCHANGED disk
    BY <1>4 DEF DiskReturn, TypeOK, DiskInv, DiskServed, FsAtServer
  <2>2. fgot' = DiskAnswer(disk, fop, fgot)
    BY <1>4, <2>1 DEF DiskReturn, DiskAnswer, DiskInv
  <2>3. DiskLink!Return
    BY <2>1, <2>2 DEF DiskLink!Return
  <2>4. QED BY <2>3 DEF DiskLink!Next
<1>5. ASSUME \/ \E r \in Req : AppCall(r)
             \/ AppLock \/ AppLabel \/ AppArgs \/ AppUnlock \/ AppPoll \/ AppRetry \/ AppReturn
      PROVE  UNCHANGED DiskLink!vars
  <2>1. UNCHANGED <<fop, fgot, disk, sbuf, pc.fs, pc.rd>>
    BY <1>5 DEF AppCall, AppLock, AppLabel, AppArgs, AppUnlock, AppPoll, AppRetry, AppReturn,
       TypeOK
  <2>2. QED BY <2>1 DEF DiskLink!vars, DiskServed
<1>6. ASSUME FsListen \/ FsLock \/ FsNothing \/ FsAccept \/ FsReplyLabel \/ FsReplyWord \/ FsUnlock
      PROVE  UNCHANGED DiskLink!vars
  <2>1. fop = None /\ UNCHANGED <<fop, fgot, disk>>
    BY <1>6 DEF FsListen, FsLock, FsNothing, FsAccept, FsReplyLabel, FsReplyWord, FsUnlock,
       DiskInv, FsAtServer
  <2>2. QED BY <2>1 DEF DiskLink!vars
<1>7. ASSUME \/ DiskLock \/ DiskLabel \/ DiskArgs \/ DiskData \/ DiskUnlock \/ DiskPoll \/ DiskRetry
             \/ RdLock \/ RdNothing \/ RdClear \/ RdStatus \/ RdUnlock
      PROVE  UNCHANGED DiskLink!vars
  <2>1. UNCHANGED <<fop, fgot, disk>>
    BY <1>7 DEF DiskLock, DiskLabel, DiskArgs, DiskData, DiskUnlock, DiskPoll, DiskRetry,
       RdLock, RdNothing, RdClear, RdStatus, RdUnlock
  <2>2. UNCHANGED DiskServed
    <3>1. CASE DiskLock \/ DiskLabel \/ DiskArgs \/ DiskData \/ DiskUnlock \/ DiskPoll \/ DiskRetry
      BY <3>1 DEF DiskLock, DiskLabel, DiskArgs, DiskData, DiskUnlock, DiskPoll, DiskRetry,
         TypeOK, DiskInv, DiskServed
    <3>2. CASE RdLock \/ RdNothing \/ RdClear \/ RdStatus \/ RdUnlock
      BY <3>2 DEF RdLock, RdNothing, RdClear, RdStatus, RdUnlock, TypeOK, DiskInv, DiskServed
    <3>3. QED BY <1>7, <3>1, <3>2
  <2>3. QED BY <2>1, <2>2 DEF DiskLink!vars
<1>8. QED
  BY <1>1, <1>2, <1>3, <1>4, <1>5, <1>6, <1>7
     DEF Next, AppSteps, FsSteps, RdSteps, DiskLink!Next

\* Over the polling transport the disk is a remote call as far as safety goes:
\* carried out once, with complete arguments, and answered with its own answer.
THEOREM DiskLinkSafe == Spec => DiskLink!Init /\ [][DiskLink!Next]_(DiskLink!vars)
<1>1. Init => DiskLink!Init
  BY DEF Init, DiskLink!Init
<1>2. QED BY <1>1, DiskLinkStep, PollInvariant, PTL DEF Spec

\* Every step is a step of the application's remote call or leaves it alone.
LEMMA AppLinkStep ==
    PollInv /\ [Next]_vars => [AppLink!Next]_(AppLink!vars)
<1> SUFFICES ASSUME PollInv, Next PROVE AppLink!Next \/ UNCHANGED AppLink!vars
  BY DEF vars, AppLink!vars, Accepted
<1> USE DEF PollInv, Goto, appVars, fsVars
<1>1. ASSUME NEW r \in Req, AppCall(r) PROVE AppLink!Ask(r)
  <2>1. areq = None /\ areq' = r /\ r # None /\ ~Accepted'
    BY <1>1 DEF AppCall, TypeOK, AppInv, Accepted
  <2>2. QED BY <1>1, <2>1 DEF AppCall, AppLink!Ask
<1>2. CASE FsAccept
  <2>1. areq # None /\ ~Accepted
    BY <1>2 DEF FsAccept, TypeOK, AppInv, LockInv, AppAtClient, FsAtClient, Accepted
  <2>2. pc.app = "wait" /\ cbuf.word = areq
    BY <1>2 DEF FsAccept, TypeOK, AppPC, AppInv, LockInv, AppAtClient, FsAtClient
  <2>3. Accepted' /\ UNCHANGED <<areq, ares>>
    BY <1>2, <2>1, <2>2 DEF FsAccept, Accepted
  <2>4. AppLink!Serve
    BY <2>1, <2>3 DEF AppLink!Serve, AppEffect
  <2>5. QED BY <2>4 DEF AppLink!Next
<1>3. CASE AppReturn
  <2>1. areq # None /\ Accepted /\ areq' = None /\ ares' = areq
    BY <1>3 DEF AppReturn, TypeOK, AppInv, Accepted
  <2>2. AppLink!Return
    BY <2>1 DEF AppLink!Return, AppAnswer
  <2>3. QED BY <2>2 DEF AppLink!Next
<1>4. ASSUME AppLock \/ AppLabel \/ AppArgs \/ AppUnlock \/ AppPoll \/ AppRetry
      PROVE  UNCHANGED <<areq, ares, Accepted>>
  BY <1>4 DEF AppLock, AppLabel, AppArgs, AppUnlock, AppPoll, AppRetry, TypeOK, AppInv, Accepted
<1>5. ASSUME FsListen \/ FsLock \/ FsNothing \/ FsReplyLabel \/ FsReplyWord \/ FsUnlock
      PROVE  UNCHANGED <<areq, ares, Accepted>>
  BY <1>5 DEF FsListen, FsLock, FsNothing, FsReplyLabel, FsReplyWord, FsUnlock, TypeOK, AppInv,
     Accepted
<1>6. ASSUME \/ \E op \in DiskOp : DiskRw(op)
             \/ DiskLock \/ DiskLabel \/ DiskArgs \/ DiskData \/ DiskUnlock
             \/ DiskPoll \/ DiskRetry \/ DiskReturn
             \/ RdLock \/ RdNothing \/ RdRead \/ RdWrite \/ RdClear \/ RdStatus \/ RdUnlock
      PROVE  UNCHANGED <<areq, ares, Accepted>>
  <2>1. UNCHANGED <<areq, ares, freq, cbuf, pc.app>>
    BY <1>6 DEF DiskRw, DiskLock, DiskLabel, DiskArgs, DiskData, DiskUnlock, DiskPoll,
       DiskRetry, DiskReturn, RdLock, RdNothing, RdRead, RdWrite, RdClear, RdStatus, RdUnlock,
       TypeOK
  <2>2. QED BY <2>1 DEF Accepted
<1>7. UNCHANGED <<areq, ares, Accepted>> => UNCHANGED AppLink!vars
  BY DEF AppLink!vars
<1>8. QED
  BY <1>1, <1>2, <1>3, <1>4, <1>5, <1>6, <1>7
     DEF Next, AppSteps, FsSteps, RdSteps, AppLink!Next

\* Over the polling transport the application's link is a remote call as far as
\* safety goes: a request is taken up once and gets the answer to that request.
THEOREM AppLinkSafe == Spec => AppLink!Init /\ [][AppLink!Next]_(AppLink!vars)
<1>1. Init => AppLink!Init
  BY DEF Init, AppLink!Init
<1>2. QED BY <1>1, AppLinkStep, PollInvariant, PTL DEF Spec
===============================================================================
