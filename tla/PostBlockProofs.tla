--------------------------- MODULE PostBlockProofs ---------------------------
(***************************************************************************)
(* Proofs about post-block processing (PostBlock): the deferred forkchoice *)
(* update fires once for every PostBlockProcess call that returns.         *)
(***************************************************************************)
EXTENDS PostBlock, TLAPS

\* The counters are numbers, and the returns always balance the forkchoice
\* attempts and the abandoned fallbacks: not only between calls, as
\* ForkchoiceOncePerCall states, but in every state.
IInv ==
  /\ completed \in Nat /\ fcuAttempts \in Nat /\ lookupFails \in Nat
  /\ completed = fcuAttempts + lookupFails

LEMMA InitIInv == Init => IInv
  BY DEF Init, IInv

\* sendFCU makes one attempt or abandons once.
LEMMA SendFCUCounts ==
  ASSUME NEW head, fcuAttempts \in Nat, lookupFails \in Nat, SendFCU(head)
  PROVE  fcuAttempts' + lookupFails' = fcuAttempts + lookupFails + 1
         /\ fcuAttempts' \in Nat /\ lookupFails' \in Nat
  BY DEF SendFCU

LEMMA NextIInv == IInv /\ [Next]_vars => IInv'
<1> SUFFICES ASSUME IInv, [Next]_vars PROVE IInv'
  OBVIOUS
<1>1. ASSUME NEW b \in BlockShapes, PostBlockProcess(b) PROVE IInv'
  BY <1>1 DEF PostBlockProcess, IInv
<1>2. CASE ProcessLogs
  BY <1>2 DEF ProcessLogs, pbVars, IInv
<1>3. CASE ProcessLogsReturn
  BY <1>3 DEF ProcessLogsReturn, IInv
<1>4. CASE SendPostBlockFCU
  <2>1. fcuAttempts' + lookupFails' = fcuAttempts + lookupFails + 1
        /\ fcuAttempts' \in Nat /\ lookupFails' \in Nat
    <3>1. CASE SendFCU(stateLatest) \/ SendFCU(payload.hash) \/ SendFCU(ZeroHash)
      BY <3>1, SendFCUCounts DEF IInv
    <3>2. CASE lookupFails' = lookupFails + 1 /\ UNCHANGED <<fcus, fcuAttempts>>
      BY <3>2 DEF IInv
    <3>3. QED
      BY <1>4, <3>1, <3>2 DEF SendPostBlockFCU
  <2>2. completed' = completed + 1
    BY <1>4 DEF SendPostBlockFCU
  <2>3. completed \in Nat /\ completed = fcuAttempts + lookupFails
    BY DEF IInv
  <2>4. completed' = fcuAttempts' + lookupFails'
    BY <2>1, <2>2, <2>3
  <2>5. completed' \in Nat
    BY <2>2, <2>3
  <2>6. QED
    BY <2>1, <2>4, <2>5 DEF IInv
<1>5. CASE PanicRestart
  BY <1>5 DEF PanicRestart, IInv
<1>6. ASSUME NEW h \in Hashes, ApplyBlock(h) PROVE IInv'
  BY <1>6 DEF ApplyBlock, IInv
<1>7. CASE UNCHANGED vars
  BY <1>7 DEF vars, pbVars, IInv
<1>8. QED
  BY <1>1, <1>2, <1>3, <1>4, <1>5, <1>6, <1>7 DEF Next

\* Forkchoice always fires: for every bound on the calls and every set of
\* hashes, each PostBlockProcess return -- through the nil block, nil body
\* and nil payload exits, an InsertNode error, a log-processing error or
\* success -- has made exactly one sendFCU attempt, unless the state read
\* for the fallback head failed.
THEOREM ForkchoiceAlwaysFires == Spec => []ForkchoiceOncePerCall
<1>1. IInv => ForkchoiceOncePerCall
  BY DEF IInv, ForkchoiceOncePerCall
<1>2. QED
  BY InitIInv, NextIInv, <1>1, PTL DEF Spec

-----------------------------------------------------------------------------
(* The log cache inside post-block processing.                             *)

\* The proofs about the log cache and its driver, for the cache that
\* PostBlockProcess drives.
LCP == INSTANCE LogCacheProofs

\* LC and LCP are the same log cache: the instance PostBlock composes and
\* the one its proofs are about have the same initial states, steps and
\* properties.
LEMMA SameInit == LC!Init <=> LCP!Init
  BY DEF LC!Init, LCP!Init

LEMMA SameNext == LC!Next <=> LCP!Next
  BY DEF LC!Next, LCP!Next, LC!ProcessLogsBegin, LCP!ProcessLogsBegin,
         LC!Offered, LCP!Offered, LC!Blocks, LCP!Blocks,
         LC!ProcessLog, LCP!ProcessLog, LC!ShouldProcess, LCP!ShouldProcess,
         LC!Push, LCP!Push, LC!cacheVars, LCP!cacheVars,
         LC!ProcessLogFail, LCP!ProcessLogFail, LC!Rollback, LCP!Rollback,
         LC!ProcessLogsEnd, LCP!ProcessLogsEnd,
         LC!SetLastFinalizedBlock, LCP!SetLastFinalizedBlock,
         LC!Restart, LCP!Restart

LEMMA SameSpec == LC!Spec <=> LCP!Spec
  BY SameInit, SameNext, PTL DEF LC!Spec, LCP!Spec, LC!vars, LCP!vars

LEMMA SameHistoryInit == LC!History!Init <=> LCP!History!Init
  BY DEF LC!History!Init, LCP!History!Init

LEMMA SameHistoryNext == LC!History!Next <=> LCP!History!Next
  BY DEF LC!History!Next, LCP!History!Next, LC!History!Commit,
         LCP!History!Commit, LC!History!BlockLogs, LCP!History!BlockLogs,
         LC!History!Forget, LCP!History!Forget

LEMMA SameHistory == LC!HistorySpec <=> LCP!HistorySpec
  BY SameHistoryInit, SameHistoryNext, PTL
  DEF LC!HistorySpec, LCP!HistorySpec, LC!History!Spec, LCP!History!Spec

LEMMA SameSafety ==
  /\ LC!FinalStoreExactlyOnce <=> LCP!FinalStoreExactlyOnce
  /\ LC!FinalStoreInChainOrder <=> LCP!FinalStoreInChainOrder
  BY DEF LC!FinalStoreExactlyOnce, LCP!FinalStoreExactlyOnce,
         LC!Occurrences, LCP!Occurrences, LC!LogIds, LCP!LogIds,
         LC!Blocks, LCP!Blocks, LC!FinalStoreInChainOrder,
         LCP!FinalStoreInChainOrder, LC!Before, LCP!Before,
         LC!Cardinality, LCP!Cardinality

\* A block of BlockShapes with a payload carries one of Payloads.
LEMMA FullBlockPayload ==
  ASSUME NEW b \in BlockShapes, b.kind = "full"
  PROVE  b.payload \in Payloads
  BY DEF BlockShapes

\* Every step of post-block processing is a step of the log cache and its
\* driver, or leaves all of their state alone: PostBlockProcess starts the
\* driver on its payload's block, the driver's steps and its return are
\* the cache's own, the panic in the deferred call is a restart, and the
\* forkchoice update and block application touch no cache state.
LEMMA StepRefines == [Next]_vars => [LC!Next]_(LC!vars)
<1> SUFFICES ASSUME [Next]_vars PROVE [LC!Next]_(LC!vars)
  OBVIOUS
<1>1. ASSUME NEW b \in BlockShapes, PostBlockProcess(b)
      PROVE  [LC!Next]_(LC!vars)
  <2>1. CASE UNCHANGED logVars
    BY <2>1 DEF logVars, LC!vars
  <2>2. CASE b.kind = "full" /\ LC!ProcessLogsBegin(b.payload.number)
    <3>1. b.payload.number \in LC!Blocks
      BY <2>2, FullBlockPayload DEF Payloads
    <3>2. QED
      BY <2>2, <3>1 DEF LC!Next
  <2>3. QED
    BY <1>1, <2>1, <2>2 DEF PostBlockProcess
<1>2. CASE ProcessLogs
  BY <1>2 DEF ProcessLogs, LC!Next
<1>3. CASE ProcessLogsReturn
  BY <1>3 DEF ProcessLogsReturn, LC!Next
<1>4. CASE SendPostBlockFCU
  BY <1>4 DEF SendPostBlockFCU, logVars, LC!vars
<1>5. CASE PanicRestart
  BY <1>5 DEF PanicRestart, LC!Next
<1>6. ASSUME NEW h \in Hashes, ApplyBlock(h) PROVE [LC!Next]_(LC!vars)
  BY <1>6 DEF ApplyBlock, logVars, LC!vars
<1>7. CASE UNCHANGED vars
  BY <1>7 DEF vars, logVars, LC!vars
<1>8. QED
  BY <1>1, <1>2, <1>3, <1>4, <1>5, <1>6, <1>7 DEF Next

\* PostBlockProcess drives the log cache only through its operations: for
\* every bound and every set of hashes, post-block processing implements
\* the specification of the cache and its driver (LogCache).
THEOREM CacheRefined == Spec => LC!Spec
<1>1. Init => LC!Init
  BY DEF Init
<1>2. QED
  BY <1>1, StepRefines, PTL DEF Spec, LC!Spec

\* The log history holds inside post-block processing: with blocks handed
\* over in non-decreasing order, the final store and lastFinalizedBlock of
\* the cache PostBlockProcess drives move only as LogHistory allows,
\* whatever the deferred forkchoice update and its panic do around it.
THEOREM ComposedHistory == InOrder => (Spec => LogCacheHistory)
<1> SUFFICES ASSUME InOrder PROVE Spec => LogCacheHistory
  OBVIOUS
<1>1. LCP!Spec => LCP!HistorySpec
  BY LCP!Refinement, PostBlockAssumption DEF PostBlockAssumption
<1>2. LC!Spec => LC!HistorySpec
  BY <1>1, SameSpec, SameHistory
<1>3. QED
  BY <1>2, CacheRefined DEF LogCacheHistory

\* Exactly once and in chain order inside post-block processing: with
\* blocks in non-decreasing order, the final store of the cache that
\* PostBlockProcess drives holds each log of every committed block once, in
\* (block, index) order, and no log of a rolled-back block.
THEOREM ComposedLogSafety ==
  InOrder => (Spec => [](LC!FinalStoreExactlyOnce /\ LC!FinalStoreInChainOrder))
<1> SUFFICES ASSUME InOrder
             PROVE  Spec => [](LC!FinalStoreExactlyOnce /\ LC!FinalStoreInChainOrder)
  OBVIOUS
<1>1. LC!Spec => []LC!FinalStoreExactlyOnce
  BY LCP!ExactlyOnce, PostBlockAssumption, SameSpec, SameSafety, PTL
     DEF PostBlockAssumption
<1>2. LC!Spec => []LC!FinalStoreInChainOrder
  BY LCP!ChainOrder, PostBlockAssumption, SameSpec, SameSafety, PTL
     DEF PostBlockAssumption
<1>3. QED
  BY <1>1, <1>2, CacheRefined, PTL

=============================================================================
