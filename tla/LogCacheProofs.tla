--------------------------- MODULE LogCacheProofs ---------------------------
(***************************************************************************)
(* Proofs about the log cache and its driver (LogCache), for every value   *)
(* of MaxBlock and LogsPerBlock.                                           *)
(***************************************************************************)
EXTENDS LogCache, SequenceTheorems, FiniteSetTheorems, TLAPS

\* The processing store while block b is walked: its first n logs.
Walked(b, n) == [k \in 1..n |-> <<b, k>>]

(***************************************************************************)
(* The inductive invariant behind FinalStoreInChainOrder.  The order of    *)
(* the final store alone is not inductive: a commit appends the processing *)
(* store, so the proof needs to know what that store holds (the logs the   *)
(* driver has walked, when ShouldProcess accepted the block, else nothing) *)
(* and that everything already committed lies at or below                  *)
(* lastFinalizedBlock, which the walked block is above.                    *)
(***************************************************************************)
IInv ==
  /\ TypeOK
  /\ IdleEmpty:: procBlock = 0 => processingStore = <<>>
  /\ WalkAbove:: procBlock # 0 => procBlock >= lastFinalizedBlock
  /\ WalkStore:: procBlock # 0 =>
        processingStore = IF procBlock > lastFinalizedBlock
                            THEN Walked(procBlock, procIdx) ELSE <<>>
  /\ FinalBelow:: \A k \in DOMAIN finalStore :
                     finalStore[k][1] <= lastFinalizedBlock
  /\ FinalStoreInChainOrder

(***************************************************************************)
(* The contents of the final store, behind FinalStoreExactlyOnce.  Chain   *)
(* order already rules out a log committed twice; what remains is that the *)
(* final store holds exactly the logs of the blocks committed since the    *)
(* restart.  A commit of the last finalized block again (ShouldProcess     *)
(* filtered all its logs) adds nothing, so the proof needs that block to   *)
(* be among the committed ones.                                            *)
(***************************************************************************)
LastIsFinalized == lastFinalizedBlock # 0 => lastFinalizedBlock \in finalized

FinalContents ==
  {finalStore[k] : k \in DOMAIN finalStore} = {l \in LogIds : l[1] \in finalized}

CInv == LastIsFinalized /\ FinalContents

-----------------------------------------------------------------------------
(* Type correctness.                                                       *)

\* The walked prefix of a block is a sequence of logs.
LEMMA WalkedType ==
  ASSUME NEW b \in Blocks, NEW n \in 0..LogsPerBlock
  PROVE  Walked(b, n) \in Seq(LogIds)
  BY LogCacheAssumption, IsASeq DEF Walked, LogIds

\* A step keeps each variable in its type.
LEMMA TypeStep == TypeOK /\ [Next]_vars => TypeOK'
  <2> SUFFICES ASSUME TypeOK, [Next]_vars PROVE TypeOK'
    OBVIOUS
  <2>1. ASSUME NEW b \in Blocks, ProcessLogsBegin(b) PROVE TypeOK'
    BY <2>1, LogCacheAssumption DEF ProcessLogsBegin, TypeOK, Blocks
  <2>2. CASE ProcessLog
    <3>1. procIdx' \in 0..LogsPerBlock /\ UNCHANGED <<procBlock, finalized>>
      BY <2>2, LogCacheAssumption DEF ProcessLog, TypeOK
    <3>2. CASE ShouldProcess(procBlock)
      <4>1. <<procBlock, procIdx + 1>> \in LogIds
        BY <2>2, LogCacheAssumption DEF ProcessLog, TypeOK, LogIds, Blocks
      <4>2. Push(<<procBlock, procIdx + 1>>)
        BY <2>2, <3>2 DEF ProcessLog
      <4>3. processingStore' \in Seq(LogIds)
        BY <4>1, <4>2, AppendProperties DEF Push, TypeOK
      <4>4. QED
        BY <3>1, <4>2, <4>3 DEF Push, TypeOK
    <3>3. CASE ~ShouldProcess(procBlock)
      <4>1. UNCHANGED cacheVars
        BY <2>2, <3>3 DEF ProcessLog
      <4>2. QED
        BY <3>1, <4>1 DEF cacheVars, TypeOK
    <3>4. QED
      BY <3>2, <3>3
  <2>3. CASE ProcessLogFail
    BY <2>3, LogCacheAssumption DEF ProcessLogFail, Rollback, TypeOK
  <2>4. CASE ProcessLogsEnd
    BY <2>4, ConcatProperties, LogCacheAssumption
    DEF ProcessLogsEnd, SetLastFinalizedBlock, TypeOK, Blocks
  <2>5. CASE Restart
    BY <2>5, LogCacheAssumption DEF Restart, TypeOK
  <2>6. CASE UNCHANGED vars
    BY <2>6 DEF vars, TypeOK
  <2>7. QED
    BY <2>1, <2>2, <2>3, <2>4, <2>5, <2>6 DEF Next

\* Every step of the specification keeps each variable in its type.
THEOREM TypeCorrect == Spec => []TypeOK
<1>1. Init => TypeOK
  BY LogCacheAssumption DEF Init, TypeOK
<1>2. QED
  BY <1>1, TypeStep, PTL DEF Spec

-----------------------------------------------------------------------------
(* Lemmas on the walked prefix of a block.                                 *)

\* Nothing is walked yet.
LEMMA WalkedEmpty ==
  ASSUME NEW b
  PROVE  Walked(b, 0) = <<>>
  BY DEF Walked

\* Pushing the next log of the block extends the walked prefix by one.
LEMMA WalkedAppend ==
  ASSUME NEW b, NEW n \in Nat
  PROVE  Append(Walked(b, n), <<b, n + 1>>) = Walked(b, n + 1)
  BY DEF Walked

\* Committing the walked logs of a block above every committed log keeps
\* the final store in chain order and at or below the new block.
LEMMA CommitWalked ==
  ASSUME NEW f \in Seq(LogIds), NEW m \in Nat, NEW b \in Blocks,
         NEW n \in 0..LogsPerBlock,
         m < b,
         \A k \in DOMAIN f : f[k][1] <= m,
         \A i, j \in DOMAIN f : i < j => Before(f[i], f[j])
  PROVE  LET g == f \o Walked(b, n)
         IN  /\ \A k \in DOMAIN g : g[k][1] <= b
             /\ \A i, j \in DOMAIN g : i < j => Before(g[i], g[j])
<1> DEFINE w == Walked(b, n)
<1>1. w \in Seq(LogIds) /\ Len(w) = n /\ \A k \in 1..n : w[k] = <<b, k>>
  BY WalkedType, LogCacheAssumption DEF Walked
<1>2. /\ f \o w \in Seq(LogIds)
      /\ Len(f \o w) = Len(f) + n
      /\ \A k \in 1..(Len(f) + n) :
            (f \o w)[k] = IF k <= Len(f) THEN f[k] ELSE w[k - Len(f)]
  BY <1>1, ConcatProperties
<1>6. DOMAIN (f \o w) = 1..(Len(f) + n)
  BY <1>2, LenProperties
<1>3. DOMAIN f = 1..Len(f) /\ Len(f) \in Nat
  BY LenProperties
<1>4. \A k \in DOMAIN f : f[k] \in LogIds
  BY LenProperties
<1>7. ASSUME NEW k \in DOMAIN (f \o w)
      PROVE  (f \o w)[k] = IF k <= Len(f) THEN f[k] ELSE <<b, k - Len(f)>>
  <2>1. k \in 1..(Len(f) + n) /\ n \in Nat
    BY <1>6, LogCacheAssumption
  <2>2. CASE k <= Len(f)
    BY <2>1, <2>2, <1>2
  <2>3. CASE ~(k <= Len(f))
    <3>1. k - Len(f) \in 1..n
      BY <2>1, <2>3, <1>3
    <3>2. (f \o w)[k] = w[k - Len(f)]
      BY <2>1, <2>3, <1>2
    <3>3. QED
      BY <3>1, <3>2, <2>3, <1>1
  <2>4. QED
    BY <2>2, <2>3
<1>8. \A k \in DOMAIN (f \o w) : (f \o w)[k][1] <= b
  <2> SUFFICES ASSUME NEW k \in DOMAIN (f \o w) PROVE (f \o w)[k][1] <= b
    OBVIOUS
  <2>1. CASE k <= Len(f)
    <3>1. (f \o w)[k] = f[k] /\ k \in DOMAIN f
      BY <2>1, <1>3, <1>6, <1>7
    <3>2. QED
      BY <3>1, <1>4, LogCacheAssumption DEF Blocks, LogIds
  <2>2. CASE ~(k <= Len(f))
    <3>1. (f \o w)[k] = <<b, k - Len(f)>>
      BY <2>2, <1>7
    <3>2. QED
      BY <3>1, LogCacheAssumption DEF Blocks
  <2>3. QED
    BY <2>1, <2>2
<1>9. \A i, j \in DOMAIN (f \o w) : i < j => Before((f \o w)[i], (f \o w)[j])
  <2> SUFFICES ASSUME NEW i \in DOMAIN (f \o w), NEW j \in DOMAIN (f \o w), i < j
               PROVE  Before((f \o w)[i], (f \o w)[j])
    OBVIOUS
  <2>0. i \in Nat /\ j \in Nat
    BY <1>3, <1>6
  <2>1. CASE j <= Len(f)
    BY <2>1, <1>3, <1>6, <1>7
  <2>2. CASE i <= Len(f) /\ ~(j <= Len(f))
    <3>1. (f \o w)[i] = f[i] /\ i \in DOMAIN f
      BY <2>2, <1>3, <1>6, <1>7
    <3>2. (f \o w)[j] = <<b, j - Len(f)>>
      BY <2>2, <1>7
    <3>3. f[i][1] <= m /\ f[i] \in LogIds
      BY <3>1, <1>4
    <3>4. f[i][1] < b
      BY <3>3, LogCacheAssumption DEF LogIds, Blocks
    <3>5. QED
      BY <3>1, <3>2, <3>4 DEF Before
  <2>3. CASE ~(i <= Len(f))
    <3>0. ~(j <= Len(f))
      BY <2>0, <2>3, <1>3
    <3>1. (f \o w)[i] = <<b, i - Len(f)>> /\ (f \o w)[j] = <<b, j - Len(f)>>
      BY <2>3, <3>0, <1>7
    <3>2. i - Len(f) < j - Len(f)
      BY <2>0, <1>3
    <3>3. QED
      BY <3>1, <3>2 DEF Before
  <2>4. QED
    BY <2>1, <2>2, <2>3, <2>0, <1>3
<1>5. QED
  BY <1>8, <1>9

-----------------------------------------------------------------------------
(* The final store stays in chain order.                                   *)

LEMMA InitIInv == Init => IInv
  BY LogCacheAssumption DEF Init, IInv, TypeOK, FinalStoreInChainOrder

LEMMA NextIInv == InOrder /\ IInv /\ [Next]_vars => IInv'
<1> SUFFICES ASSUME InOrder, IInv, [Next]_vars PROVE IInv'
  OBVIOUS
<1>0. TypeOK'
  BY TypeStep DEF IInv
<1>1. ASSUME NEW b \in Blocks, ProcessLogsBegin(b) PROVE IInv'
  <2>1. b >= lastFinalizedBlock
    BY <1>1 DEF ProcessLogsBegin, Offered
  <2>2. processingStore = <<>>
    BY <1>1 DEF ProcessLogsBegin, IInv
  <2>3. QED
    BY <1>1, <1>0, <2>1, <2>2, WalkedEmpty, LogCacheAssumption
    DEF ProcessLogsBegin, IInv, FinalStoreInChainOrder, Blocks
<1>2. CASE ProcessLog
  <2>1. CASE ShouldProcess(procBlock)
    <3>1. processingStore' = Walked(procBlock, procIdx + 1)
      <4>1. procBlock # 0 /\ procIdx \in Nat /\ procBlock > lastFinalizedBlock
        BY <1>2, <2>1 DEF ProcessLog, IInv, TypeOK, ShouldProcess
      <4>2. processingStore = Walked(procBlock, procIdx)
        BY <4>1 DEF IInv
      <4>3. processingStore' = Append(processingStore, <<procBlock, procIdx + 1>>)
        BY <1>2, <2>1 DEF ProcessLog, Push
      <4>4. QED
        BY <4>1, <4>2, <4>3, WalkedAppend
    <3>2. QED
      BY <1>2, <1>0, <2>1, <3>1, LogCacheAssumption
      DEF ProcessLog, Push, IInv, FinalStoreInChainOrder, ShouldProcess
  <2>2. CASE ~ShouldProcess(procBlock)
    BY <1>2, <1>0, <2>2 DEF ProcessLog, cacheVars, IInv,
       FinalStoreInChainOrder, ShouldProcess
  <2>3. QED
    BY <2>1, <2>2
<1>3. CASE ProcessLogFail
  BY <1>3, <1>0 DEF ProcessLogFail, Rollback, IInv, FinalStoreInChainOrder
<1>4. CASE ProcessLogsEnd
  <2>1. /\ procBlock \in Blocks
        /\ procBlock >= lastFinalizedBlock
        /\ procIdx = LogsPerBlock
    BY <1>4 DEF ProcessLogsEnd, IInv, TypeOK, Blocks
  <2>2. CASE procBlock > lastFinalizedBlock
    <3>1. finalStore' = finalStore \o Walked(procBlock, LogsPerBlock)
      BY <1>4, <2>1, <2>2 DEF ProcessLogsEnd, SetLastFinalizedBlock, IInv
    <3>2. /\ \A k \in DOMAIN finalStore' : finalStore'[k][1] <= procBlock
          /\ FinalStoreInChainOrder'
      <4>1. /\ finalStore \in Seq(LogIds)
            /\ lastFinalizedBlock \in Nat
            /\ LogsPerBlock \in 0..LogsPerBlock
            /\ \A k \in DOMAIN finalStore : finalStore[k][1] <= lastFinalizedBlock
            /\ \A i, j \in DOMAIN finalStore :
                  i < j => Before(finalStore[i], finalStore[j])
        BY LogCacheAssumption DEF IInv, TypeOK, FinalStoreInChainOrder
      <4>2. QED
        BY <2>1, <2>2, <3>1, <4>1, CommitWalked DEF FinalStoreInChainOrder
    <3>3. QED
      BY <1>4, <1>0, <3>2 DEF ProcessLogsEnd, SetLastFinalizedBlock, IInv
  <2>3. CASE procBlock = lastFinalizedBlock
    <3>1. finalStore' = finalStore
      BY <1>4, <2>3, ConcatEmptySeq DEF ProcessLogsEnd, SetLastFinalizedBlock,
         IInv, TypeOK
    <3>2. QED
      BY <1>4, <1>0, <2>3, <3>1
      DEF ProcessLogsEnd, SetLastFinalizedBlock, IInv, FinalStoreInChainOrder
  <2>4. QED
    BY <2>1, <2>2, <2>3, LogCacheAssumption DEF IInv, TypeOK
<1>5. CASE Restart
  BY <1>5, <1>0 DEF Restart, IInv, FinalStoreInChainOrder
<1>6. CASE UNCHANGED vars
  BY <1>6, <1>0 DEF vars, IInv, FinalStoreInChainOrder, Walked
<1>7. QED
  BY <1>1, <1>2, <1>3, <1>4, <1>5, <1>6 DEF Next

\* When the engine never hands back a block below lastFinalizedBlock, the
\* final store of the cache lists every committed log once and in chain
\* order, across failed blocks (Rollback), repeated blocks (ShouldProcess)
\* and restarts.
THEOREM ChainOrder == InOrder => (Spec => []FinalStoreInChainOrder)
<1> SUFFICES ASSUME InOrder PROVE Spec => []FinalStoreInChainOrder
  OBVIOUS
<1>1. IInv /\ [Next]_vars => IInv'
  BY NextIInv
<1>2. IInv => FinalStoreInChainOrder
  BY DEF IInv
<1>3. QED
  BY InitIInv, <1>1, <1>2, PTL DEF Spec

-----------------------------------------------------------------------------
(* The cache implements the log history (LogHistory).                      *)

\* The walked logs of a completed block are all the logs of that block.
LEMMA WalkedAll ==
  ASSUME NEW b
  PROVE  Walked(b, LogsPerBlock) = History!BlockLogs(b)
  BY DEF Walked, History!BlockLogs

\* Every step of the cache and its driver is a step of the log history, or
\* leaves the final store and lastFinalizedBlock alone.
LEMMA NextRefines ==
  InOrder /\ IInv /\ [Next]_vars
    => [History!Next]_<<finalStore, lastFinalizedBlock>>
<1> SUFFICES ASSUME InOrder, IInv, [Next]_vars
             PROVE  [History!Next]_<<finalStore, lastFinalizedBlock>>
  OBVIOUS
<1>1. ASSUME NEW b \in Blocks, ProcessLogsBegin(b)
      PROVE  UNCHANGED <<finalStore, lastFinalizedBlock>>
  BY <1>1 DEF ProcessLogsBegin
<1>2. CASE ProcessLog
  BY <1>2 DEF ProcessLog, Push, cacheVars
<1>3. CASE ProcessLogFail
  BY <1>3 DEF ProcessLogFail, Rollback
<1>4. CASE ProcessLogsEnd
  <2>1. /\ procBlock \in Blocks
        /\ procBlock >= lastFinalizedBlock
        /\ procIdx = LogsPerBlock
        /\ lastFinalizedBlock' = procBlock
    BY <1>4 DEF ProcessLogsEnd, SetLastFinalizedBlock, IInv, TypeOK, Blocks
  <2>2. CASE procBlock > lastFinalizedBlock
    <3>1. finalStore' = finalStore \o History!BlockLogs(procBlock)
      BY <1>4, <2>1, <2>2, WalkedAll
      DEF ProcessLogsEnd, SetLastFinalizedBlock, IInv
    <3>2. History!Commit(procBlock)
      BY <2>1, <2>2, <3>1 DEF History!Commit
    <3>3. QED
      BY <2>1, <3>2 DEF History!Next, Blocks
  <2>3. CASE procBlock = lastFinalizedBlock
    <3>1. finalStore' = finalStore
      BY <1>4, <2>3, ConcatEmptySeq DEF ProcessLogsEnd, SetLastFinalizedBlock,
         IInv, TypeOK
    <3>2. QED
      BY <2>1, <2>3, <3>1
  <2>4. QED
    BY <2>1, <2>2, <2>3, LogCacheAssumption DEF IInv, TypeOK, Blocks
<1>5. CASE Restart
  BY <1>5 DEF Restart, History!Forget, History!Next
<1>6. CASE UNCHANGED vars
  BY <1>6 DEF vars
<1>7. QED
  BY <1>1, <1>2, <1>3, <1>4, <1>5, <1>6 DEF Next

\* When the engine never hands back a block below lastFinalizedBlock, the
\* cache (ShouldProcess, Push, SetLastFinalizedBlock, Rollback) driven block
\* by block implements the log history: the final store only ever grows by
\* all the logs of one new block, or is wiped by a restart.
THEOREM Refinement == InOrder => (Spec => HistorySpec)
<1> SUFFICES ASSUME InOrder PROVE Spec => HistorySpec
  OBVIOUS
<1>1. Init => History!Init
  BY DEF Init, History!Init
<1>2. Spec => []IInv
  BY InitIInv, NextIInv, PTL DEF Spec
<1>3. IInv /\ [Next]_vars => [History!Next]_<<finalStore, lastFinalizedBlock>>
  BY NextRefines
<1>4. QED
  BY <1>1, <1>2, <1>3, PTL DEF Spec, HistorySpec, History!Spec

-----------------------------------------------------------------------------
(* Exactly once.                                                           *)

\* The logs held by two sequences of logs put one after the other.
LEMMA RangeConcat ==
  ASSUME NEW f \in Seq(LogIds), NEW g \in Seq(LogIds)
  PROVE  {(f \o g)[k] : k \in DOMAIN (f \o g)}
           = {f[k] : k \in DOMAIN f} \cup {g[k] : k \in DOMAIN g}
<1>1. /\ Len(f \o g) = Len(f) + Len(g)
      /\ \A k \in 1..(Len(f) + Len(g)) :
            (f \o g)[k] = IF k <= Len(f) THEN f[k] ELSE g[k - Len(f)]
      /\ f \o g \in Seq(LogIds)
  BY ConcatProperties
<1>2. /\ DOMAIN (f \o g) = 1..(Len(f) + Len(g))
      /\ DOMAIN f = 1..Len(f) /\ DOMAIN g = 1..Len(g)
      /\ Len(f) \in Nat /\ Len(g) \in Nat
  BY <1>1, LenProperties
<1>3. ASSUME NEW k \in DOMAIN (f \o g)
      PROVE  (f \o g)[k] \in {f[i] : i \in DOMAIN f} \cup {g[i] : i \in DOMAIN g}
  <2>1. CASE k <= Len(f)
    BY <1>1, <1>2, <2>1
  <2>2. CASE k > Len(f)
    <3>1. k - Len(f) \in DOMAIN g /\ (f \o g)[k] = g[k - Len(f)]
      BY <1>1, <1>2, <2>2
    <3>2. QED
      BY <3>1
  <2>3. QED
    BY <1>2, <2>1, <2>2
<1>4. ASSUME NEW i \in DOMAIN f PROVE f[i] = (f \o g)[i] /\ i \in DOMAIN (f \o g)
  BY <1>1, <1>2
<1>5. ASSUME NEW i \in DOMAIN g
      PROVE  g[i] = (f \o g)[Len(f) + i] /\ Len(f) + i \in DOMAIN (f \o g)
  BY <1>1, <1>2
<1>6. {(f \o g)[k] : k \in DOMAIN (f \o g)}
        \subseteq {f[k] : k \in DOMAIN f} \cup {g[k] : k \in DOMAIN g}
  BY <1>3
<1>7. {f[k] : k \in DOMAIN f} \subseteq {(f \o g)[k] : k \in DOMAIN (f \o g)}
  BY <1>4
<1>8. {g[k] : k \in DOMAIN g} \subseteq {(f \o g)[k] : k \in DOMAIN (f \o g)}
  BY <1>5
<1>9. QED
  BY <1>6, <1>7, <1>8

\* The whole of a walked block is every log of that block.
LEMMA WalkedRange ==
  ASSUME NEW b \in Blocks
  PROVE  LET w == Walked(b, LogsPerBlock)
         IN  {w[k] : k \in DOMAIN w} = {l \in LogIds : l[1] = b}
<1> DEFINE w == Walked(b, LogsPerBlock)
<1>1. DOMAIN w = 1..LogsPerBlock /\ \A k \in 1..LogsPerBlock : w[k] = <<b, k>>
  BY DEF Walked
<1>2. ASSUME NEW l \in LogIds, l[1] = b PROVE \E k \in DOMAIN w : w[k] = l
  <2>1. l = <<b, l[2]>> /\ l[2] \in 1..LogsPerBlock
    BY <1>2 DEF LogIds
  <2>2. QED
    BY <1>1, <2>1
<1>3. QED
  BY <1>1, <1>2 DEF LogIds


LEMMA InitCInv == Init => CInv
  BY DEF Init, CInv, LastIsFinalized, FinalContents

\* The commit of ProcessLogsEnd: the final store gains every log of the
\* walked block, or nothing when that block was the last finalized one.
LEMMA EndCInv == IInv /\ CInv /\ ProcessLogsEnd => CInv'
<1> SUFFICES ASSUME IInv, CInv, ProcessLogsEnd PROVE CInv'
  OBVIOUS
<1>1. /\ procBlock \in Blocks /\ procIdx = LogsPerBlock
      /\ procBlock >= lastFinalizedBlock
      /\ lastFinalizedBlock' = procBlock
      /\ finalStore' = finalStore \o processingStore
      /\ finalized' = finalized \cup {procBlock}
      /\ finalStore \in Seq(LogIds) /\ finalized \in SUBSET Blocks
      /\ lastFinalizedBlock \in 0..MaxBlock /\ procBlock # 0
  BY DEF IInv, TypeOK, ProcessLogsEnd, SetLastFinalizedBlock, Blocks
<1>2. LastIsFinalized'
  BY <1>1 DEF LastIsFinalized, Blocks
<1>3. CASE procBlock > lastFinalizedBlock
  <2>1. processingStore = Walked(procBlock, LogsPerBlock)
    BY <1>1, <1>3 DEF IInv, Blocks
  <2>2. Walked(procBlock, LogsPerBlock) \in Seq(LogIds)
    BY <1>1, WalkedType, LogCacheAssumption
  <2>3. {finalStore'[k] : k \in DOMAIN finalStore'}
          = {finalStore[k] : k \in DOMAIN finalStore}
              \cup {l \in LogIds : l[1] = procBlock}
    <3> DEFINE w == Walked(procBlock, LogsPerBlock)
    <3>0. finalStore \in Seq(LogIds) /\ w \in Seq(LogIds)
      BY <1>1, <2>2
    <3>1. {(finalStore \o w)[k] : k \in DOMAIN (finalStore \o w)}
            = {finalStore[k] : k \in DOMAIN finalStore} \cup {w[k] : k \in DOMAIN w}
      BY <3>0, RangeConcat
    <3>2. {w[k] : k \in DOMAIN w} = {l \in LogIds : l[1] = procBlock}
      BY <1>1, WalkedRange
    <3>3. QED
      BY <1>1, <2>1, <3>1, <3>2
  <2>4. FinalContents'
    BY <1>1, <2>3 DEF CInv, FinalContents
  <2>5. QED
    BY <1>2, <2>4 DEF CInv
<1>4. CASE procBlock = lastFinalizedBlock
  <2>1. processingStore = <<>>
    BY <1>1, <1>4 DEF IInv, Blocks
  <2>2. finalStore' = finalStore
    BY <1>1, <2>1, ConcatEmptySeq
  <2>3. finalized' = finalized
    BY <1>1, <1>4 DEF CInv, LastIsFinalized, Blocks
  <2>4. QED
    BY <1>2, <2>2, <2>3 DEF CInv, FinalContents
<1>5. QED
  BY <1>1, <1>3, <1>4 DEF Blocks

LEMMA NextCInv == IInv /\ CInv /\ [Next]_vars => CInv'
<1> SUFFICES ASSUME IInv, CInv, [Next]_vars PROVE CInv'
  OBVIOUS
<1>1. ASSUME NEW b \in Blocks, ProcessLogsBegin(b) PROVE CInv'
  BY <1>1 DEF ProcessLogsBegin, CInv, LastIsFinalized, FinalContents
<1>2. CASE ProcessLog
  <2>1. UNCHANGED <<finalStore, lastFinalizedBlock, finalized>>
    BY <1>2 DEF ProcessLog, Push, cacheVars
  <2>2. QED
    BY <2>1 DEF CInv, LastIsFinalized, FinalContents
<1>3. CASE ProcessLogFail
  BY <1>3 DEF ProcessLogFail, Rollback, CInv, LastIsFinalized, FinalContents
<1>4. CASE ProcessLogsEnd
  BY <1>4, EndCInv
<1>5. CASE Restart
  BY <1>5 DEF Restart, CInv, LastIsFinalized, FinalContents
<1>6. CASE UNCHANGED vars
  BY <1>6 DEF vars, CInv, LastIsFinalized, FinalContents
<1>7. QED
  BY <1>1, <1>2, <1>3, <1>4, <1>5, <1>6 DEF Next

\* A log in strict chain order is at one index only, so counting the
\* indices of a log gives one if the log is there and zero if not.
LEMMA CountOnce == IInv /\ CInv => FinalStoreExactlyOnce
<1> SUFFICES ASSUME IInv, CInv, NEW l \in LogIds
             PROVE  Occurrences(l) = IF l[1] \in finalized THEN 1 ELSE 0
  BY DEF FinalStoreExactlyOnce
<1> DEFINE S == {k \in DOMAIN finalStore : finalStore[k] = l}
<1>1. finalStore \in Seq(LogIds) /\ DOMAIN finalStore \subseteq Nat
  BY LenProperties DEF IInv, TypeOK
<1>2. CASE l[1] \in finalized
  <2>1. PICK k \in DOMAIN finalStore : finalStore[k] = l
    BY <1>2 DEF CInv, FinalContents
  <2>2. ASSUME NEW j \in S PROVE j = k
    <3>1. ~Before(l, l)
      BY DEF Before, LogIds, Blocks
    <3>2. QED
      BY <1>1, <2>1, <3>1 DEF IInv, FinalStoreInChainOrder
  <2>3. S = {k}
    BY <2>1, <2>2
  <2>4. Cardinality(S) = 1
    BY <2>3, FS_Singleton
  <2>5. QED
    BY <1>2, <2>4 DEF Occurrences
<1>3. CASE l[1] \notin finalized
  <2>1. S = {}
    BY <1>3 DEF CInv, FinalContents
  <2>2. QED
    BY <1>3, <2>1, FS_EmptySet DEF Occurrences
<1>4. QED
  BY <1>2, <1>3

\* Exactly once: with blocks handed in chain order, for every number of
\* blocks and logs per block, the final store holds each log of every block
\* SetLastFinalizedBlock committed since the restart exactly once, and no
\* log of a block that was rolled back or is still being processed.
THEOREM ExactlyOnce == InOrder => (Spec => []FinalStoreExactlyOnce)
<1> SUFFICES ASSUME InOrder PROVE Spec => []FinalStoreExactlyOnce
  OBVIOUS
<1>1. IInv /\ CInv /\ [Next]_vars => (IInv /\ CInv)'
  BY NextIInv, NextCInv
<1>2. QED
  BY InitIInv, InitCInv, <1>1, CountOnce, PTL DEF Spec


=============================================================================
