------------------------------ MODULE LogCache ------------------------------
(***************************************************************************)
(* The execution-log cache of beacon/execution/logs/cache.go together with *)
(* the per-block log processor that drives it.                             *)
(*                                                                         *)
(* The cache keeps a processing store (the logs of the block being         *)
(* processed), a final store (the logs of blocks already committed) and   *)
(* lastFinalizedBlock.  Its four operations, ShouldProcess, Push,          *)
(* SetLastFinalizedBlock and Rollback, are operators below and are used    *)
(* only inside the driver's actions, as in the code.                       *)
(*                                                                         *)
(* The driver (ProcessLogsInETH1Block of the execution service) is not     *)
(* part of the sources: it is modelled from the spec.  For one execution   *)
(* block it walks the block's logs in order; a log that ShouldProcess      *)
(* accepts is unpacked and pushed; an unpack error rolls the cache back;   *)
(* after the last log the block is set as the last finalized block.        *)
(*                                                                         *)
(* A log is the pair <<block number, index in block>>: that is all the     *)
(* properties tell apart of a LogValueContainer.                           *)
(***************************************************************************)
EXTENDS Naturals, Sequences, FiniteSets

CONSTANTS
  MaxBlock,      \* highest execution block number offered to the driver
  LogsPerBlock,  \* number of logs in every execution block
  InOrder        \* TRUE: the engine never hands back a block below the
                 \* cache's lastFinalizedBlock (the chain only moves forward)

ASSUME LogCacheAssumption ==
  /\ MaxBlock \in Nat \ {0}
  /\ LogsPerBlock \in Nat \ {0}
  /\ InOrder \in BOOLEAN

VARIABLES
  finalStore,          \* Cache.finalStore
  processingStore,     \* Cache.processingStore
  lastFinalizedBlock,  \* Cache.lastFinalizedBlock
  procBlock,           \* block whose logs the driver is walking, 0 = idle
  procIdx,             \* number of that block's logs already handled
  finalized            \* history: blocks committed since the last restart

cacheVars == <<finalStore, processingStore, lastFinalizedBlock>>
vars == <<finalStore, processingStore, lastFinalizedBlock,
          procBlock, procIdx, finalized>>

Blocks == 1..MaxBlock
LogIds == Blocks \X (1..LogsPerBlock)

TypeOK ==
  /\ finalStore \in Seq(LogIds)
  /\ processingStore \in Seq(LogIds)
  /\ lastFinalizedBlock \in 0..MaxBlock
  /\ procBlock \in 0..MaxBlock
  /\ procIdx \in 0..LogsPerBlock
  /\ finalized \in SUBSET Blocks

-----------------------------------------------------------------------------
(* Faulty variants of the cache's operations, each a plausible slip in     *)
(* cache.go.  Substituted for the real operation, each must make one of    *)
(* the properties below fail: they show the properties can see the bug.    *)

\* Rollback that forgets to clear the processing store.
RollbackKeepsStore ==
  UNCHANGED <<finalStore, processingStore, lastFinalizedBlock>>

\* SetLastFinalizedBlock that puts the new logs in front of the old ones.
SetLastFinalizedBlockPrepends(blockNumber) ==
  /\ lastFinalizedBlock' = blockNumber
  /\ finalStore' = processingStore \o finalStore
  /\ processingStore' = <<>>

-----------------------------------------------------------------------------
(* The cache's operations (cache.go).                                      *)

\* Faulty variant: a log of the last finalized block itself is taken.
ShouldProcessAtOrAbove(logBlock) == logBlock >= lastFinalizedBlock

\* ShouldProcess: a log is taken only if its block is above the last
\* finalized block.
ShouldProcess(logBlock) == logBlock > lastFinalizedBlock

\* Push appends the container to the processing store, with no check.
Push(container) ==
  /\ processingStore' = Append(processingStore, container)
  /\ UNCHANGED <<finalStore, lastFinalizedBlock>>

\* SetLastFinalizedBlock overwrites the block number and moves the whole
\* processing store behind the final store.
SetLastFinalizedBlock(blockNumber) ==
  /\ lastFinalizedBlock' = blockNumber
  /\ finalStore' = finalStore \o processingStore
  /\ processingStore' = <<>>

\* Rollback drops the processing store and nothing else.
Rollback ==
  /\ processingStore' = <<>>
  /\ UNCHANGED <<finalStore, lastFinalizedBlock>>

-----------------------------------------------------------------------------
(* The driver: processing the logs of one execution block.                 *)

\* The blocks the engine may hand to the driver.
Offered == {b \in Blocks : InOrder => b >= lastFinalizedBlock}

ProcessLogsBegin(b) ==
  /\ procBlock = 0
  /\ b \in Offered
  /\ procBlock' = b
  /\ procIdx' = 0
  /\ UNCHANGED <<finalStore, processingStore, lastFinalizedBlock, finalized>>

\* Faulty variant: the walk runs one index past the block's last log.
ProcessLogPastEnd ==
  /\ procBlock # 0
  /\ procIdx <= LogsPerBlock
  /\ IF ShouldProcess(procBlock)
       THEN Push(<<procBlock, procIdx + 1>>)
       ELSE UNCHANGED cacheVars
  /\ procIdx' = procIdx + 1
  /\ UNCHANGED <<procBlock, finalized>>

\* The next log of the block: pushed if ShouldProcess accepts it.
ProcessLog ==
  /\ procBlock # 0
  /\ procIdx < LogsPerBlock
  /\ IF ShouldProcess(procBlock)
       THEN Push(<<procBlock, procIdx + 1>>)
       ELSE UNCHANGED cacheVars
  /\ procIdx' = procIdx + 1
  /\ UNCHANGED <<procBlock, finalized>>

\* Unpacking an accepted log fails: the cache is rolled back and the error
\* is returned.
ProcessLogFail ==
  /\ procBlock # 0
  /\ procIdx < LogsPerBlock
  /\ ShouldProcess(procBlock)
  /\ Rollback
  /\ procBlock' = 0
  /\ procIdx' = 0
  /\ UNCHANGED finalized

\* All logs handled: the block becomes the last finalized block.
ProcessLogsEnd ==
  /\ procBlock # 0
  /\ procIdx = LogsPerBlock
  /\ SetLastFinalizedBlock(procBlock)
  /\ finalized' = finalized \cup {procBlock}
  /\ procBlock' = 0
  /\ procIdx' = 0

\* The node restarts: the in-memory cache is back to its zero value.
Restart ==
  /\ finalStore' = <<>>
  /\ processingStore' = <<>>
  /\ lastFinalizedBlock' = 0
  /\ procBlock' = 0
  /\ procIdx' = 0
  /\ finalized' = {}

Init ==
  /\ finalStore = <<>>
  /\ processingStore = <<>>
  /\ lastFinalizedBlock = 0
  /\ procBlock = 0
  /\ procIdx = 0
  /\ finalized = {}

Next ==
  \/ \E b \in Blocks : ProcessLogsBegin(b)
  \/ ProcessLog
  \/ ProcessLogFail
  \/ ProcessLogsEnd
  \/ Restart

Spec == Init /\ [][Next]_vars

-----------------------------------------------------------------------------
(* Properties.                                                             *)

\* Log l comes before log m in chain order (block, then index in block).
Before(l, m) == l[1] < m[1] \/ (l[1] = m[1] /\ l[2] < m[2])

\* The final store lists logs strictly in chain order: no log is committed
\* twice and none is committed behind a later one, whatever mix of failed
\* blocks (Rollback), repeated blocks (ShouldProcess) and commits
\* (SetLastFinalizedBlock) led there.
FinalStoreInChainOrder ==
  \A i, j \in DOMAIN finalStore : i < j => Before(finalStore[i], finalStore[j])

\* Number of times log l appears in the final store.
Occurrences(l) == Cardinality({k \in DOMAIN finalStore : finalStore[k] = l})

\* Exactly once: since the last restart, every log of a block committed by
\* SetLastFinalizedBlock is in the final store exactly once, and no log of
\* a block that was only rolled back or is still being processed is.
FinalStoreExactlyOnce ==
  \A l \in LogIds : Occurrences(l) = IF l[1] \in finalized THEN 1 ELSE 0

\* The log history the cache promises (LogHistory), read off the cache:
\* the final store is the committed history and lastFinalizedBlock the last
\* committed block.
History == INSTANCE LogHistory
             WITH history <- finalStore, last <- lastFinalizedBlock

\* The cache with its driver implements the log history: every step leaves
\* the final store alone or appends exactly the logs of one new block above
\* the last finalized block, in block order, or is a restart.  Repeated
\* blocks filtered by ShouldProcess, partial blocks dropped by Rollback and
\* the commit of SetLastFinalizedBlock together must add up to that.
HistorySpec == History!Spec

\* lastFinalizedBlock never decreases (spec: "lastFinalizedBlock is
\* monotonic non-decreasing"); only a restart, which empties the whole
\* cache, brings it back to 0.  SetLastFinalizedBlock stores its argument
\* without comparing it to the current value.
LastFinalizedNeverDecreases ==
  [][\/ lastFinalizedBlock' >= lastFinalizedBlock
     \/ lastFinalizedBlock' = 0 /\ finalStore' = <<>>]_vars

=============================================================================
