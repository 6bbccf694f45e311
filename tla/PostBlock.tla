----------------------------- MODULE PostBlock ------------------------------
(***************************************************************************)
(* Post-block processing: PostBlockProcess of beacon/blockchain/process.go *)
(* with its deferred forkchoice update, sendPostBlockFCU and sendFCU       *)
(* (the forkchoice notifier), composed with the log cache and its driver   *)
(* (LogCache), which PostBlockProcess runs through ProcessLogsInETH1Block. *)
(*                                                                         *)
(* The local `payload` of PostBlockProcess is an interface value, and the  *)
(* deferred closure reads it at return time.  It is GoNil while never      *)
(* assigned, and TypedNil when it was assigned a body's absent payload (a  *)
(* nil pointer inside the interface, for which IsNil() is TRUE but         *)
(* `payload != nil` also is).                                              *)
(***************************************************************************)
EXTENDS Naturals, Sequences, FiniteSets

CONSTANTS
  MaxBlock, LogsPerBlock, InOrder,  \* as in LogCache
  Hashes,        \* execution block hashes
  ZeroHash,      \* the zero ExecutionHash, not the hash of any block
  GoNil,         \* the nil interface
  TypedNil,      \* an interface holding a nil payload pointer
  MaxCalls       \* bound on PostBlockProcess calls

ASSUME PostBlockAssumption ==
  /\ MaxBlock \in Nat \ {0}           \* as LogCache requires
  /\ LogsPerBlock \in Nat \ {0}
  /\ InOrder \in BOOLEAN
  /\ Hashes # {}
  /\ ZeroHash \notin Hashes
  /\ MaxCalls \in Nat

VARIABLES
  finalStore, processingStore, lastFinalizedBlock,  \* the log cache
  procBlock, procIdx, finalized,                    \* its driver
  pbPc,          \* PostBlockProcess: "idle", "logs" or "fcu" (deferred call)
  payload,       \* its local `payload`
  stateLatest,   \* beacon state: hash of the latest execution payload
  fcNodes,       \* forkchoice store: inserted payload block hashes
  fcus,          \* forkchoice updates sent: <<head, safe>> records
  calls,         \* PostBlockProcess calls made
  completed,     \* PostBlockProcess calls that returned
  fcuAttempts,   \* sendFCU calls made
  lookupFails    \* fallbacks abandoned on a state read error

LC == INSTANCE LogCache

logVars == <<finalStore, processingStore, lastFinalizedBlock,
             procBlock, procIdx, finalized>>
pbVars == <<pbPc, payload, stateLatest, fcNodes, fcus, calls, completed,
            fcuAttempts, lookupFails>>
vars == <<logVars, pbVars>>

Payloads == [hash : Hashes, number : LC!Blocks]
BlockShapes ==
  {[kind |-> k] : k \in {"nilBlock", "nilBody", "nilPayload"}}
    \cup [kind : {"full"}, payload : Payloads]

TypeOK ==
  /\ LC!TypeOK
  /\ pbPc \in {"idle", "logs", "fcu"}
  /\ payload \in {GoNil, TypedNil} \cup Payloads
  /\ stateLatest \in Hashes
  /\ fcNodes \in SUBSET Hashes
  /\ fcus \in Seq([head : Hashes \cup {ZeroHash}, safe : Hashes])
  /\ calls \in 0..MaxCalls
  /\ completed \in 0..MaxCalls
  /\ fcuAttempts \in 0..MaxCalls
  /\ lookupFails \in 0..MaxCalls

-----------------------------------------------------------------------------
(* PostBlockProcess up to its return.                                      *)

\* Faulty variant: the defer registered after the nil checks, so that the
\* early exits return without a forkchoice update.
PostBlockProcessLateDefer(b) ==
  /\ pbPc = "idle"
  /\ calls < MaxCalls
  /\ calls' = calls + 1
  /\ \/ /\ b.kind \in {"nilBlock", "nilBody", "nilPayload"}
        /\ pbPc' = "idle"
        /\ completed' = completed + 1
        /\ UNCHANGED <<payload, fcNodes, logVars>>
     \/ /\ b.kind = "full"
        /\ payload' = b.payload
        /\ pbPc' = "fcu"
        /\ UNCHANGED <<fcNodes, logVars, completed>>
     \/ /\ b.kind = "full"
        /\ payload' = b.payload
        /\ fcNodes' = fcNodes \cup {b.payload.hash}
        /\ LC!ProcessLogsBegin(b.payload.number)
        /\ pbPc' = "logs"
        /\ UNCHANGED completed
  /\ UNCHANGED <<stateLatest, fcus, fcuAttempts, lookupFails>>

\* The early exits (nil block, nil body, nil payload) return at once; a
\* payload is inserted into the forkchoice store (an error returns) and its
\* logs are processed.  Every return goes to the deferred call.
PostBlockProcess(b) ==
  /\ pbPc = "idle"
  /\ calls < MaxCalls
  /\ calls' = calls + 1
  /\ \/ /\ b.kind \in {"nilBlock", "nilBody"}
        /\ payload' = GoNil
        /\ pbPc' = "fcu"
        /\ UNCHANGED <<fcNodes, logVars>>
     \/ /\ b.kind = "nilPayload"
        /\ payload' = TypedNil
        /\ pbPc' = "fcu"
        /\ UNCHANGED <<fcNodes, logVars>>
     \/ /\ b.kind = "full"
        /\ payload' = b.payload
        /\ pbPc' = "fcu"
        /\ UNCHANGED <<fcNodes, logVars>>          \* InsertNode failed
     \/ /\ b.kind = "full"
        /\ payload' = b.payload
        /\ fcNodes' = fcNodes \cup {b.payload.hash}
        /\ LC!ProcessLogsBegin(b.payload.number)
        /\ pbPc' = "logs"
  /\ UNCHANGED <<stateLatest, fcus, completed, fcuAttempts, lookupFails>>

\* ProcessLogsInETH1Block: the driver's steps while PostBlockProcess waits.
ProcessLogs ==
  /\ pbPc = "logs"
  /\ LC!ProcessLog
  /\ UNCHANGED pbVars

\* The driver returns (its error, if any, is logged and returned).
ProcessLogsReturn ==
  /\ pbPc = "logs"
  /\ LC!ProcessLogFail \/ LC!ProcessLogsEnd
  /\ pbPc' = "fcu"
  /\ UNCHANGED <<payload, stateLatest, fcNodes, fcus, calls, completed,
                 fcuAttempts, lookupFails>>

-----------------------------------------------------------------------------
(* The deferred sendPostBlockFCU and sendFCU.                              *)

\* sendFCU: head as given, safe = finalized = the state's latest payload
\* (read again; a read error returns); the engine's error is only logged.
SendFCU(head) ==
  \/ /\ fcus' = Append(fcus, [head |-> head, safe |-> stateLatest])
     /\ fcuAttempts' = fcuAttempts + 1
     /\ UNCHANGED lookupFails
  \/ /\ UNCHANGED <<fcus, fcuAttempts>>              \* state read error
     /\ lookupFails' = lookupFails + 1

\* sendPostBlockFCU: head = the payload's block hash when `payload != nil`,
\* else the state's latest payload hash (a read error logs and returns).
\* On TypedNil, GetBlockHash runs on a nil receiver: a nil dereference
\* (the node panics and restarts), or the zero hash if the getter is
\* nil-safe.
SendPostBlockFCU ==
  /\ pbPc = "fcu"
  /\ \/ /\ payload = GoNil
        /\ \/ SendFCU(stateLatest)
           \/ /\ lookupFails' = lookupFails + 1
              /\ UNCHANGED <<fcus, fcuAttempts>>
        /\ UNCHANGED logVars
     \/ /\ payload \in Payloads
        /\ SendFCU(payload.hash)
        /\ UNCHANGED logVars
     \/ /\ payload = TypedNil
        /\ SendFCU(ZeroHash)
        /\ UNCHANGED logVars
  /\ completed' = completed + 1
  /\ pbPc' = "idle"
  /\ UNCHANGED <<payload, stateLatest, fcNodes, calls>>

\* The panic of a nil-receiver GetBlockHash: the node goes down and comes
\* back with an empty log cache; the call never returns.
PanicRestart ==
  /\ pbPc = "fcu"
  /\ payload = TypedNil
  /\ LC!Restart
  /\ pbPc' = "idle"
  /\ UNCHANGED <<payload, stateLatest, fcNodes, fcus, calls, completed,
                 fcuAttempts, lookupFails>>

\* The block pipeline applies a block between two calls: the state's
\* latest payload changes.
ApplyBlock(h) ==
  /\ pbPc = "idle"
  /\ stateLatest' = h
  /\ UNCHANGED <<logVars, pbPc, payload, fcNodes, fcus, calls, completed,
                 fcuAttempts, lookupFails>>

Init ==
  /\ LC!Init
  /\ pbPc = "idle"
  /\ payload = GoNil
  /\ stateLatest \in Hashes
  /\ fcNodes = {}
  /\ fcus = <<>>
  /\ calls = 0
  /\ completed = 0
  /\ fcuAttempts = 0
  /\ lookupFails = 0

Next ==
  \/ \E b \in BlockShapes : PostBlockProcess(b)
  \/ ProcessLogs
  \/ ProcessLogsReturn
  \/ SendPostBlockFCU
  \/ PanicRestart
  \/ \E h \in Hashes : ApplyBlock(h)

Spec == Init /\ [][Next]_vars

-----------------------------------------------------------------------------
(* Properties.                                                             *)

\* Forkchoice always fires: every PostBlockProcess call that returned,
\* whichever early exit or error it took (nil block, nil body, nil
\* payload, InsertNode error, log-processing error), made exactly one
\* forkchoice-update attempt, unless reading the state's latest payload
\* failed first.
ForkchoiceOncePerCall ==
  pbPc = "idle" => completed = fcuAttempts + lookupFails

\* Every forkchoice update names a real block as head: the payload's block
\* hash, or, for a block without payload, the state's latest payload (the
\* spec: a nil payload "causes it to fall back to the state's latest
\* execution payload").  The deferred closure tests `payload != nil` on the
\* interface, which a nil payload pointer passes.
FcuHeadIsRealBlock ==
  \A i \in 1..Len(fcus) : fcus[i].head \in Hashes

\* The log cache keeps its promise inside post-block processing: whatever
\* PostBlockProcess does around ProcessLogsInETH1Block (early exits, an
\* InsertNode error, a log error, the deferred forkchoice update, a panic
\* and restart in that deferred call), the final store and
\* lastFinalizedBlock move as the abstract log history (LogHistory) allows.
LogCacheHistory == LC!HistorySpec

=============================================================================
