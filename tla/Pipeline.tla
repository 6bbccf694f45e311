------------------------------ MODULE Pipeline ------------------------------
(***************************************************************************)
(* The block-processing pipeline of beacon/blockchain/process.go:          *)
(* ProcessBeaconBlock with its two waves of goroutines on one errgroup,    *)
(* ValidateExecutionPayloadOnBlk (nil checks, VerifyPayload of the payload *)
(* verifier, NotifyNewPayload to the execution engine) and ProcessSlot.    *)
(*                                                                         *)
(* The caller serialises the calls (one block at a time), so one call is   *)
(* in flight; inside it, the goroutines of a wave interleave.  The         *)
(* errgroup is modelled by its three fields that matter: the first error   *)
(* (errOnce), the cancellation of the group context (on the first error    *)
(* and at the end of every Wait), and the goroutines still running.        *)
(*                                                                         *)
(* The state-transition engine, the block validator and the availability  *)
(* store are external: their results are nondeterministic; a successful   *)
(* ProcessBlock makes the block's payload the state's latest payload.      *)
(***************************************************************************)
EXTENDS Naturals

CONSTANTS
  Hashes,                     \* execution block hashes
  Mixes,                      \* RANDAO mix values
  RandaoMixes,                \* the state's mixes: [0..EPHV-1 -> Mixes]
  SlotsPerEpoch,
  EpochsPerHistoricalVector,
  MaxWithdrawalsPerPayload,
  MaxSlot,                    \* bound on the state's slot
  MaxCalls                    \* bound on ProcessBeaconBlock calls

ASSUME PipelineAssumption ==
  /\ Hashes # {} /\ Mixes # {}
  /\ SlotsPerEpoch \in Nat \ {0}
  /\ EpochsPerHistoricalVector \in Nat \ {0}
  /\ RandaoMixes \in [0..(EpochsPerHistoricalVector - 1) -> Mixes]
  /\ MaxWithdrawalsPerPayload \in Nat
  /\ MaxSlot \in Nat /\ MaxCalls \in Nat

VARIABLES
  slot,          \* beacon state: slot
  stateHead,     \* beacon state: block hash of the latest execution payload
  blk,           \* the block of the call in flight
  phase,         \* "idle", "wave1" or "wave2": where ProcessBeaconBlock is
  pc,            \* per goroutine: "idle", "run", "notify" or "done"
  taskRes,       \* per goroutine: "none", "ok" or the error it returned
  groupErr,      \* errgroup: first error, "none" if none yet
  cancelled,     \* errgroup: the group context is cancelled
  result,        \* what the last ProcessBeaconBlock returned
  engineValid,   \* payload hashes the engine has reported valid
  npCalls,       \* number of NotifyNewPayload calls made
  calls          \* number of ProcessBeaconBlock calls made

vars == <<slot, stateHead, blk, phase, pc, taskRes, groupErr, cancelled,
          result, engineValid, npCalls, calls>>

Wave1 == {"payload", "block"}
Wave2 == {"blobs", "apply"}
Tasks == Wave1 \cup Wave2

Errors == {"ErrNilBlkBody", "ErrNilPayload", "ErrStateRead",
           "ErrUnfinalizedParent", "ErrRandaoMismatch",
           "ErrTooManyWithdrawals", "ErrEngine", "ErrInvalidPayload",
           "ErrInvalidBlock", "ErrBlobs", "ErrStateTransition"}

\* A block as the pipeline sees it: whether its body and payload are
\* present and, if so, the payload's fields.
Payloads == [parent : Hashes, hash : Hashes, prevRandao : Mixes,
             withdrawals : {MaxWithdrawalsPerPayload,
                            MaxWithdrawalsPerPayload + 1}]
BlockShapes ==
  [kind : {"nilBody", "nilPayload"}, payload : {CHOOSE p \in Payloads : TRUE}]
    \cup [kind : {"full"}, payload : Payloads]

TypeOK ==
  /\ slot \in 0..MaxSlot
  /\ stateHead \in Hashes
  /\ blk \in BlockShapes
  /\ phase \in {"idle", "wave1", "wave2"}
  /\ pc \in [Tasks -> {"idle", "run", "notify", "done"}]
  /\ taskRes \in [Tasks -> {"none", "ok"} \cup Errors]
  /\ groupErr \in {"none"} \cup Errors
  /\ cancelled \in BOOLEAN
  /\ result \in {"none", "ok"} \cup Errors
  /\ engineValid \in SUBSET Hashes
  /\ npCalls \in 0..MaxCalls
  /\ calls \in 0..MaxCalls

-----------------------------------------------------------------------------
(* VerifyPayload (payload verifier): the checks in order, first failure    *)
(* wins.  The expected RANDAO mix is the state's mix at                    *)
(* SlotToEpoch(slot) mod EpochsPerHistoricalVector.                        *)

ExpectedMix(s) ==
  RandaoMixes[(s \div SlotsPerEpoch) % EpochsPerHistoricalVector]

\* Faulty variant: the parent-linkage check forgotten.
VerifyPayloadNoParentCheck(st, p) ==
  IF p.prevRandao # ExpectedMix(st.slot) THEN "ErrRandaoMismatch"
  ELSE IF p.withdrawals > MaxWithdrawalsPerPayload
    THEN "ErrTooManyWithdrawals"
  ELSE "ok"

VerifyPayload(st, p) ==
  IF st.head # p.parent THEN "ErrUnfinalizedParent"
  ELSE IF p.prevRandao # ExpectedMix(st.slot) THEN "ErrRandaoMismatch"
  ELSE IF p.withdrawals > MaxWithdrawalsPerPayload
    THEN "ErrTooManyWithdrawals"
  ELSE "ok"

-----------------------------------------------------------------------------
(* The errgroup.                                                           *)

\* Goroutine t returns error e: the first error is kept, the group
\* context is cancelled.
TaskFails(t, e) ==
  /\ pc' = [pc EXCEPT ![t] = "done"]
  /\ taskRes' = [taskRes EXCEPT ![t] = e]
  /\ groupErr' = IF groupErr = "none" THEN e ELSE groupErr
  /\ cancelled' = TRUE

TaskSucceeds(t) ==
  /\ pc' = [pc EXCEPT ![t] = "done"]
  /\ taskRes' = [taskRes EXCEPT ![t] = "ok"]
  /\ UNCHANGED <<groupErr, cancelled>>

-----------------------------------------------------------------------------
(* The caller's operations.                                                *)

\* ProcessSlot: the state-transition engine advances the state's slot.
ProcessSlot ==
  /\ phase = "idle"
  /\ slot < MaxSlot
  /\ slot' = slot + 1
  /\ UNCHANGED <<stateHead, blk, phase, pc, taskRes, groupErr, cancelled,
                 result, engineValid, npCalls, calls>>

\* ProcessBeaconBlock starts: a fresh errgroup, the two validations of wave
\* one launched.
ProcessBeaconBlock(b) ==
  /\ phase = "idle"
  /\ calls < MaxCalls
  /\ blk' = b
  /\ phase' = "wave1"
  /\ pc' = [t \in Tasks |-> IF t \in Wave1 THEN "run" ELSE "idle"]
  /\ taskRes' = [t \in Tasks |-> "none"]
  /\ groupErr' = "none"
  /\ cancelled' = FALSE
  /\ calls' = calls + 1
  /\ UNCHANGED <<slot, stateHead, result, engineValid, npCalls>>

\* ValidateExecutionPayloadOnBlk up to the engine call: nil body, nil
\* payload, then VerifyPayload against the state (whose reads may fail).
ValidatePayloadChecks ==
  /\ pc["payload"] = "run"
  /\ LET p == blk.payload
         v == VerifyPayload([head |-> stateHead, slot |-> slot], p)
     IN  \/ /\ blk.kind = "nilBody"
            /\ TaskFails("payload", "ErrNilBlkBody")
         \/ /\ blk.kind = "nilPayload"
            /\ TaskFails("payload", "ErrNilPayload")
         \/ /\ blk.kind = "full"
            /\ TaskFails("payload", "ErrStateRead")
         \/ /\ blk.kind = "full"
            /\ v # "ok"
            /\ TaskFails("payload", v)
         \/ /\ blk.kind = "full"
            /\ v = "ok"
            /\ pc' = [pc EXCEPT !["payload"] = "notify"]
            /\ UNCHANGED <<taskRes, groupErr, cancelled>>
  /\ UNCHANGED <<slot, stateHead, blk, phase, result, engineValid, npCalls,
                 calls>>

\* NotifyNewPayload, on the caller's context (not the group's): an RPC
\* error, an invalid verdict or a valid one.
ValidatePayloadNotify ==
  /\ pc["payload"] = "notify"
  /\ npCalls' = npCalls + 1
  /\ \/ /\ TaskFails("payload", "ErrEngine")
        /\ UNCHANGED engineValid
     \/ /\ TaskFails("payload", "ErrInvalidPayload")
        /\ UNCHANGED engineValid
     \/ /\ TaskSucceeds("payload")
        /\ engineValid' = engineValid \cup {blk.payload.hash}
  /\ UNCHANGED <<slot, stateHead, blk, phase, result, calls>>

\* The block validator's ValidateBlock on the state.
ValidateBlock ==
  /\ pc["block"] = "run"
  /\ TaskSucceeds("block") \/ TaskFails("block", "ErrInvalidBlock")
  /\ UNCHANGED <<slot, stateHead, blk, phase, result, engineValid, npCalls,
                 calls>>

\* Faulty variant: the first Wait's error is not looked at.
WaitWave1IgnoresError ==
  /\ phase = "wave1"
  /\ \A t \in Wave1 : pc[t] = "done"
  /\ phase' = "wave2"
  /\ pc' = [t \in Tasks |-> IF t \in Wave2 THEN "run" ELSE pc[t]]
  /\ cancelled' = TRUE
  /\ UNCHANGED <<slot, stateHead, blk, taskRes, groupErr, result,
                 engineValid, npCalls, calls>>

\* The first Wait: on an error return it, else (the group context now
\* cancelled by Wait) launch wave two on the same group.
WaitWave1 ==
  /\ phase = "wave1"
  /\ \A t \in Wave1 : pc[t] = "done"
  /\ IF groupErr # "none"
       THEN /\ result' = groupErr
            /\ phase' = "idle"
            /\ UNCHANGED pc
       ELSE /\ phase' = "wave2"
            /\ pc' = [t \in Tasks |-> IF t \in Wave2 THEN "run" ELSE pc[t]]
            /\ UNCHANGED result
  /\ cancelled' = TRUE
  /\ UNCHANGED <<slot, stateHead, blk, taskRes, groupErr, engineValid,
                 npCalls, calls>>

\* ProcessBlobs into the availability store.
ProcessBlobs ==
  /\ pc["blobs"] = "run"
  /\ TaskSucceeds("blobs") \/ TaskFails("blobs", "ErrBlobs")
  /\ UNCHANGED <<slot, stateHead, blk, phase, result, engineValid, npCalls,
                 calls>>

\* ProcessBlock: the state transition applies the block; its payload
\* becomes the state's latest execution payload.
ProcessBlock ==
  /\ pc["apply"] = "run"
  /\ \/ /\ TaskSucceeds("apply")
        /\ stateHead' = blk.payload.hash
     \/ /\ TaskFails("apply", "ErrStateTransition")
        /\ UNCHANGED stateHead
  /\ UNCHANGED <<slot, blk, phase, result, engineValid, npCalls, calls>>

\* Faulty variant: the second Wait's error is dropped.
WaitWave2DropsError ==
  /\ phase = "wave2"
  /\ \A t \in Wave2 : pc[t] = "done"
  /\ result' = "ok"
  /\ phase' = "idle"
  /\ UNCHANGED <<slot, stateHead, blk, pc, taskRes, groupErr, cancelled,
                 engineValid, npCalls, calls>>

\* The second Wait: the group's first error, or nil.
WaitWave2 ==
  /\ phase = "wave2"
  /\ \A t \in Wave2 : pc[t] = "done"
  /\ result' = IF groupErr # "none" THEN groupErr ELSE "ok"
  /\ phase' = "idle"
  /\ UNCHANGED <<slot, stateHead, blk, pc, taskRes, groupErr, cancelled,
                 engineValid, npCalls, calls>>

Init ==
  /\ slot = 0
  /\ stateHead \in Hashes
  /\ blk = CHOOSE b \in BlockShapes : b.kind = "nilBody"
  /\ phase = "idle"
  /\ pc = [t \in Tasks |-> "idle"]
  /\ taskRes = [t \in Tasks |-> "none"]
  /\ groupErr = "none"
  /\ cancelled = FALSE
  /\ result = "none"
  /\ engineValid = {}
  /\ npCalls = 0
  /\ calls = 0

Next ==
  \/ ProcessSlot
  \/ \E b \in BlockShapes : ProcessBeaconBlock(b)
  \/ ValidatePayloadChecks
  \/ ValidatePayloadNotify
  \/ ValidateBlock
  \/ WaitWave1
  \/ ProcessBlobs
  \/ ProcessBlock
  \/ WaitWave2

Spec == Init /\ [][Next]_vars

-----------------------------------------------------------------------------
(* Properties.                                                             *)

\* Short-circuit: no goroutine of wave two (blob processing, block
\* application) is ever started unless both validations of wave one
\* returned nil -- across the interleavings of the two validations and the
\* errgroup's first-error bookkeeping.
WaveTwoOnlyAfterValidation ==
  \A t \in Wave2 : pc[t] # "idle" => \A u \in Wave1 : taskRes[u] = "ok"

\* ProcessBeaconBlock returns nil exactly when all four goroutines of both
\* waves returned nil; when it returns an error, that is the error of one
\* of its goroutines.
ResultReflectsTasks ==
  (phase = "idle" /\ result # "none") =>
    /\ result = "ok" <=> \A t \in Tasks : taskRes[t] = "ok"
    /\ result # "ok" => \E t \in Tasks : taskRes[t] = result

\* The state's latest execution payload only ever moves to a payload whose
\* parent is the previous latest payload (VerifyPayload's parent check in
\* wave one) and that the engine reported valid (NotifyNewPayload), even
\* though the two checks and the application run in different goroutines
\* of different waves.
AppliedPayloadExtendsHead ==
  [][stateHead' # stateHead =>
       /\ blk.payload.parent = stateHead
       /\ stateHead' \in engineValid]_vars

\* Once the group context is cancelled (a sibling validation failed), no
\* NotifyNewPayload is sent to the engine.  The spec: "If either fails,
\* cancel the sibling", so that consensus validation failures never reach
\* the engine.  ValidateExecutionPayloadOnBlk is given the caller's ctx,
\* not the group's.
NoNewPayloadAfterCancel ==
  [][npCalls' > npCalls => ~cancelled]_vars

=============================================================================
