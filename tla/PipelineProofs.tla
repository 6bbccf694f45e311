--------------------------- MODULE PipelineProofs ----------------------------
(***************************************************************************)
(* Proofs about the block-processing pipeline (Pipeline), for every value  *)
(* of the constants: wave two of ProcessBeaconBlock only runs after both   *)
(* validations of wave one returned nil; its return value reflects its     *)
(* goroutines' results; the state's head only moves to a verified child.   *)
(***************************************************************************)
EXTENDS Pipeline, TLAPS

\* The control part of TypeOK: what the proof below needs of the types.
ControlTypeOK ==
  /\ phase \in {"idle", "wave1", "wave2"}
  /\ pc \in [Tasks -> {"idle", "run", "notify", "done"}]
  /\ taskRes \in [Tasks -> {"none", "ok"} \cup Errors]
  /\ groupErr \in {"none"} \cup Errors

(***************************************************************************)
(* The inductive invariant behind WaveTwoOnlyAfterValidation.  The first   *)
(* Wait only sees groupErr, so the proof must know that a goroutine is     *)
(* done exactly when it has a result, that no goroutine has failed while   *)
(* groupErr is unset, that a running goroutine belongs to the current      *)
(* wave, and that wave two is idle during wave one.                        *)
(***************************************************************************)
IInv ==
  /\ ControlTypeOK
  /\ DoneHasResult:: \A t \in Tasks : pc[t] = "done" <=> taskRes[t] # "none"
  /\ NoFailureYet:: groupErr = "none" => \A t \in Tasks : taskRes[t] \in {"none", "ok"}
  /\ Wave1Running:: \A u \in Wave1 : pc[u] \in {"run", "notify"} => phase = "wave1"
  /\ Wave2Running:: \A t \in Wave2 : pc[t] \in {"run", "notify"} => phase = "wave2"
  /\ Wave2IdleInWave1:: phase = "wave1" => \A t \in Wave2 : pc[t] = "idle"
  /\ Wave1DoneInWave2:: phase = "wave2" => \A u \in Wave1 : pc[u] = "done"
  /\ WaveTwoOnlyAfterValidation

(***************************************************************************)
(* The data invariant behind ResultReflectsTasks and                       *)
(* AppliedPayloadExtendsHead.  The Waits return groupErr, so the proof     *)
(* needs that a set groupErr is the error of one goroutine.  The state     *)
(* transition reads stateHead in wave two, long after VerifyPayload read   *)
(* it in wave one, so the proof needs that from the successful parent      *)
(* check until the state transition ends nothing moves stateHead, and     *)
(* that a payload goroutine that returned nil has put the payload's hash   *)
(* among the engine's valid ones.                                          *)
(***************************************************************************)
GroupErrFromTask ==
  groupErr # "none" => \E t \in Tasks : taskRes[t] = groupErr

ParentStillHead ==
  (\/ pc["payload"] = "notify"
   \/ taskRes["payload"] = "ok" /\ pc["apply"] # "done")
    => blk.payload.parent = stateHead

PayloadValid == taskRes["payload"] = "ok" => blk.payload.hash \in engineValid

DInv ==
  /\ GroupErrFromTask
  /\ ParentStillHead
  /\ PayloadValid
  /\ ResultReflectsTasks

\* VerifyPayload returns "ok" or one of the pipeline's errors.
LEMMA VerifyPayloadResult ==
  ASSUME NEW st, NEW p
  PROVE  VerifyPayload(st, p) \in {"ok"} \cup Errors
  BY DEF VerifyPayload, Errors

LEMMA InitIInv == Init => IInv
  BY DEF Init, IInv, ControlTypeOK, WaveTwoOnlyAfterValidation, Tasks,
     Wave1, Wave2, Errors

\* A goroutine of wave one ends (with result r, "ok" or an error): nothing
\* of wave two changes, and wave two is idle.
LEMMA Wave1TaskEnds ==
  ASSUME IInv, NEW t \in Wave1, pc[t] \in {"run", "notify"},
         NEW r \in {"ok"} \cup Errors,
         pc' = [pc EXCEPT ![t] = "done"],
         taskRes' = [taskRes EXCEPT ![t] = r],
         groupErr' = IF r = "ok" THEN groupErr
                     ELSE IF groupErr = "none" THEN r ELSE groupErr,
         UNCHANGED phase
  PROVE  IInv'
<1>1. phase = "wave1" /\ \A w \in Wave2 : pc[w] = "idle"
  BY DEF IInv
<1>2. ControlTypeOK'
  BY DEF IInv, ControlTypeOK, Tasks, Errors
<1>3. QED
  BY <1>1, <1>2 DEF IInv, ControlTypeOK, WaveTwoOnlyAfterValidation, Tasks,
     Wave1, Wave2, Errors

\* A goroutine of wave two ends: wave one's results are untouched.
LEMMA Wave2TaskEnds ==
  ASSUME IInv, NEW t \in Wave2, pc[t] = "run",
         NEW r \in {"ok"} \cup Errors,
         pc' = [pc EXCEPT ![t] = "done"],
         taskRes' = [taskRes EXCEPT ![t] = r],
         groupErr' = IF r = "ok" THEN groupErr
                     ELSE IF groupErr = "none" THEN r ELSE groupErr,
         UNCHANGED phase
  PROVE  IInv'
<1>1. phase = "wave2" /\ \A u \in Wave1 : pc[u] = "done" /\ taskRes[u] = "ok"
  BY DEF IInv, WaveTwoOnlyAfterValidation, Wave1, Wave2, Tasks
<1>2. ControlTypeOK'
  BY DEF IInv, ControlTypeOK, Tasks, Errors
<1>3. QED
  BY <1>1, <1>2 DEF IInv, ControlTypeOK, WaveTwoOnlyAfterValidation, Tasks,
     Wave1, Wave2, Errors

LEMMA NextIInv == IInv /\ [Next]_vars => IInv'
<1> SUFFICES ASSUME IInv, [Next]_vars PROVE IInv'
  OBVIOUS
<1>1. CASE ProcessSlot
  BY <1>1 DEF ProcessSlot, IInv, ControlTypeOK, WaveTwoOnlyAfterValidation
<1>2. ASSUME NEW b \in BlockShapes, ProcessBeaconBlock(b) PROVE IInv'
  BY <1>2 DEF ProcessBeaconBlock, IInv, ControlTypeOK,
     WaveTwoOnlyAfterValidation, Tasks, Wave1, Wave2, Errors
<1>3. CASE ValidatePayloadChecks
  <2> DEFINE v == VerifyPayload([head |-> stateHead, slot |-> slot],
                                blk.payload)
  <2>0. v \in {"ok"} \cup Errors /\ "payload" \in Wave1
    BY VerifyPayloadResult DEF Wave1
  <2>1. CASE blk.kind = "nilBody" /\ TaskFails("payload", "ErrNilBlkBody")
    BY <1>3, <2>1, <2>0, Wave1TaskEnds DEF ValidatePayloadChecks, TaskFails, Errors
  <2>2. CASE blk.kind = "nilPayload" /\ TaskFails("payload", "ErrNilPayload")
    BY <1>3, <2>2, <2>0, Wave1TaskEnds DEF ValidatePayloadChecks, TaskFails, Errors
  <2>3. CASE blk.kind = "full" /\ TaskFails("payload", "ErrStateRead")
    BY <1>3, <2>3, <2>0, Wave1TaskEnds DEF ValidatePayloadChecks, TaskFails, Errors
  <2>4. CASE blk.kind = "full" /\ v # "ok" /\ TaskFails("payload", v)
    BY <1>3, <2>4, <2>0, Wave1TaskEnds DEF ValidatePayloadChecks, TaskFails
  <2>5. CASE /\ blk.kind = "full" /\ v = "ok"
             /\ pc' = [pc EXCEPT !["payload"] = "notify"]
             /\ UNCHANGED <<taskRes, groupErr, cancelled>>
    BY <1>3, <2>5 DEF ValidatePayloadChecks, IInv, ControlTypeOK,
       WaveTwoOnlyAfterValidation, Tasks, Wave1, Wave2
  <2>6. QED
    BY <1>3, <2>1, <2>2, <2>3, <2>4, <2>5 DEF ValidatePayloadChecks
<1>4. CASE ValidatePayloadNotify
  <2>0. "payload" \in Wave1 /\ pc["payload"] = "notify" /\ UNCHANGED phase
    BY <1>4 DEF ValidatePayloadNotify, Wave1
  <2>1. CASE TaskFails("payload", "ErrEngine")
    BY <2>0, <2>1, Wave1TaskEnds DEF TaskFails, Errors
  <2>2. CASE TaskFails("payload", "ErrInvalidPayload")
    BY <2>0, <2>2, Wave1TaskEnds DEF TaskFails, Errors
  <2>3. CASE TaskSucceeds("payload")
    BY <2>0, <2>3, Wave1TaskEnds DEF TaskSucceeds
  <2>4. QED
    BY <1>4, <2>1, <2>2, <2>3 DEF ValidatePayloadNotify
<1>5. CASE ValidateBlock
  <2>0. "block" \in Wave1 /\ pc["block"] = "run" /\ UNCHANGED phase
    BY <1>5 DEF ValidateBlock, Wave1
  <2>1. CASE TaskSucceeds("block")
    BY <2>0, <2>1, Wave1TaskEnds DEF TaskSucceeds
  <2>2. CASE TaskFails("block", "ErrInvalidBlock")
    BY <2>0, <2>2, Wave1TaskEnds DEF TaskFails, Errors
  <2>3. QED
    BY <1>5, <2>1, <2>2 DEF ValidateBlock
<1>6. CASE WaitWave1
  <2>1. CASE groupErr # "none"
    BY <1>6, <2>1 DEF WaitWave1, IInv, ControlTypeOK,
       WaveTwoOnlyAfterValidation, Tasks, Wave1, Wave2
  <2>2. CASE groupErr = "none"
    <3>1. \A u \in Wave1 : taskRes[u] = "ok"
      BY <1>6, <2>2 DEF WaitWave1, IInv, Tasks, Wave1
    <3>2. QED
      BY <1>6, <2>2, <3>1 DEF WaitWave1, IInv, ControlTypeOK,
         WaveTwoOnlyAfterValidation, Tasks, Wave1, Wave2
  <2>3. QED
    BY <2>1, <2>2
<1>7. CASE ProcessBlobs
  <2>0. "blobs" \in Wave2 /\ pc["blobs"] = "run" /\ UNCHANGED phase
    BY <1>7 DEF ProcessBlobs, Wave2
  <2>1. CASE TaskSucceeds("blobs")
    BY <2>0, <2>1, Wave2TaskEnds DEF TaskSucceeds
  <2>2. CASE TaskFails("blobs", "ErrBlobs")
    BY <2>0, <2>2, Wave2TaskEnds DEF TaskFails, Errors
  <2>3. QED
    BY <1>7, <2>1, <2>2 DEF ProcessBlobs
<1>8. CASE ProcessBlock
  <2>0. "apply" \in Wave2 /\ pc["apply"] = "run" /\ UNCHANGED phase
    BY <1>8 DEF ProcessBlock, Wave2
  <2>1. CASE TaskSucceeds("apply")
    BY <2>0, <2>1, Wave2TaskEnds DEF TaskSucceeds
  <2>2. CASE TaskFails("apply", "ErrStateTransition")
    BY <2>0, <2>2, Wave2TaskEnds DEF TaskFails, Errors
  <2>3. QED
    BY <1>8, <2>1, <2>2 DEF ProcessBlock
<1>9. CASE WaitWave2
  BY <1>9 DEF WaitWave2, IInv, ControlTypeOK, WaveTwoOnlyAfterValidation,
     Tasks, Wave1, Wave2
<1>10. CASE UNCHANGED vars
  BY <1>10 DEF vars, IInv, ControlTypeOK, WaveTwoOnlyAfterValidation
<1>11. QED
  BY <1>1, <1>2, <1>3, <1>4, <1>5, <1>6, <1>7, <1>8, <1>9, <1>10 DEF Next

-----------------------------------------------------------------------------
(* The data invariant.                                                     *)

\* A passed VerifyPayload saw the payload's parent as the state's head.
LEMMA VerifyPayloadOk ==
  ASSUME NEW st, NEW p, VerifyPayload(st, p) = "ok"
  PROVE  st.head = p.parent
  BY DEF VerifyPayload

\* A goroutine returns r while it runs in the current wave: the engine's
\* valid set only grows (by the payload's hash if the payload goroutine
\* returned nil after NotifyNewPayload), and only the state transition
\* moves the head.
LEMMA TaskEndsDInv ==
  ASSUME IInv, DInv, NEW t \in Tasks, pc[t] \in {"run", "notify"},
         NEW r \in {"ok"} \cup Errors,
         pc' = [pc EXCEPT ![t] = "done"],
         taskRes' = [taskRes EXCEPT ![t] = r],
         groupErr' = IF r = "ok" THEN groupErr
                     ELSE IF groupErr = "none" THEN r ELSE groupErr,
         UNCHANGED <<phase, result, blk>>,
         engineValid \subseteq engineValid',
         t = "payload" /\ r = "ok" =>
           pc[t] = "notify" /\ blk.payload.hash \in engineValid',
         stateHead' # stateHead => t = "apply"
  PROVE  DInv'
<1>1. taskRes[t] = "none" /\ phase # "idle"
  BY DEF IInv, ControlTypeOK, Tasks, Wave1, Wave2
<1>2. GroupErrFromTask'
  <2>1. CASE groupErr = "none" /\ r # "ok"
    BY <2>1 DEF IInv, ControlTypeOK, GroupErrFromTask
  <2>2. CASE groupErr # "none"
    <3>1. PICK u \in Tasks : taskRes[u] = groupErr
      BY <2>2 DEF DInv, GroupErrFromTask
    <3>2. u # t
      BY <1>1, <2>2, <3>1
    <3>3. QED
      BY <2>2, <3>1, <3>2 DEF IInv, ControlTypeOK, GroupErrFromTask
  <2>3. CASE groupErr = "none" /\ r = "ok"
    BY <2>3 DEF GroupErrFromTask
  <2>4. QED
    BY <2>1, <2>2, <2>3
<1>3. ParentStillHead'
  <2>1. CASE t = "apply"
    <3>1. phase = "wave2"
      BY <2>1 DEF IInv, Wave2
    <3>2. pc'["payload"] = "done" /\ pc'["apply"] = "done"
      BY <2>1, <3>1 DEF IInv, ControlTypeOK, Tasks, Wave1
    <3>3. QED
      BY <3>2 DEF ParentStillHead
  <2>2. CASE t # "apply"
    <3>1. UNCHANGED stateHead /\ pc'["apply"] = pc["apply"]
      BY <2>2 DEF IInv, ControlTypeOK, Tasks
    <3>2. CASE t = "payload"
      BY <3>1, <3>2 DEF DInv, ParentStillHead, IInv, ControlTypeOK, Tasks
    <3>3. CASE t # "payload"
      BY <3>1, <3>3 DEF DInv, ParentStillHead, IInv, ControlTypeOK, Tasks
    <3>4. QED
      BY <3>2, <3>3
  <2>3. QED
    BY <2>1, <2>2
<1>4. PayloadValid'
  BY DEF DInv, PayloadValid, IInv, ControlTypeOK, Tasks
<1>5. ResultReflectsTasks'
  BY <1>1 DEF ResultReflectsTasks
<1>6. QED
  BY <1>2, <1>3, <1>4, <1>5 DEF DInv

LEMMA InitDInv == Init => DInv
  BY DEF Init, DInv, GroupErrFromTask, ParentStillHead, PayloadValid,
     ResultReflectsTasks, Tasks, Wave1, Wave2

LEMMA NextDInv == IInv /\ DInv /\ [Next]_vars => DInv'
<1> SUFFICES ASSUME IInv, DInv, [Next]_vars PROVE DInv'
  OBVIOUS
<1> USE DEF DInv
<1>1. CASE ProcessSlot
  BY <1>1 DEF ProcessSlot, GroupErrFromTask, ParentStillHead, PayloadValid,
     ResultReflectsTasks
<1>2. ASSUME NEW b \in BlockShapes, ProcessBeaconBlock(b) PROVE DInv'
  BY <1>2 DEF ProcessBeaconBlock, GroupErrFromTask, ParentStillHead,
     PayloadValid, ResultReflectsTasks, Tasks, Wave1, Wave2
<1>3. CASE ValidatePayloadChecks
  <2> DEFINE v == VerifyPayload([head |-> stateHead, slot |-> slot],
                                blk.payload)
  <2>0. /\ v \in {"ok"} \cup Errors
        /\ "payload" \in Tasks /\ pc["payload"] = "run"
        /\ UNCHANGED <<phase, result, blk, stateHead, engineValid>>
    BY <1>3, VerifyPayloadResult DEF ValidatePayloadChecks, Tasks, Wave1
  <2>1. CASE TaskFails("payload", "ErrNilBlkBody")
    BY <2>0, <2>1, TaskEndsDInv DEF TaskFails, Errors
  <2>2. CASE TaskFails("payload", "ErrNilPayload")
    BY <2>0, <2>2, TaskEndsDInv DEF TaskFails, Errors
  <2>3. CASE TaskFails("payload", "ErrStateRead")
    BY <2>0, <2>3, TaskEndsDInv DEF TaskFails, Errors
  <2>4. CASE v # "ok" /\ TaskFails("payload", v)
    BY <2>0, <2>4, TaskEndsDInv DEF TaskFails
  <2>5. CASE /\ v = "ok"
             /\ pc' = [pc EXCEPT !["payload"] = "notify"]
             /\ UNCHANGED <<taskRes, groupErr, cancelled>>
    <3>1. blk.payload.parent = stateHead
      BY <2>5, VerifyPayloadOk
    <3>2. pc'["apply"] = pc["apply"]
      BY <2>5 DEF IInv, ControlTypeOK, Tasks
    <3>3. QED
      BY <2>0, <2>5, <3>1, <3>2 DEF GroupErrFromTask, ParentStillHead,
         PayloadValid, ResultReflectsTasks
  <2>6. QED
    BY <1>3, <2>1, <2>2, <2>3, <2>4, <2>5 DEF ValidatePayloadChecks
<1>4. CASE ValidatePayloadNotify
  <2>0. /\ "payload" \in Tasks /\ pc["payload"] = "notify"
        /\ UNCHANGED <<phase, result, blk, stateHead>>
    BY <1>4 DEF ValidatePayloadNotify, Tasks, Wave1, Wave2
  <2>1. CASE TaskFails("payload", "ErrEngine") /\ UNCHANGED engineValid
    BY <2>0, <2>1, TaskEndsDInv DEF TaskFails, Errors
  <2>2. CASE TaskFails("payload", "ErrInvalidPayload") /\ UNCHANGED engineValid
    BY <2>0, <2>2, TaskEndsDInv DEF TaskFails, Errors
  <2>3. CASE TaskSucceeds("payload")
             /\ engineValid' = engineValid \cup {blk.payload.hash}
    BY <2>0, <2>3, TaskEndsDInv DEF TaskSucceeds
  <2>4. QED
    BY <1>4, <2>1, <2>2, <2>3 DEF ValidatePayloadNotify
<1>5. CASE ValidateBlock
  <2>0. /\ "block" \in Tasks /\ pc["block"] = "run"
        /\ UNCHANGED <<phase, result, blk, stateHead, engineValid>>
    BY <1>5 DEF ValidateBlock, Tasks, Wave1, Wave2
  <2>1. CASE TaskSucceeds("block")
    BY <2>0, <2>1, TaskEndsDInv DEF TaskSucceeds
  <2>2. CASE TaskFails("block", "ErrInvalidBlock")
    BY <2>0, <2>2, TaskEndsDInv DEF TaskFails, Errors
  <2>3. QED
    BY <1>5, <2>1, <2>2 DEF ValidateBlock
<1>6. CASE WaitWave1
  <2>0. UNCHANGED <<taskRes, groupErr, blk, stateHead, engineValid>>
    BY <1>6 DEF WaitWave1
  <2>1. CASE groupErr # "none"
    <3>1. PICK u \in Tasks : taskRes[u] = groupErr
      BY <2>1 DEF GroupErrFromTask
    <3>2. groupErr \in Errors
      BY <2>1 DEF IInv, ControlTypeOK
    <3>3. result' = groupErr /\ pc' = pc
      BY <1>6, <2>1 DEF WaitWave1
    <3>4. ResultReflectsTasks'
      BY <2>0, <3>1, <3>2, <3>3 DEF ResultReflectsTasks, Errors
    <3>5. QED
      BY <2>0, <3>3, <3>4 DEF GroupErrFromTask, ParentStillHead, PayloadValid
  <2>2. CASE groupErr = "none"
    <3>1. phase' = "wave2" /\ pc'["payload"] = "done" /\ pc'["apply"] = "run"
      BY <1>6, <2>2 DEF WaitWave1, IInv, ControlTypeOK, Tasks, Wave1, Wave2
    <3>2. pc["apply"] = "idle"
      BY <1>6 DEF WaitWave1, IInv, Wave2
    <3>3. QED
      BY <2>0, <3>1, <3>2 DEF GroupErrFromTask, ParentStillHead,
         PayloadValid, ResultReflectsTasks
  <2>3. QED
    BY <2>1, <2>2
<1>7. CASE ProcessBlobs
  <2>0. /\ "blobs" \in Tasks /\ pc["blobs"] = "run"
        /\ UNCHANGED <<phase, result, blk, stateHead, engineValid>>
    BY <1>7 DEF ProcessBlobs, Tasks, Wave1, Wave2
  <2>1. CASE TaskSucceeds("blobs")
    BY <2>0, <2>1, TaskEndsDInv DEF TaskSucceeds
  <2>2. CASE TaskFails("blobs", "ErrBlobs")
    BY <2>0, <2>2, TaskEndsDInv DEF TaskFails, Errors
  <2>3. QED
    BY <1>7, <2>1, <2>2 DEF ProcessBlobs
<1>8. CASE ProcessBlock
  <2>0. /\ "apply" \in Tasks /\ pc["apply"] = "run"
        /\ UNCHANGED <<phase, result, blk, engineValid>>
    BY <1>8 DEF ProcessBlock, Tasks, Wave1, Wave2
  <2>1. CASE TaskSucceeds("apply") /\ stateHead' = blk.payload.hash
    BY <2>0, <2>1, TaskEndsDInv DEF TaskSucceeds
  <2>2. CASE TaskFails("apply", "ErrStateTransition") /\ UNCHANGED stateHead
    BY <2>0, <2>2, TaskEndsDInv DEF TaskFails, Errors
  <2>3. QED
    BY <1>8, <2>1, <2>2 DEF ProcessBlock
<1>9. CASE WaitWave2
  <2>0. /\ UNCHANGED <<pc, taskRes, groupErr, blk, stateHead, engineValid>>
        /\ phase' = "idle"
        /\ result' = IF groupErr # "none" THEN groupErr ELSE "ok"
    BY <1>9 DEF WaitWave2
  <2>1. CASE groupErr # "none"
    <3>1. PICK u \in Tasks : taskRes[u] = groupErr
      BY <2>1 DEF GroupErrFromTask
    <3>2. groupErr \in Errors
      BY <2>1 DEF IInv, ControlTypeOK
    <3>3. QED
      BY <2>0, <2>1, <3>1, <3>2 DEF GroupErrFromTask, ParentStillHead,
         PayloadValid, ResultReflectsTasks, Errors
  <2>2. CASE groupErr = "none"
    <3>1. \A t \in Tasks : pc[t] = "done"
      BY <1>9 DEF WaitWave2, IInv, Tasks, Wave1, Wave2
    <3>2. \A t \in Tasks : taskRes[t] = "ok"
      BY <2>2, <3>1 DEF IInv
    <3>3. QED
      BY <2>0, <2>2, <3>2 DEF GroupErrFromTask, ParentStillHead,
         PayloadValid, ResultReflectsTasks
  <2>3. QED
    BY <2>1, <2>2
<1>10. CASE UNCHANGED vars
  BY <1>10 DEF vars, GroupErrFromTask, ParentStillHead, PayloadValid,
     ResultReflectsTasks
<1>11. QED
  BY <1>1, <1>2, <1>3, <1>4, <1>5, <1>6, <1>7, <1>8, <1>9, <1>10 DEF Next

\* Short-circuit of ProcessBeaconBlock: in every execution, for all slot,
\* epoch and withdrawal parameters, blob processing and the state
\* transition are started only when both ValidateExecutionPayloadOnBlk and
\* ValidateBlock of the same call returned nil.
THEOREM WaveTwoSafe == Spec => []WaveTwoOnlyAfterValidation
<1>1. IInv => WaveTwoOnlyAfterValidation
  BY DEF IInv
<1>2. QED
  BY InitIInv, NextIInv, <1>1, PTL DEF Spec


\* ProcessBeaconBlock's return value, for every slot, epoch and withdrawal
\* parameter: nil exactly when the two validations, blob processing and the
\* state transition all returned nil, and otherwise the error one of those
\* goroutines returned (the errgroup's first error, seen by either Wait).
THEOREM ResultCorrect == Spec => []ResultReflectsTasks
<1>1. IInv /\ DInv => ResultReflectsTasks
  BY DEF DInv
<1>2. IInv /\ DInv /\ [Next]_vars => (IInv /\ DInv)'
  BY NextIInv, NextDInv
<1>3. QED
  BY InitIInv, InitDInv, <1>1, <1>2, PTL DEF Spec

\* One step of the pipeline moves the state's latest execution payload only
\* when the state transition of wave two applies a block whose payload
\* passed VerifyPayload's parent check against that same head in wave one
\* and that NotifyNewPayload reported valid.
LEMMA HeadStep ==
  IInv /\ DInv /\ [Next]_vars =>
    [stateHead' # stateHead =>
       /\ blk.payload.parent = stateHead
       /\ stateHead' \in engineValid]_vars
<1> SUFFICES ASSUME IInv, DInv, [Next]_vars, stateHead' # stateHead
             PROVE  /\ blk.payload.parent = stateHead
                    /\ stateHead' \in engineValid
  OBVIOUS
<1>1. /\ pc["apply"] = "run"
      /\ stateHead' = blk.payload.hash
      /\ UNCHANGED engineValid
  BY DEF Next, vars, ProcessSlot, ProcessBeaconBlock, ValidatePayloadChecks,
     ValidatePayloadNotify, ValidateBlock, WaitWave1, ProcessBlobs,
     ProcessBlock, WaitWave2, TaskSucceeds, TaskFails
<1>2. taskRes["payload"] = "ok"
  BY <1>1 DEF IInv, WaveTwoOnlyAfterValidation, Wave1, Wave2
<1>3. QED
  BY <1>1, <1>2 DEF DInv, ParentStillHead, PayloadValid

\* The action property: in every execution, every move of the state's
\* latest payload extends the previous one by a payload the engine accepted.
THEOREM HeadExtends == Spec => AppliedPayloadExtendsHead
<1>1. IInv /\ DInv /\ [Next]_vars => (IInv /\ DInv)'
  BY NextIInv, NextDInv
<1>2. QED
  BY InitIInv, InitDInv, <1>1, HeadStep, PTL DEF Spec, AppliedPayloadExtendsHead

=============================================================================
