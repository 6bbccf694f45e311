# TLA+ models of the beacon-kit block-processing core

This directory holds TLA+ specifications of the block-processing and
chain-head core of beacon-kit, TLC configurations that model-check them on small
instances, and TLAPS proofs of the main safety properties. The sources
modelled are:

- `src/beacon/blockchain/process.go`
- `src/beacon/execution/logs/cache.go`
- `src/unnamed/part_001`, the forkchoice notifier
- `src/unnamed/part_002`, the payload verifier and the deposit service

## 1. The system and its parts

| Part | Source | State | Operations |
|---|---|---|---|
| Log cache | `cache.go` | `finalStore`, `processingStore`, `lastFinalizedBlock` | `ShouldProcess`, `Push`, `SetLastFinalizedBlock`, `Rollback` |
| Log driver (`ProcessLogsInETH1Block`) | not under `src/`, so modelled from the spec | the block being walked and its log index | begin a block, one log, unpack failure, end of block |
| Payload verifier | `part_002` `VerifyPayload` | none (pure) | parent check, RANDAO mix check, withdrawal-count check, in that order |
| Block pipeline | `process.go` `ProcessSlot`, `ProcessBeaconBlock`, `ValidateExecutionPayloadOnBlk` | state slot, state latest payload, errgroup (first error, cancelled context, running goroutines) | wave 1 (payload validation and NotifyNewPayload; ValidateBlock); Wait; wave 2 (ProcessBlobs; ProcessBlock); Wait |
| Post-block processing | `process.go` `PostBlockProcess` | the local `payload` interface, forkchoice store nodes | nil exits, InsertNode, log processing, then the deferred forkchoice update |
| Forkchoice notifier | `part_001` `sendPostBlockFCU`, `sendFCU` | forkchoice updates sent | choose the head; read safe/finalized from the state; notify the engine |
| Deposit service | `part_002` `Start`, `handleDepositEvent` | subscription, service goroutine, deposit store | Start; receive an event; handle it (`slot - eth1FollowDistance`, GetDeposits, EnqueueDeposits); ctx.Done → Unsubscribe |

How the parts interact:

- The caller hands one block per slot to `ProcessBeaconBlock` and then calls
  `PostBlockProcess`. The caller serialises these calls.
- `PostBlockProcess` drives the log cache through the log driver. Its deferred
  closure always calls the forkchoice notifier.
- The deposit service runs in its own goroutine, fed by block events.

Not modelled:

- The Polaris runtime wiring (`part_000`) builds services once at start-up.
- The CometBFT server configuration is static configuration.
- The SSZ codec's `HashTreeRoot`/`GetTree` (Merkleization through the fastssz
  hasher): a hash is not something TLC can usefully enumerate. Marshalling and
  unmarshalling are modelled (`WithdrawalSSZ`).
- The Makefile (`part_003`) is build tooling.

## 2. Modules

| Module | Models | Notes |
|---|---|---|
| `LogCache` | the cache and its driver | Constants `MaxBlock`, `LogsPerBlock`, `InOrder`. A log is `<<block, index>>`. `InOrder` says whether the engine may hand back a block below `lastFinalizedBlock`. `Restart` is a node restart: the cache is in memory only (`cache.go:43`). |
| `LogHistory` | what the log cache promises | The abstract specification: the committed history grows only by all logs of one block above the last committed block, or is forgotten on restart. `LogCache` maps onto it through `History == INSTANCE LogHistory WITH history <- finalStore, last <- lastFinalizedBlock`. |
| `LogCacheProofs` | TLAPS proofs about `LogCache` | type, chain order, exactly once, monotonic last block, refinement |
| `PipelineProofs` | TLAPS proofs about `Pipeline` | the wave short-circuit, the return value, the head moving only to a verified child |
| `PostBlockProofs` | TLAPS proofs about `PostBlock` | forkchoice always fires; post-block processing refines `LogCache`, so the log history, exactly-once and chain order hold in the composition |
| `DepositProofs` | TLAPS proof of the follow distance | |
| `WithdrawalProofs` | TLAPS proof of the codec's round trip | for every radix and field width, from the uint64 codec's contract |
| `WithdrawalSSZ` | `withdrawal.ssz.go`: `MarshalSSZ`, `MarshalSSZTo`, `UnmarshalSSZ`, `SizeSSZ` | Bytes are digits of base `Radix` and the field widths are constants (8 and 20 in the code). `ssz.MarshalUint64`/`UnmarshallUint64` (fastssz, outside `src/`) are little-endian encoding and decoding, the latter a `FoldRight` of the bytes. A sender marshals, the wire may be cut short, and a receiver unmarshals into its struct. |
| `Pipeline` | `ProcessSlot`, `ProcessBeaconBlock`, `VerifyPayload` | The errgroup is three fields: the first error, the cancelled flag, and per-goroutine `pc`/`taskRes`. The first `Wait` cancels the group context even on success, as errgroup does. The payload goroutine splits at the engine call (`ValidatePayloadChecks`, `ValidatePayloadNotify`), so the sibling can fail in between. The engines, block validator and availability store are nondeterministic. |
| `PostBlock` | `PostBlockProcess`, `sendPostBlockFCU`, `sendFCU` | Composes `LogCache` through `LC == INSTANCE LogCache`. `payload` is `GoNil` (never assigned), `TypedNil` (a nil pointer in the interface) or a payload record. On `TypedNil` the nil-receiver `GetBlockHash` either panics (`PanicRestart`: the node restarts and the log cache is lost) or returns the zero hash. `ApplyBlock` stands for the pipeline moving the state's latest payload between calls. |
| `Deposit` | the deposit service and the block feed | Slots are `math.U64`, modelled modulo `2^SlotWidth`. The feed sends one event per slot in order and blocks until the event is received or the subscriber unsubscribes (go-ethereum `event.Feed` semantics). Each of GetDeposits and EnqueueDeposits may fail. |

Each module has an `MC` module that gives model values and small sets for its
constants, and one `.cfg` per question.

## 3. Runs

| Run (cfg) | Checks | Result |
|---|---|---|
| `MCLogCache.cfg` | `TypeOK`, `FinalStoreInChainOrder`, `FinalStoreExactlyOnce` | pass, 106 states |
| `MCLogCacheHistory.cfg` | `HistorySpec` (refinement of `LogHistory`) | pass, 106 states |
| `MCLogCacheReorder.cfg` | `LastFinalizedNeverDecreases` | violation |
| `MCPipeline.cfg` | `WaveTwoOnlyAfterValidation`, `ResultReflectsTasks`, `AppliedPayloadExtendsHead` | pass, 48218 states |
| `MCPipelineCancel.cfg` | `NoNewPayloadAfterCancel` | violation |
| `MCPostBlock.cfg` | `ForkchoiceOncePerCall` | pass, 21718 states |
| `MCPostBlockNilPayload.cfg` | `FcuHeadIsRealBlock` | violation |
| `MCDeposit.cfg` | `FeedSendCompletes` (liveness) | pass, 156 states |
| `MCDepositWrap.cfg` | `NoWrappedSlotRequest` | violation |
| `MCDepositDrop.cfg` | `DepositsEventuallyEnqueued` (liveness) | violation |
| `MCDepositEarly.cfg` | `EveryEventConsumed` (liveness) | violation |
| `MCWithdrawalSSZ.cfg` | `RoundTrip` | pass, 4088 states |

What the passing runs show:

- **Log cache (`MCLogCache.cfg`).** Blocks are handed in non-decreasing order.
  Under every mix of pushes, unpack failures (`Rollback`), repeated blocks that
  `ShouldProcess` filters, commits and restarts, the final store holds each log
  of a committed block exactly once and in chain order. It holds no log of a
  rolled-back block.
- **Log history (`MCLogCacheHistory.cfg`).** Under the same order assumption,
  the cache and its driver implement `LogHistory`. Each step either leaves the
  final store and `lastFinalizedBlock` alone, or appends exactly the logs of one
  new block above the last finalized block, or is a restart. This is checked as
  `PROPERTY HistorySpec`, and it is stronger than the two invariants: it also
  says that a block is committed whole and never partly.
- **Pipeline (`MCPipeline.cfg`).**
  - Wave two never starts unless both validations returned nil.
  - The call returns nil exactly when all four goroutines did; otherwise it
    returns one of their errors.
  - The state's latest payload only moves to a payload whose parent was the
    previous head and that the engine reported valid.
- **Post-block (`MCPostBlock.cfg`).** Each `PostBlockProcess` return makes exactly
  one forkchoice attempt unless a state read failed. That covers every path: a
  nil block, body or payload, an InsertNode error, a log failure, or success.
  That the log cache it drives still implements `LogHistory` is proved, not
  run (`ComposedHistory` in section 4).
- **Deposit (`MCDeposit.cfg`).** A feed Send that blocks is always released,
  either by the receive or by the deferred `Unsubscribe` on `ctx.Done()`.
  That every enqueued deposit comes from a block at least `eth1FollowDistance`
  behind the feed is proved for every width (`DistanceKept`), and
  `MCDepositWrap` shows what the wrap below the distance requests.

- **Withdrawal codec (`MCWithdrawalSSZ.cfg`).** Every withdrawal of the bounded
  set (2-bit words, a 1-byte address, binary bytes) comes back unchanged from
  `UnmarshalSSZ(MarshalSSZ(w))`, after any truncations and refused reads.
  `RoundTrip` says nothing of what a refused read leaves in the receiver. The
  module's `ASSUME Uint64CodecAssumption` makes TLC evaluate fastssz's uint64
  contract (`Uint64Codec`, the hypothesis of the round-trip proof) for every
  word of the instance.

What the violation runs show. Each is a place where the code does not do what
the spec says:

1. **`LastFinalizedNeverDecreases`** (`cache.go:83`). `SetLastFinalizedBlock`
   overwrites the value without a check. When block 2 is processed and then
   block 1, the value goes from 2 to 1. `ShouldProcess` then accepts block 2's
   logs again, and they are committed twice. The spec says the value is monotonic
   and reprocessing is a no-op.
2. **`NoNewPayloadAfterCancel`** (`process.go:64`). The payload goroutine is given
   `ctx`, not `groupCtx`. After `ValidateBlock` fails and cancels the group,
   `NotifyNewPayload` is still sent. The spec says "cancel the sibling".
3. **`FcuHeadIsRealBlock`** (`part_001:100`). A body whose payload is nil stores
   a typed nil in the interface. `payload != nil` is then true, so the head
   becomes `GetBlockHash()` of a nil pointer instead of the state's latest
   payload.
4. **`NoWrappedSlotRequest`** (`part_002:284`). For beacon slot 0,
   `slot - eth1FollowDistance` wraps, and GetDeposits is asked for `2^w - 1`.
   The spec says the computation fails instead.
5. **`DepositsEventuallyEnqueued`** (`part_002:245`). A failed event is dropped,
   and no later event ever asks for that execution block again. The run makes
   failures transient (a fetch retried forever eventually succeeds) and the
   trace ends with the service still running. The spec says later blocks make
   the deposits observable again.
6. **`EveryEventConsumed`** (`part_002:237`). `Start` subscribes only when it is
   called, and the feed drops events that have no subscriber. The events of
   the first slots are never handled. The spec says every event is consumed exactly
   once.

Mutants. Every property of a passing run is shown to see a bug: PROJECT.json
lists, for each property, a faulty variant of a modelled operation that makes
it fail:

- a walk past the block's last log;
- a commit that prepends instead of appending;
- a rollback that keeps the processing store;
- a first `Wait` that ignores its error;
- a second `Wait` that drops its error;
- a verifier without the parent check;
- a defer registered after the early exits;
- an exit without `Unsubscribe`;
- a `ShouldProcess` that also accepts the last finalized block;
- an unmarshal that reads the address one byte early.

Bounds, and why they are enough:

- **Log cache:** 4 blocks of 2 logs each. That covers a repeated block, a lower
  block, a failure after a push, and a commit after a rollback.
- **Pipeline:** 2 hashes, 2 mixes, 2 epochs of 2 slots, and slots up to 4,
  which crosses an epoch boundary so the mix index changes. Withdrawals are at
  the bound and one above it. There are 2 calls, so a second block sees the
  head moved by the first.
- **Post-block:** 2 blocks of 1 log and 3 calls, so a nil case, a failure and a
  success can follow each other.
- **Deposit:** beacon slots 0..3 with 2-bit slots, so slot 0 wraps to 3, and
  deposits in execution blocks 0..2.

Fairness:

- Only `Deposit` states liveness.
- Its goroutine's receive and handler steps, and `Start`, are weakly fair: a
  runnable goroutine is eventually scheduled by the Go runtime.
- A fetch that succeeds (`DepositFetchSucceeds`: `GetDeposits` and
  `EnqueueDeposits` both return nil) is strongly fair. This models transient
  failures: a fetch that would be tried again and again eventually succeeds.
  The code tries each event once, so this fairness never forces a retry; it
  only rules out the failures that never end, which `DepositsEventuallyEnqueued`
  must not blame on the code.
- The feed and `ctx` cancellation get no fairness. Nothing obliges them to
  happen, and a liveness property allows the service to stop instead.

## 4. Proofs

Five modules hold proofs. `tlapm` checks them for every value of the
constants, from the assumptions `LogCacheAssumption`, `PipelineAssumption`,
`PostBlockAssumption`, `DepositAssumption` and `WithdrawalSSZAssumption`.
`PostBlockAssumption` repeats `LogCache`'s conditions on the constants it
passes to `LC == INSTANCE LogCache`; the theorems of `LogCacheProofs` can be
used for that instance only when these conditions hold. Where a theorem needs
more, it takes it as a hypothesis of the theorem, never as an `ASSUME`. Those
hypotheses are `InOrder`, `NoDepositAtTop` and `Uint64Codec`.

**`LogCacheProofs`** proves:

- `TypeCorrect`: `Spec => []TypeOK`.
- `ChainOrder`: `InOrder => (Spec => []FinalStoreInChainOrder)`.
- `ExactlyOnce`: `InOrder => (Spec => []FinalStoreExactlyOnce)`.
- `Refinement`: `InOrder => (Spec => HistorySpec)`. The cache implements
  `LogHistory`.

`FinalStoreInChainOrder` is not inductive on its own. A commit appends the whole
processing store, so the proof must know what that store holds. The inductive
invariant `IInv` adds four facts:

- when the driver is idle, the processing store is empty;
- the walked block is at or above `lastFinalizedBlock` (this is what `InOrder`
  gives);
- while a block above `lastFinalizedBlock` is walked, the processing store is
  exactly its first `procIdx` logs (`Walked`), and otherwise it is empty;
- every committed log lies at or below `lastFinalizedBlock`.

The lemma `CommitWalked` shows that appending a walked block keeps the order.

`ExactlyOnce` uses the strict order, which already makes each log occur at
most once, and a second invariant `CInv`:

- `FinalContents`: the set of logs in the final store is exactly the set of
  logs of the `finalized` blocks;
- `LastIsFinalized`: a nonzero `lastFinalizedBlock` is one of the finalized
  blocks. The driver may walk the last finalized block again. `ShouldProcess`
  then filters out all its logs and the commit adds nothing, so the proof must
  know that this block is already counted.

Along the way:

- `RangeConcat` and `WalkedRange` give the logs of a concatenation and of a
  whole walked block.
- `CountOnce` turns "present at exactly one index" into `Cardinality` 1, using
  `FS_Singleton` and `FS_EmptySet` of `FiniteSetTheorems`.

The refinement proof reuses `IInv`. At `ProcessLogsEnd` the walked prefix is the
whole block (`WalkedAll`), so the commit is `LogHistory`'s `Commit`, or a
stutter when the block is the last finalized one. Every other driver step
leaves the mapped variables unchanged, and `Restart` is `Forget`.

**`PipelineProofs`** proves three theorems.

`WaveTwoSafe`: `Spec => []WaveTwoOnlyAfterValidation`. The first `Wait` only
looks at `groupErr`, so the control invariant `IInv` needs more than the
property itself:

- a goroutine is done exactly when it has a result;
- no goroutine has failed while `groupErr` is unset;
- a running goroutine belongs to the current wave;
- wave two is idle during wave one, and wave one is done during wave two.

`ResultCorrect`: `Spec => []ResultReflectsTasks`. `HeadExtends`:
`Spec => AppliedPayloadExtendsHead`, an action property. Both rest on a data
invariant `DInv`:

- `GroupErrFromTask`: a set `groupErr` is the result of some goroutine.
- `ParentStillHead`: from a passed `VerifyPayload` until the state transition
  ends, the payload's parent is still the state's head. Only the state
  transition moves the head, and it runs only in wave two.
- `PayloadValid`: a payload goroutine that returned nil has put the payload's
  hash among the engine's valid hashes.

`TaskEndsDInv` covers every goroutine return once. `HeadStep` shows that each
`[Next]_vars` step satisfies the action property, and PTL lifts that to the
whole behaviour.

**`PostBlockProofs`** proves `ForkchoiceAlwaysFires`:
`Spec => []ForkchoiceOncePerCall`. It holds because
`completed = fcuAttempts + lookupFails` holds in every state, not only between
calls.

It also proves that the composition of post-block processing with the log
cache keeps what `LogCacheProofs` proves of the cache alone:

- `CacheRefined`: `Spec => LC!Spec`. The step lemma `StepRefines` takes every
  action of `PostBlock` in turn. `PostBlockProcess` either leaves the cache
  state alone or starts the driver on its payload's block, which is one of
  `LC!Blocks`. `ProcessLogs` and `ProcessLogsReturn` are driver steps.
  `PanicRestart` is `LC!Restart`. `SendPostBlockFCU` and `ApplyBlock` leave
  the cache alone.
- `ComposedHistory`: `InOrder => (Spec => LogCacheHistory)`: the cache driven
  by `PostBlockProcess` implements `LogHistory`. It is `CacheRefined` followed by
  `LogCacheProofs!Refinement`.
- `ComposedLogSafety`: `InOrder => (Spec => [](LC!FinalStoreExactlyOnce /\
  LC!FinalStoreInChainOrder))`.

The theorems of `LogCacheProofs` are used through `LCP == INSTANCE
LogCacheProofs`. The lemmas `SameSpec`, `SameHistory` and `SameSafety` show
that `LC!` and `LCP!` name the same formulas: the provers see the two
instances' definitions as different symbols until both are expanded.

**`DepositProofs`** proves `DistanceKept`:
`NoDepositAtTop => (Spec => []FollowDistanceRespected)`.

- **Why the hypothesis.** The subtraction of `handleDepositEvent` is a
  `math.U64` subtraction. At a slot below the distance it wraps to the top of
  the range. So the property holds only when no deposit block lies within
  `eth1FollowDistance` of `2^SlotWidth`. With 64-bit slots and a distance of
  one, that means block `2^64 - 1` holds no deposit.
- **The hypothesis is necessary.** TLC confirms this on 3-bit slots with a
  distance of 2. The property holds with deposits in blocks 0..5, and fails as
  soon as block 6 holds one.
- **Invariant.** `IInv` adds that the event being handled, and the one the
  feed is blocked sending, are below the feed's next slot.
- **Lemma.** `UnwrappedSlot` is the modular-arithmetic fact that a result
  which did not wrap is exactly the event's slot minus the distance.

**`WithdrawalProofs`** proves `RoundTripHolds`:
`Uint64Codec => (Spec => []RoundTrip)`, for every `Radix`, `WordBytes` and
`AddressBytes`.

- **The hypothesis.** `Uint64Codec` says that `ssz.UnmarshallUint64` reads
  back every word `ssz.MarshalUint64` writes. That is fastssz's contract, not
  code of this repository. Proving it for every width is induction over the
  bytes of a `FoldRight`, which these provers cannot do (see below). `WithdrawalSSZ`
  also states it as `ASSUME Uint64CodecAssumption`, which TLC evaluates for
  every word of the `withdrawal_ssz` instance.
- **What the proof covers.** The field layout of `withdrawal.ssz.go`, for
  every width. The lemma `Layout` shows that four sequences put one after the
  other are read back from the offsets `UnmarshalSSZ` uses: `buf[0:8]`,
  `buf[8:16]`, `buf[16:36]` and `buf[36:44]` for the code's widths. It rests
  on `SubSeqOfConcat1`, `SubSeqOfConcat2` and `SubSeqFull` of
  `SequenceTheorems`, specialised to octets. `DecodeEncode` turns this into
  `UnmarshalFields(MarshalSSZTo(<<>>, w)) = w`.
- **Invariant.** `RoundTrip` alone is not inductive. A successful
  `UnmarshalSSZ` must know that a wire of `SizeSSZ` bytes is the sender's
  encoding. `WireIsPrefix` says the wire is always a prefix of that encoding:
  `MarshalSSZ` writes the whole of it and `Truncate` only shortens it. The
  octets are typed by the set of digits the encoder can produce (`Octets`).
  This avoids proving `Radix^n \in Nat`, which also needs induction.

Each inductive invariant (`IInv` and `CInv` of the log cache, `IInv` and `DInv`
of the pipeline, `IInv` of the deposit service, `IInv` of the codec) was
checked with TLC as an invariant of the corresponding MC instance before it was
proved. The codec's `IInv` was checked with 3-valued bytes (69976 states).

What stays with TLC:

- The liveness properties (`FeedSendCompletes`, `DepositsEventuallyEnqueued`,
  `EveryEventConsumed`). They depend on fairness and `ENABLED`, which these
  provers do not handle.
- The uint64 codec's contract (`Uint64Codec`), the hypothesis of
  `RoundTripHolds`. For every `WordBytes`, it is about what the `FoldRight` of
  `UnmarshallUint64` computes for an input of any length. That is induction
  over data: the library's induction theorems take an operator parameter,
  which these provers cannot instantiate.

## 5. Plan for further work

- Prove the pipeline's `NoNewPayloadAfterCancel` once the code passes the
  group context to `ValidateExecutionPayloadOnBlk`.
- Compose `Pipeline` and `PostBlock` into one per-slot caller loop, and add a
  deposit feed driven by `PostBlock`'s committed blocks.
