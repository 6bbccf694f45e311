------------------------------ MODULE Deposit -------------------------------
(***************************************************************************)
(* The deposit ingestion service (deposit Service of the sources): Start   *)
(* subscribes an unbuffered channel to the block feed and launches one     *)
(* goroutine that selects between ctx.Done() (unsubscribe and exit) and    *)
(* the next block event, which handleDepositEvent turns into a             *)
(* GetDeposits(slot - eth1FollowDistance) on the deposit contract and an   *)
(* EnqueueDeposits into the deposit store; an error drops the event.       *)
(*                                                                         *)
(* The feed (the block pipeline's finalized-block events) sends one event  *)
(* per beacon slot in slot order; a Send blocks until the subscriber       *)
(* receives it or unsubscribes.  Slots are math.U64: the subtraction wraps *)
(* modulo 2^SlotWidth (64 in the code, smaller here so TLC can count).     *)
(* The deposit contract holds one deposit, named by its slot, in each      *)
(* execution block of DepositSlots.                                        *)
(***************************************************************************)
EXTENDS Naturals, Sequences

CONSTANTS
  MaxSlot,             \* the feed's last beacon slot
  FollowDistance,      \* eth1FollowDistance (1 in NewService)
  SlotWidth,           \* bit width of math.U64
  DepositSlots         \* execution blocks holding a deposit

ASSUME DepositAssumption ==
  /\ MaxSlot \in Nat
  /\ FollowDistance \in Nat
  /\ SlotWidth \in Nat \ {0}
  /\ MaxSlot < 2^SlotWidth
  /\ DepositSlots \subseteq 0..MaxSlot

VARIABLES
  svc,         \* the service goroutine: "new", "select", "handling", "stopped"
  subscribed,  \* the channel is subscribed to the feed
  sending,     \* <<s>>: the feed is blocked sending the event of slot s
  nextSlot,    \* the slot of the feed's next event
  event,       \* the block slot of the event being handled
  requests,    \* GetDeposits calls in order: [block slot, slot asked]
  store        \* deposits enqueued into the deposit store, in order

vars == <<svc, subscribed, sending, nextSlot, event, requests, store>>

Slots == 0..(2^SlotWidth - 1)

TypeOK ==
  /\ svc \in {"new", "select", "handling", "stopped"}
  /\ subscribed \in BOOLEAN
  /\ sending \in {<<>>} \cup {<<s>> : s \in 0..MaxSlot}
  /\ nextSlot \in 0..(MaxSlot + 1)
  /\ event \in 0..MaxSlot
  /\ requests \in Seq([block : 0..MaxSlot, slot : Slots])
  /\ store \in Seq(DepositSlots)

\* GetDeposits: the deposits of the execution block at slot s.
DepositsAt(s) == IF s \in DepositSlots THEN <<s>> ELSE <<>>

-----------------------------------------------------------------------------
(* Faulty variants of the service's steps, each a plausible slip in the    *)
(* code; substituted for the real step, each must break a property below.  *)

\* handleDepositEvent reading the beacon block's own slot (the follow
\* distance forgotten).
HandleDepositEventNoOffset ==
  /\ svc = "handling"
  /\ requests' = Append(requests, [block |-> event, slot |-> event])
  /\ \/ UNCHANGED store
     \/ store' = store \o DepositsAt(event)
  /\ svc' = "select"
  /\ UNCHANGED <<subscribed, sending, nextSlot, event>>

\* The goroutine returning on ctx.Done() without the deferred Unsubscribe.
ContextDoneKeepsSubscription ==
  /\ svc = "select"
  /\ svc' = "stopped"
  /\ UNCHANGED <<subscribed, sending, nextSlot, event, requests, store>>

-----------------------------------------------------------------------------
(* The service (Start and its goroutine, handleDepositEvent) and the feed. *)

\* Start: subscribe, launch the goroutine, return nil.
Start ==
  /\ svc = "new"
  /\ svc' = "select"
  /\ subscribed' = TRUE
  /\ UNCHANGED <<sending, nextSlot, event, requests, store>>

\* The feed sends the next block event; with no subscriber Send returns at
\* once, else it blocks until the event is taken.
FeedSend ==
  /\ sending = <<>>
  /\ nextSlot <= MaxSlot
  /\ sending' = IF subscribed THEN <<nextSlot>> ELSE <<>>
  /\ nextSlot' = nextSlot + 1
  /\ UNCHANGED <<svc, subscribed, event, requests, store>>

\* The select takes the event from the channel.
ReceiveEvent ==
  /\ svc = "select"
  /\ sending # <<>>
  /\ event' = Head(sending)
  /\ sending' = <<>>
  /\ svc' = "handling"
  /\ UNCHANGED <<subscribed, nextSlot, requests, store>>

\* handleDepositEvent: slot - eth1FollowDistance (wrapping), GetDeposits,
\* EnqueueDeposits; an error of either is logged and the event dropped.
HandleDepositEvent ==
  /\ svc = "handling"
  /\ LET slot == (event + 2^SlotWidth - FollowDistance) % 2^SlotWidth
     IN  /\ requests' = Append(requests, [block |-> event, slot |-> slot])
         /\ \/ UNCHANGED store                        \* GetDeposits error
            \/ UNCHANGED store                        \* EnqueueDeposits error
            \/ store' = store \o DepositsAt(slot)
  /\ svc' = "select"
  /\ UNCHANGED <<subscribed, sending, nextSlot, event>>

\* The select takes ctx.Done(): the deferred Unsubscribe runs, which
\* releases a Send blocked on the channel.
ContextDone ==
  /\ svc = "select"
  /\ svc' = "stopped"
  /\ subscribed' = FALSE
  /\ sending' = <<>>
  /\ UNCHANGED <<nextSlot, event, requests, store>>

Init ==
  /\ svc = "new"
  /\ subscribed = FALSE
  /\ sending = <<>>
  /\ nextSlot = 0
  /\ event = 0
  /\ requests = <<>>
  /\ store = <<>>

Next ==
  \/ Start
  \/ FeedSend
  \/ ReceiveEvent
  \/ HandleDepositEvent
  \/ ContextDone

\* A handleDepositEvent whose GetDeposits and EnqueueDeposits both succeed:
\* the requested block's deposits are enqueued.
DepositFetchSucceeds ==
  /\ HandleDepositEvent
  /\ store' = store \o DepositsAt(requests'[Len(requests')].slot)

\* The goroutine, once runnable, is scheduled: its receive and its handler
\* are weakly fair; Start is called by the node.  The deposit contract and
\* store are not down for good: a fetch tried again and again eventually
\* succeeds (strong fairness; the code tries each event once, so for it
\* this only rules out an endless run of failed events).  The feed and the
\* cancellation are not constrained.
Fairness ==
  /\ WF_vars(Start)
  /\ WF_vars(ReceiveEvent)
  /\ WF_vars(HandleDepositEvent)
  /\ SF_vars(DepositFetchSucceeds)

Spec == Init /\ [][Next]_vars /\ Fairness

-----------------------------------------------------------------------------
(* Properties.                                                             *)

\* Execution blocks whose deposits were asked of the contract.
RequestedSlots == {requests[i].slot : i \in DOMAIN requests}

\* Follow distance: every deposit enqueued comes from an execution block at
\* least eth1FollowDistance slots behind the newest beacon block the feed
\* has announced, so the store never takes deposits of a block the chain
\* has not yet followed past.
FollowDistanceRespected ==
  \A i \in DOMAIN store : store[i] + FollowDistance < nextSlot

\* A Send of the feed never blocks forever: the event is received, or the
\* goroutine exits through ctx.Done() and its deferred Unsubscribe releases
\* the feed.  Needs the goroutine to be scheduled (weak fairness).
FeedSendCompletes == sending # <<>> ~> sending = <<>>

\* The spec (4.5): the slot subtraction "fails with an underflow/invalid-slot
\* condition if the subtraction would be negative".  The code subtracts two
\* math.U64 values: a block below eth1FollowDistance asks for a slot above
\* its own.
NoWrappedSlotRequest ==
  \A i \in DOMAIN requests : requests[i].slot <= requests[i].block

\* The spec (4.5): a dropped event's deposits become "eventually observable
\* again through a later block's processing".  Every requested deposit
\* block is eventually enqueued, unless the service was stopped.  Every
\* later event asks for its own slot minus the follow distance, so a
\* deposit block whose GetDeposits or EnqueueDeposits failed once is never
\* asked for again, though failures are transient and the service runs on.
DepositsEventuallyEnqueued ==
  \A s \in DepositSlots :
    s \in RequestedSlots ~> \/ \E i \in DOMAIN store : store[i] = s
                            \/ svc = "stopped"

\* The spec (3): "DepositEvents are created by an upstream feed per
\* finalized block and are consumed exactly once by the ingestion service".
\* Every event the feed sends is handled, unless the service was stopped.
\* Start subscribes the channel only when it is called: an event sent
\* before that has no subscriber and Send drops it.
EveryEventConsumed ==
  \A s \in 0..MaxSlot :
    nextSlot > s ~> (\E i \in DOMAIN requests : requests[i].block = s)
                      \/ svc = "stopped"
=============================================================================
