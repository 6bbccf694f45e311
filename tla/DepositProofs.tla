---------------------------- MODULE DepositProofs ----------------------------
(***************************************************************************)
(* Proofs about the deposit service (Deposit), for every value of the      *)
(* constants: the deposit store only takes deposits of execution blocks   *)
(* at least eth1FollowDistance behind the feed.                            *)
(*                                                                         *)
(* The slot subtraction of handleDepositEvent wraps (math.U64), so this    *)
(* holds only when no deposit block lies within eth1FollowDistance of the  *)
(* top of the slot range: the subtraction at a slot below the distance     *)
(* then lands on no deposit.  The code has 64-bit slots and a distance of  *)
(* one, so this asks that block 2^64 - 1 holds no deposit.                 *)
(***************************************************************************)
EXTENDS Deposit, SequenceTheorems, TLAPS

\* No deposit block is within eth1FollowDistance of the top of math.U64.
NoDepositAtTop == \A s \in DepositSlots : s + FollowDistance < 2^SlotWidth

\* What the proof needs of the types.
DepositTypeOK ==
  /\ svc \in {"new", "select", "handling", "stopped"}
  /\ sending \in {<<>>} \cup {<<s>> : s \in 0..MaxSlot}
  /\ nextSlot \in Nat
  /\ event \in 0..MaxSlot
  /\ store \in Seq(DepositSlots)

(***************************************************************************)
(* The inductive invariant.  A deposit is enqueued from the event being    *)
(* handled, so the proof needs that this event, and the one the feed is    *)
(* blocked sending, came before the feed's next slot.                      *)
(***************************************************************************)
IInv ==
  /\ DepositTypeOK
  /\ sending # <<>> => Head(sending) < nextSlot
  /\ svc = "handling" => event < nextSlot
  /\ FollowDistanceRespected

\* handleDepositEvent's math.U64 subtraction, slot - eth1FollowDistance
\* modulo M = 2^64: when the result plus the distance stays below M (it
\* did not wrap), adding the distance back gives the event's slot.
LEMMA UnwrappedSlot ==
  ASSUME NEW M \in Nat \ {0}, NEW e \in 0..(M - 1), NEW d \in Nat,
         ((e + M - d) % M) + d < M
  PROVE  ((e + M - d) % M) + d = e
  BY SMT

\* The width of math.U64 gives a positive modulus.
LEMMA ModulusPositive == 2^SlotWidth \in Nat \ {0}
  BY DepositAssumption

\* A sequence of deposits is a sequence of block numbers.
LEMMA StoreNat ==
  ASSUME NEW s \in Seq(DepositSlots)
  PROVE  s \in [1..Len(s) -> Nat] /\ DOMAIN s = 1..Len(s)
<1>1. DepositSlots \subseteq Nat
  BY DepositAssumption DEF DepositAssumption
<1>2. s \in Seq(Nat)
  BY <1>1, SeqMonotonic
<1>3. QED
  BY <1>2, LenProperties

LEMMA InitIInv == Init => IInv
  BY DepositAssumption DEF Init, IInv, DepositTypeOK, FollowDistanceRespected

\* handleDepositEvent enqueues at most the deposit of the block it asked
\* for, and that block is the event's slot less the follow distance.
LEMMA HandleKeepsDistance ==
  ASSUME NoDepositAtTop, IInv, HandleDepositEvent
  PROVE  IInv'
<1> DEFINE M == 2^SlotWidth
           slot == (event + M - FollowDistance) % M
<1>1. M \in Nat \ {0} /\ MaxSlot < M /\ FollowDistance \in Nat
  BY ModulusPositive, DepositAssumption DEF DepositAssumption
<1>2. svc = "handling" /\ event \in 0..MaxSlot /\ event < nextSlot
  BY DEF HandleDepositEvent, IInv, DepositTypeOK
<1>3. store \in Seq(DepositSlots) /\ nextSlot \in Nat
  BY DEF IInv, DepositTypeOK
<1>4. store' = store \/ store' = store \o DepositsAt(slot)
  BY DEF HandleDepositEvent
<1>5. CASE store' = store
  BY <1>5 DEF HandleDepositEvent, IInv, DepositTypeOK, FollowDistanceRespected
<1>6. CASE store' = store \o DepositsAt(slot) /\ slot \notin DepositSlots
  <2>1. store' = store
    BY <1>3, <1>6, ConcatEmptySeq DEF DepositsAt
  <2>2. QED
    BY <2>1 DEF HandleDepositEvent, IInv, DepositTypeOK, FollowDistanceRespected
<1>7. CASE store' = store \o DepositsAt(slot) /\ slot \in DepositSlots
  <2>1. slot + FollowDistance < M
    BY <1>7 DEF NoDepositAtTop
  <2>2. slot + FollowDistance = event
    <3>1. event \in 0..(M - 1)
      BY <1>1, <1>2, DepositAssumption DEF DepositAssumption
    <3>2. QED
      BY <1>1, <2>1, <3>1, UnwrappedSlot
  <2>3. store' = store \o <<slot>> /\ <<slot>> \in Seq(DepositSlots)
    BY <1>7 DEF DepositsAt
  <2>4. /\ store' \in Seq(DepositSlots)
        /\ Len(store') = Len(store) + 1
        /\ \A i \in 1..Len(store) : store'[i] = store[i]
        /\ store'[Len(store) + 1] = slot
    BY <1>3, <2>3, ConcatProperties
  <2>5. FollowDistanceRespected'
    <3>1. UNCHANGED nextSlot /\ DOMAIN store' = 1..(Len(store) + 1)
      BY <2>4 DEF HandleDepositEvent
    <3>2. \A i \in 1..Len(store) : store[i] + FollowDistance < nextSlot
      BY DEF IInv, FollowDistanceRespected
    <3>3. QED
      BY <1>2, <2>2, <2>4, <3>1, <3>2 DEF FollowDistanceRespected
  <2>6. QED
    BY <2>4, <2>5 DEF HandleDepositEvent, IInv, DepositTypeOK
<1>8. QED
  BY <1>4, <1>5, <1>6, <1>7

LEMMA NextIInv == NoDepositAtTop /\ IInv /\ [Next]_vars => IInv'
<1> SUFFICES ASSUME NoDepositAtTop, IInv, [Next]_vars PROVE IInv'
  OBVIOUS
<1>1. CASE Start
  BY <1>1 DEF Start, IInv, DepositTypeOK, FollowDistanceRespected
<1>2. CASE FeedSend
  <2>1. \A i \in DOMAIN store : store[i] \in Nat
    BY StoreNat DEF IInv, DepositTypeOK
  <2>2. FollowDistanceRespected'
    BY <1>2, <2>1, DepositAssumption DEF FeedSend, IInv, DepositTypeOK,
       FollowDistanceRespected, DepositAssumption
  <2>3. QED
    BY <1>2, <2>2, DepositAssumption DEF FeedSend, IInv, DepositTypeOK,
       DepositAssumption
<1>3. CASE ReceiveEvent
  BY <1>3 DEF ReceiveEvent, IInv, DepositTypeOK, FollowDistanceRespected
<1>4. CASE HandleDepositEvent
  BY <1>4, HandleKeepsDistance
<1>5. CASE ContextDone
  BY <1>5 DEF ContextDone, IInv, DepositTypeOK, FollowDistanceRespected
<1>6. CASE UNCHANGED vars
  BY <1>6 DEF vars, IInv, DepositTypeOK, FollowDistanceRespected
<1>7. QED
  BY <1>1, <1>2, <1>3, <1>4, <1>5, <1>6 DEF Next

\* The follow distance of handleDepositEvent, for every slot width, follow
\* distance and placement of deposits that leaves the top eth1FollowDistance
\* blocks of math.U64 empty: every deposit in the store comes from an
\* execution block at least eth1FollowDistance slots behind the newest
\* block event the feed has sent, across the feed's blocking sends, the
\* goroutine's receive and the failures of GetDeposits and EnqueueDeposits.
THEOREM DistanceKept == NoDepositAtTop => (Spec => []FollowDistanceRespected)
<1> SUFFICES ASSUME NoDepositAtTop PROVE Spec => []FollowDistanceRespected
  OBVIOUS
<1>1. IInv => FollowDistanceRespected
  BY DEF IInv
<1>2. QED
  BY InitIInv, NextIInv, <1>1, PTL DEF Spec

=============================================================================
