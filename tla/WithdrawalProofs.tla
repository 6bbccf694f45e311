-------------------------- MODULE WithdrawalProofs --------------------------
(***************************************************************************)
(* Proofs about the withdrawal codec (WithdrawalSSZ): the field layout of  *)
(* MarshalSSZTo and UnmarshalSSZ in withdrawal.ssz.go agree for every      *)
(* byte radix, word width and address width, given that fastssz's uint64   *)
(* codec reads back what it writes (Uint64Codec).  That premise is about   *)
(* the library, not this repository, and its proof is an induction over   *)
(* the word's bytes through FoldRight, out of the provers' reach; the      *)
(* withdrawal_ssz run checks it with TLC.                                  *)
(***************************************************************************)
EXTENDS WithdrawalSSZ, SequenceTheorems, TLAPS

\* The WordBytes little-endian bytes ssz.MarshalUint64 appends for v.
LE(v) == [i \in 1..WordBytes |-> (v \div Radix^(i - 1)) % Radix]

\* Every byte a withdrawal's encoding can hold.
Octets == {LE(v)[i] : v \in Words, i \in 1..WordBytes} \cup Bytes

\* The encoding MarshalSSZ puts on the wire for withdrawal w.
Enc(w) == MarshalSSZTo(<<>>, w)

LEMMA Widths == WordBytes \in Nat \ {0} /\ AddressBytes \in Nat \ {0}
  BY WithdrawalSSZAssumption DEF WithdrawalSSZAssumption

\* The bytes of a word form a sequence of WordBytes octets.
LEMMA LESeq ==
  ASSUME NEW v \in Words
  PROVE  LE(v) \in Seq(Octets) /\ Len(LE(v)) = WordBytes
<1>1. LE(v) \in [1..WordBytes -> Octets]
  BY DEF LE, Octets
<1>2. QED
  BY <1>1, Widths DEF LE

\* ssz.MarshalUint64 on an empty buffer gives the word's bytes.
LEMMA MarshalEmpty ==
  ASSUME NEW v \in Words
  PROVE  MarshalUint64(<<>>, v) = LE(v)
  BY LESeq, ConcatEmptySeq DEF MarshalUint64, LE

\* An address is a sequence of AddressBytes octets.
LEMMA AddressSeq ==
  ASSUME NEW a \in [1..AddressBytes -> Bytes]
  PROVE  a \in Seq(Octets) /\ Len(a) = AddressBytes
  BY Widths DEF Octets

\* The sequence facts the layout proofs use, for sequences of octets.
LEMMA OctConcat ==
  ASSUME NEW s \in Seq(Octets), NEW t \in Seq(Octets)
  PROVE  s \o t \in Seq(Octets) /\ Len(s \o t) = Len(s) + Len(t)
  BY ConcatProperties

LEMMA OctSubFirst ==
  ASSUME NEW s \in Seq(Octets), NEW t \in Seq(Octets),
         NEW m \in 1..Len(s), NEW n \in 1..Len(s)
  PROVE  SubSeq(s \o t, m, n) = SubSeq(s, m, n)
  BY SubSeqOfConcat1

LEMMA OctSubSecond ==
  ASSUME NEW s \in Seq(Octets), NEW t \in Seq(Octets),
         NEW m \in Len(s) + 1..Len(s) + Len(t),
         NEW n \in Len(s) + 1..Len(s) + Len(t)
  PROVE  SubSeq(s \o t, m, n) = SubSeq(t, m - Len(s), n - Len(s))
  BY SubSeqOfConcat2

LEMMA OctSubFull ==
  ASSUME NEW s \in Seq(Octets)
  PROVE  SubSeq(s, 1, Len(s)) = s
  BY SubSeqFull

\* Four sequences put one after the other are SizeSSZ long and each is
\* read back from the offsets UnmarshalSSZ reads its field from.
FieldsAt(a, b, c, d) ==
  LET W == WordBytes
      A == AddressBytes
      e == ((a \o b) \o c) \o d
  IN  /\ e \in Seq(Octets)
      /\ Len(e) = 3 * W + A
      /\ SubSeq(e, 1, W) = a
      /\ SubSeq(e, W + 1, 2 * W) = b
      /\ SubSeq(e, 2 * W + 1, 2 * W + A) = c
      /\ SubSeq(e, 2 * W + A + 1, 3 * W + A) = d

\* Four sequences of octets put one after the other, as MarshalSSZTo puts
\* the fields: each is read back from its own offsets.
LEMMA Layout ==
  ASSUME NEW a \in Seq(Octets), NEW b \in Seq(Octets),
         NEW c \in Seq(Octets), NEW d \in Seq(Octets),
         Len(a) = WordBytes, Len(b) = WordBytes,
         Len(c) = AddressBytes, Len(d) = WordBytes
  PROVE  FieldsAt(a, b, c, d)
<1> DEFINE W == WordBytes
           A == AddressBytes
<1>0. W \in Nat \ {0} /\ A \in Nat \ {0}
  BY Widths
<1>1. a \o b \in Seq(Octets) /\ Len(a \o b) = 2 * W
  BY <1>0, OctConcat
<1>2. (a \o b) \o c \in Seq(Octets) /\ Len((a \o b) \o c) = 2 * W + A
  BY <1>0, <1>1, OctConcat
<1>3. ((a \o b) \o c) \o d \in Seq(Octets)
      /\ Len(((a \o b) \o c) \o d) = 3 * W + A
  BY <1>0, <1>2, OctConcat
<1>4. SubSeq(((a \o b) \o c) \o d, 1, W) = a
  <2>1. SubSeq(((a \o b) \o c) \o d, 1, W) = SubSeq((a \o b) \o c, 1, W)
    BY <1>0, <1>2, OctSubFirst
  <2>2. SubSeq((a \o b) \o c, 1, W) = SubSeq(a \o b, 1, W)
    BY <1>0, <1>1, OctSubFirst
  <2>3. SubSeq(a \o b, 1, W) = SubSeq(a, 1, W)
    BY <1>0, OctSubFirst
  <2>4. QED
    BY <2>1, <2>2, <2>3, OctSubFull
<1>5. SubSeq(((a \o b) \o c) \o d, W + 1, 2 * W) = b
  <2>1. SubSeq(((a \o b) \o c) \o d, W + 1, 2 * W)
        = SubSeq((a \o b) \o c, W + 1, 2 * W)
    BY <1>0, <1>2, OctSubFirst
  <2>2. SubSeq((a \o b) \o c, W + 1, 2 * W) = SubSeq(a \o b, W + 1, 2 * W)
    BY <1>0, <1>1, OctSubFirst
  <2>3. SubSeq(a \o b, W + 1, 2 * W) = SubSeq(b, 1, W)
    BY <1>0, OctSubSecond
  <2>4. QED
    BY <2>1, <2>2, <2>3, OctSubFull
<1>6. SubSeq(((a \o b) \o c) \o d, 2 * W + 1, 2 * W + A) = c
  <2>1. SubSeq(((a \o b) \o c) \o d, 2 * W + 1, 2 * W + A)
        = SubSeq((a \o b) \o c, 2 * W + 1, 2 * W + A)
    BY <1>0, <1>2, OctSubFirst
  <2>2. SubSeq((a \o b) \o c, 2 * W + 1, 2 * W + A) = SubSeq(c, 1, A)
    BY <1>0, <1>1, OctSubSecond
  <2>3. QED
    BY <2>1, <2>2, OctSubFull
<1>7. SubSeq(((a \o b) \o c) \o d, 2 * W + A + 1, 3 * W + A) = d
  <2>1. SubSeq(((a \o b) \o c) \o d, 2 * W + A + 1, 3 * W + A)
        = SubSeq(d, 1, W)
    BY <1>0, <1>2, OctSubSecond
  <2>2. QED
    BY <2>1, OctSubFull
<1>8. QED
  BY <1>3, <1>4, <1>5, <1>6, <1>7 DEF FieldsAt

\* The encoding is the four fields' bytes one after the other.
LEMMA EncShape ==
  ASSUME NEW w \in Withdrawals
  PROVE  Enc(w) = ((LE(w.index) \o LE(w.validator)) \o w.address)
                    \o LE(w.amount)
  BY MarshalEmpty DEF Withdrawals, Enc, MarshalSSZTo, MarshalUint64, LE

\* The fields' bytes are sequences of octets of the widths of the code.
LEMMA FieldSeqs ==
  ASSUME NEW w \in Withdrawals
  PROVE  /\ LE(w.index) \in Seq(Octets) /\ Len(LE(w.index)) = WordBytes
         /\ LE(w.validator) \in Seq(Octets)
         /\ Len(LE(w.validator)) = WordBytes
         /\ w.address \in Seq(Octets) /\ Len(w.address) = AddressBytes
         /\ LE(w.amount) \in Seq(Octets) /\ Len(LE(w.amount)) = WordBytes
  BY LESeq, AddressSeq DEF Withdrawals

\* A marshalled withdrawal is SizeSSZ octets long.
LEMMA EncSeq ==
  ASSUME NEW w \in Withdrawals
  PROVE  /\ Enc(w) \in Seq(Octets) /\ Len(Enc(w)) = SizeSSZ
         /\ SubSeq(Enc(w), 1, WordBytes) = LE(w.index)
         /\ SubSeq(Enc(w), WordBytes + 1, 2 * WordBytes) = LE(w.validator)
         /\ SubSeq(Enc(w), 2 * WordBytes + 1, 2 * WordBytes + AddressBytes)
              = w.address
         /\ SubSeq(Enc(w), 2 * WordBytes + AddressBytes + 1, SizeSSZ)
              = LE(w.amount)
<1> DEFINE a == LE(w.index)
           b == LE(w.validator)
           c == w.address
           d == LE(w.amount)
<1>1. /\ a \in Seq(Octets) /\ b \in Seq(Octets)
      /\ c \in Seq(Octets) /\ d \in Seq(Octets)
      /\ Len(a) = WordBytes /\ Len(b) = WordBytes
      /\ Len(c) = AddressBytes /\ Len(d) = WordBytes
  BY FieldSeqs
<1>2. FieldsAt(a, b, c, d)
  BY <1>1, Layout
<1>3. Enc(w) = ((a \o b) \o c) \o d
  BY EncShape
<1>4. QED
  BY <1>2, <1>3 DEF FieldsAt, SizeSSZ

\* UnmarshalSSZ reads every field of a marshalled withdrawal back from the
\* offsets MarshalSSZTo wrote it to, provided the uint64 codec reads back
\* its own words.
LEMMA DecodeEncode ==
  ASSUME Uint64Codec, NEW w \in Withdrawals
  PROVE  UnmarshalFields(Enc(w)) = w
<1>1. /\ SubSeq(Enc(w), 1, WordBytes) = LE(w.index)
      /\ SubSeq(Enc(w), WordBytes + 1, 2 * WordBytes) = LE(w.validator)
      /\ SubSeq(Enc(w), 2 * WordBytes + 1, 2 * WordBytes + AddressBytes)
           = w.address
      /\ SubSeq(Enc(w), 2 * WordBytes + AddressBytes + 1, SizeSSZ)
           = LE(w.amount)
  BY EncSeq
<1>2. /\ UnmarshallUint64(LE(w.index)) = w.index
      /\ UnmarshallUint64(LE(w.validator)) = w.validator
      /\ UnmarshallUint64(LE(w.amount)) = w.amount
  BY MarshalEmpty DEF Uint64Codec, Withdrawals
<1>3. QED
  BY <1>1, <1>2 DEF UnmarshalFields, Withdrawals

-----------------------------------------------------------------------------
(* The round trip.                                                         *)

(***************************************************************************)
(* RoundTrip is not inductive: a step of UnmarshalSSZ that succeeds must   *)
(* know that a wire of SizeSSZ bytes is exactly what the sender           *)
(* marshalled.  The wire is always a prefix of that encoding: MarshalSSZ   *)
(* writes all of it, and a truncation only shortens it.                    *)
(***************************************************************************)
WireIsPrefix ==
  /\ wire \in Seq(Octets)
  /\ Len(wire) <= SizeSSZ
  /\ wire = SubSeq(Enc(sent), 1, Len(wire))

IInv ==
  /\ sent \in Withdrawals
  /\ WireIsPrefix
  /\ RoundTrip


\* Dropping the last byte of a prefix leaves the one-shorter prefix.
LEMMA PrefixOfPrefix ==
  ASSUME NEW s, NEW n \in Nat \ {0}
  PROVE  SubSeq(SubSeq(s, 1, n), 1, n - 1) = SubSeq(s, 1, n - 1)
  OBVIOUS

\* A prefix of a sequence of octets is a sequence of octets.
LEMMA OctPrefix ==
  ASSUME NEW s \in Seq(Octets), NEW n \in 0..Len(s)
  PROVE  SubSeq(s, 1, n) \in Seq(Octets) /\ Len(SubSeq(s, 1, n)) = n
  BY SubSeqProperties

LEMMA InitIInv == Init => IInv
<1> SUFFICES ASSUME Init PROVE IInv
  OBVIOUS
<1>1. Enc(sent) \in Seq(Octets)
  BY EncSeq DEF Init
<1>2. SubSeq(Enc(sent), 1, 0) = <<>>
  BY SubSeqEmpty
<1>3. QED
  BY <1>1, <1>2, EmptySeq, Widths DEF Init, IInv, WireIsPrefix, RoundTrip,
                                     SizeSSZ

\* MarshalSSZ puts the whole encoding on the wire.
LEMMA MarshalIInv == IInv /\ MarshalSSZ => IInv'
<1> SUFFICES ASSUME IInv, MarshalSSZ PROVE IInv'
  OBVIOUS
<1>1. Enc(sent) \in Seq(Octets) /\ Len(Enc(sent)) = SizeSSZ
  BY EncSeq DEF IInv
<1>2. SubSeq(Enc(sent), 1, SizeSSZ) = Enc(sent)
  BY <1>1, OctSubFull
<1>3. QED
  BY <1>1, <1>2 DEF MarshalSSZ, Enc, IInv, WireIsPrefix, RoundTrip

\* A truncation keeps the wire a prefix of the encoding.
LEMMA TruncateIInv == IInv /\ Truncate => IInv'
<1> SUFFICES ASSUME IInv, Truncate PROVE IInv'
  OBVIOUS
<1> DEFINE n == Len(wire)
<1>1. wire \in Seq(Octets) /\ n \in Nat \ {0}
  BY EmptySeq DEF IInv, WireIsPrefix, Truncate
<1>2. wire' = SubSeq(wire, 1, n - 1) /\ UNCHANGED <<sent, recv, err>>
  BY DEF Truncate
<1>3. wire' \in Seq(Octets) /\ Len(wire') = n - 1
  <2>1. n - 1 \in 0..Len(wire)
    BY <1>1
  <2>2. QED
    BY <1>1, <1>2, <2>1, OctPrefix
<1>4. wire' = SubSeq(Enc(sent'), 1, n - 1)
  <2>1. wire = SubSeq(Enc(sent), 1, n)
    BY DEF IInv, WireIsPrefix
  <2>2. QED
    BY <1>1, <1>2, <2>1, PrefixOfPrefix
<1>5. n <= SizeSSZ
  BY DEF IInv, WireIsPrefix
<1>6. Len(wire') <= SizeSSZ
  BY <1>1, <1>3, <1>5, Widths DEF SizeSSZ
<1>7. QED
  BY <1>2, <1>3, <1>4, <1>6 DEF IInv, WireIsPrefix, RoundTrip

\* UnmarshalSSZ that passes the size check reads the whole encoding.
LEMMA UnmarshalIInv == Uint64Codec /\ IInv /\ UnmarshalSSZ => IInv'
<1> SUFFICES ASSUME Uint64Codec, IInv, UnmarshalSSZ PROVE IInv'
  OBVIOUS
<1>1. CASE Len(wire) # SizeSSZ
  BY <1>1 DEF UnmarshalSSZ, IInv, WireIsPrefix, RoundTrip
<1>2. CASE Len(wire) = SizeSSZ
  <2>1. wire = Enc(sent)
    <3>1. Enc(sent) \in Seq(Octets) /\ Len(Enc(sent)) = SizeSSZ
      BY EncSeq DEF IInv
    <3>2. QED
      BY <1>2, <3>1, OctSubFull DEF IInv, WireIsPrefix
  <2>2. UnmarshalFields(wire) = sent
    BY <2>1, DecodeEncode DEF IInv
  <2>3. QED
    BY <1>2, <2>2 DEF UnmarshalSSZ, IInv, WireIsPrefix, RoundTrip
<1>3. QED
  BY <1>1, <1>2

LEMMA NextIInv == Uint64Codec /\ IInv /\ [Next]_vars => IInv'
  BY MarshalIInv, TruncateIInv, UnmarshalIInv
  DEF Next, vars, IInv, WireIsPrefix, RoundTrip

\* Round trip, for every byte radix and every width of the words and the
\* address: whenever UnmarshalSSZ last succeeded -- after any number of
\* marshals, truncations and refused reads -- the receiver's Withdrawal is
\* the sender's, each field read from the offsets MarshalSSZTo wrote it
\* to, provided fastssz's uint64 codec reads back its own words.
THEOREM RoundTripHolds == Uint64Codec => (Spec => []RoundTrip)
<1> SUFFICES ASSUME Uint64Codec PROVE Spec => []RoundTrip
  OBVIOUS
<1>1. IInv => RoundTrip
  BY DEF IInv
<1>2. QED
  BY InitIInv, NextIInv, <1>1, PTL DEF Spec

====
