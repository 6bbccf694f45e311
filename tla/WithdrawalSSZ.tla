---------------------------- MODULE WithdrawalSSZ ----------------------------
(***************************************************************************)
(* The SSZ codec of an execution-layer Withdrawal (withdrawal.ssz.go, made *)
(* by fastssz): MarshalSSZTo appends Index, Validator, Address and Amount, *)
(* each uint64 as WordBytes little-endian bytes and the address as its    *)
(* AddressBytes bytes; UnmarshalSSZ refuses a buffer whose length is not  *)
(* SizeSSZ and otherwise reads the four fields back from fixed offsets.    *)
(* Bytes are digits of base Radix (256 in the code, 8 and 20 for the      *)
(* widths); smaller values here keep the set of withdrawals enumerable.   *)
(*                                                                         *)
(* The state is a sender's withdrawal, the wire, and a receiver's          *)
(* Withdrawal struct; the wire can be cut short before it is read.         *)
(* HashTreeRoot (Merkleization) is not modelled.                          *)
(***************************************************************************)
EXTENDS Naturals, Sequences, SequencesExt

CONSTANTS
  Radix,         \* values of a byte
  WordBytes,     \* bytes of a uint64
  AddressBytes   \* bytes of an ExecutionAddress

ASSUME WithdrawalSSZAssumption ==
  /\ Radix \in Nat \ {0, 1}
  /\ WordBytes \in Nat \ {0}
  /\ AddressBytes \in Nat \ {0}

VARIABLES
  sent,   \* the withdrawal the sender marshals
  wire,   \* the bytes on the wire
  recv,   \* the receiver's Withdrawal struct
  err     \* the last UnmarshalSSZ's result: "unset" before the first

vars == <<sent, wire, recv, err>>

Bytes == 0..(Radix - 1)
Words == 0..(Radix^WordBytes - 1)
Withdrawals == [index : Words, validator : Words,
                address : [1..AddressBytes -> Bytes], amount : Words]
ZeroWithdrawal == [index |-> 0, validator |-> 0,
                   address |-> [i \in 1..AddressBytes |-> 0], amount |-> 0]

TypeOK ==
  /\ sent \in Withdrawals
  /\ wire \in Seq(Bytes)
  /\ recv \in Withdrawals
  /\ err \in {"unset", "none", "ErrSize"}

-----------------------------------------------------------------------------
(* The codec.                                                              *)

\* ssz.MarshalUint64: v appended as WordBytes little-endian bytes.
MarshalUint64(dst, v) ==
  dst \o [i \in 1..WordBytes |-> (v \div Radix^(i - 1)) % Radix]

\* ssz.UnmarshallUint64: the little-endian bytes b read back.
UnmarshallUint64(b) == FoldRight(LAMBDA d, acc : d + Radix * acc, b, 0)

\* SizeSSZ: the fixed encoded size (44 in the code).
SizeSSZ == 3 * WordBytes + AddressBytes

\* MarshalSSZTo: the four fields appended to buf in declaration order.
MarshalSSZTo(buf, w) ==
  MarshalUint64(MarshalUint64(MarshalUint64(buf, w.index), w.validator)
                  \o w.address,
                w.amount)

\* Faulty variant: the address read one byte early.
UnmarshalFieldsShifted(buf) ==
  [index     |-> UnmarshallUint64(SubSeq(buf, 1, WordBytes)),
   validator |-> UnmarshallUint64(SubSeq(buf, WordBytes + 1, 2 * WordBytes)),
   address   |-> SubSeq(buf, 2 * WordBytes, 2 * WordBytes + AddressBytes - 1),
   amount    |-> UnmarshallUint64(SubSeq(buf, 2 * WordBytes + AddressBytes + 1,
                                         SizeSSZ))]

\* UnmarshalSSZ past the size check: the fields at their fixed offsets
\* (buf[0:8], buf[8:16], buf[16:36], buf[36:44] in the code).
UnmarshalFields(buf) ==
  [index     |-> UnmarshallUint64(SubSeq(buf, 1, WordBytes)),
   validator |-> UnmarshallUint64(SubSeq(buf, WordBytes + 1, 2 * WordBytes)),
   address   |-> SubSeq(buf, 2 * WordBytes + 1, 2 * WordBytes + AddressBytes),
   amount    |-> UnmarshallUint64(SubSeq(buf, 2 * WordBytes + AddressBytes + 1,
                                         SizeSSZ))]

-----------------------------------------------------------------------------
(* Sender, wire and receiver.                                              *)

\* MarshalSSZ: MarshalSSZTo on an empty buffer.
MarshalSSZ ==
  /\ wire' = MarshalSSZTo(<<>>, sent)
  /\ UNCHANGED <<sent, recv, err>>

\* The wire loses its last byte (a short read upstream).
Truncate ==
  /\ wire # <<>>
  /\ wire' = SubSeq(wire, 1, Len(wire) - 1)
  /\ UNCHANGED <<sent, recv, err>>

\* UnmarshalSSZ into the receiver's struct: ErrSize, struct untouched, on a
\* buffer of the wrong length.
UnmarshalSSZ ==
  \/ /\ Len(wire) # SizeSSZ
     /\ err' = "ErrSize"
     /\ UNCHANGED <<sent, wire, recv>>
  \/ /\ Len(wire) = SizeSSZ
     /\ recv' = UnmarshalFields(wire)
     /\ err' = "none"
     /\ UNCHANGED <<sent, wire>>

Init ==
  /\ sent \in Withdrawals
  /\ wire = <<>>
  /\ recv = ZeroWithdrawal
  /\ err = "unset"

Next == MarshalSSZ \/ Truncate \/ UnmarshalSSZ

Spec == Init /\ [][Next]_vars

-----------------------------------------------------------------------------
(* Properties.                                                             *)

\* Round trip: whenever UnmarshalSSZ last succeeded on what the sender
\* marshalled -- possibly cut short and refused in between -- the receiver
\* holds exactly the sender's withdrawal: each field read at its own
\* offset, in the byte order it was written.
RoundTrip == err = "none" => recv = sent

\* The uint64 codec of fastssz reads back every word it writes: ssz.
\* UnmarshallUint64 of the WordBytes little-endian bytes ssz.MarshalUint64
\* appends for v is v again, for every v a uint64 can hold.  The field
\* layout of MarshalSSZTo and UnmarshalSSZ rests on it.
Uint64Codec ==
  \A v \in Words : UnmarshallUint64(MarshalUint64(<<>>, v)) = v

\* fastssz is not part of this repository: its contract is assumed, and
\* TLC evaluates the assumption for every word of the instance it runs.
ASSUME Uint64CodecAssumption == Uint64Codec

=============================================================================
