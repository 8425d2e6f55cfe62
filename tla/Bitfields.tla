------------------------------ MODULE Bitfields ------------------------------
(***************************************************************************)
(* src/bluesync_bitfields.c: which slots of a burst hold a timestamp, as   *)
(* an array of bytes.  A byte is the set of its bits that are 1.           *)
(***************************************************************************)
EXTENDS Integers

CONSTANTS
  SlotNumber,   \* SLOT_NUMBER
  ByteBits      \* 8 in the code

ASSUME BitsAssumption == SlotNumber \in Nat \ {0} /\ ByteBits \in Nat \ {0}

Slots == 0 .. SlotNumber - 1

(* NB_BYTES_BITFIELD *)
NbBytes == (SlotNumber + (ByteBits - 1)) \div ByteBits
Bitfield == [0 .. NbBytes - 1 -> SUBSET (0 .. ByteBits - 1)]
NoBits == [k \in 0 .. NbBytes - 1 |-> {}]

set_bit_any_byte(bitfield, i) ==
  [bitfield EXCEPT ![i \div ByteBits] = @ \cup {i}]
set_bit(bitfield, i) ==
  [bitfield EXCEPT ![i \div ByteBits] = @ \cup {i % ByteBits}]

is_bit_set(bitfield, i) == (i % ByteBits) \in bitfield[i \div ByteBits]

bitwise_or_bitfields(rcv, local) ==
  [k \in 0 .. NbBytes - 1 |-> rcv[k] \cup local[k]]
bitwise_and_bitfields(rcv, local) ==
  [k \in 0 .. NbBytes - 1 |-> rcv[k] \cap local[k]]
=============================================================================
