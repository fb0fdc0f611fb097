-------------------------------- MODULE Bits --------------------------------
(* Bit operations: src/base/bitop.hpp.  Numbers have a width in bits; TLC    *)
(* checks them at 8 and 16 bits in place of 32 and 64.                       *)
EXTENDS Integers, Sequences, SequencesExt, FiniteSetsExt, Bitwise

\* ~mask in the given number of bits
Aligned(bits, val, alignment) == (val % 2^bits) & (2^bits - alignment)

\* (mutant of alignUp: goes to the next multiple from a multiple, too)
alignUpStrictly(bits, val, alignment) == Aligned(bits, val + alignment, alignment)

alignUp(bits, val, alignment) == Aligned(bits, val + (alignment - 1), alignment)

\* the overload for uint16_t casts to uint8_t
alignUp16(val, alignment) == alignUp(8, val, alignment)

isPow2(val) == val # 0 /\ ((val - 1) & val) = 0

Smear(val, shift) == val | (val \div 2^shift)

\* (mutant of nextPow2: a power of two is not its own next one)
nextPow2After(bits, val) ==
  (FoldLeft(Smear, val, SelectSeq(<<1, 2, 4, 8, 16>>, LAMBDA s : s < bits)) + 1) % 2^bits

nextPow2(bits, val) ==
  (FoldLeft(Smear, (val - 1) % 2^bits, SelectSeq(<<1, 2, 4, 8, 16>>, LAMBDA s : s < bits)) + 1)
    % 2^bits

-----------------------------------------------------------------------------
(* What they find *)

LeastMultiple(val, alignment) == Min({m \in val..(val + alignment) : m % alignment = 0})

\* alignUp() of 8, 32 and 64 bits finds the least multiple of the alignment that
\* is not below the value, and 0 if that needs one more bit; that of 16 bits does
\* so only for multiples of less than 8 bits.
AlignsUp(val, alignment) ==
  /\ val < 256 => alignUp(8, val, alignment) = LeastMultiple(val, alignment) % 256
  /\ alignUp(16, val, alignment) = LeastMultiple(val, alignment)
  /\ alignUp16(val, alignment) = LeastMultiple(val, alignment) <=> LeastMultiple(val, alignment) < 256

\* isPow2() knows the powers of two, and nextPow2() finds the least one that is
\* not below the value, or 0 if that needs one more bit.
FindsPowersOfTwo(val) ==
  /\ isPow2(val) <=> \E k \in 0..7 : val = 2^k
  /\ nextPow2(8, val) = Min({2^k : k \in {n \in 0..8 : 2^n >= val}}) % 256
=============================================================================
