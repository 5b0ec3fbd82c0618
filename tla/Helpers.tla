------------------------------ MODULE Helpers ------------------------------
(***************************************************************************)
(* The value domain of the emulator and the flag arithmetic of             *)
(* include/helpers.hpp.                                                    *)
(*                                                                         *)
(* The machine is parameterised by the number of bits of a byte.  The code *)
(* is the instance Bits = 8 (Byte = 256, Word = 65536, Long = 2^32,        *)
(* AddrSpace = 2^24); TLC runs smaller bytes, the theorems hold for all.   *)
(***************************************************************************)
EXTENDS Defines

CONSTANTS
  Bits,   \* bits of a byte (8 in the code)
  Pow2    \* powers of two, as a function on 0 .. 8 * Bits

ASSUME BitsAssumption == Bits \in Nat \ {0}

ASSUME Pow2Assumption ==
  /\ Pow2 \in [0 .. 8 * Bits -> Nat \ {0}]
  /\ Pow2[0] = 1
  /\ \A k \in 0 .. 8 * Bits - 1 : Pow2[k + 1] = 2 * Pow2[k]

Byte == Pow2[Bits]
Word == Byte * Byte
Long == Word * Word
AddrSpace == Byte * Byte * Byte      \* MASK_ADDR keeps three of four bytes

ByteVal == 0 .. Byte - 1
WordVal == 0 .. Word - 1
LongVal == 0 .. Long - 1

Modulus(size) ==
  IF size = SIZE_BYTE THEN Byte ELSE IF size = SIZE_WORD THEN Word ELSE Long

(* MASK_8, MASK_16 and MASK_32 by size (not the unused template MASK).     *)
MASK(v, size) == v % Modulus(size)
MASK_ADDR(v) == v % AddrSpace

IS_NEGATIVE(v, size) == 2 * MASK(v, size) >= Modulus(size)
IS_ZERO(v, size) == MASK(v, size) = 0

(* The casts int8_t, int16_t, int32_t: the number the low part stands for. *)
Signed(v, size) ==
  MASK(v, size) - (IF IS_NEGATIVE(v, size) THEN Modulus(size) ELSE 0)

(* Such a cast, converted back to uint32_t.                                *)
SignExtend(v, size) == Signed(v, size) % Long

(* v is a 32-bit result widened to 64 bits, so no long ever carries.       *)
IS_CARRY(v, size) == v > MASK(v, size)

IS_OVERFLOW(a, b, size) ==
  /\ IS_NEGATIVE(a, size) = IS_NEGATIVE(b, size)
  /\ IS_NEGATIVE(a, size) # IS_NEGATIVE(a + b, size)
=============================================================================
