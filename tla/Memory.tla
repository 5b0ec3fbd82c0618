------------------------------- MODULE Memory -------------------------------
(***************************************************************************)
(* BaseMemory (src/memory.cpp): checked big-endian access to the bytes.    *)
(***************************************************************************)
EXTENDS Registers

(* The byte of a long that has k less significant bytes after it.          *)
ByteOf(v, k) ==
  LET unit == IF k = 0 THEN 1 ELSE IF k = 1 THEN Byte
              ELSE IF k = 2 THEN Word ELSE AddrSpace
  IN  (v \div unit) % Byte

read_real_mem(m, a, size) ==
  IF size = SIZE_BYTE THEN m[a]
  ELSE IF size = SIZE_WORD THEN m[a] * Byte + m[a + 1]
  ELSE ((m[a] * Byte + m[a + 1]) * Byte + m[a + 2]) * Byte + m[a + 3]

(* Faulty variant of write_real_mem: the bytes are not swapped.            *)
write_real_mem_little(m, a, size, data) ==
  [b \in Address |-> IF b \in a .. a + size - 1 THEN ByteOf(data, b - a) ELSE m[b]]

write_real_mem(m, a, size, data) ==
  [b \in Address |->
     IF b \in a .. a + size - 1 THEN ByteOf(data, a + size - 1 - b) ELSE m[b]]

(* The exception an access raises, "none" if it goes through: alignment is *)
(* tested before the range, both on the masked address.                    *)
AccessError(address, size) ==
  LET a == MASK_ADDR(address)
  IN  IF size # SIZE_BYTE /\ a % 2 # 0 THEN "length_error"
      ELSE IF a + size > MemSize THEN "out_of_range"
      ELSE "none"

(* A read gives the state after it and the value.                          *)
Result(s, v) == [st |-> s, val |-> v]

MemGet(s, address, size) ==
  LET e == AccessError(address, size)
  IN  IF ~Ok(s) THEN Result(s, 0)
      ELSE IF e # "none" THEN Result(Throw(s, e), 0)
      ELSE Result(s, read_real_mem(s.mem, MASK_ADDR(address), size))

(* Faulty variant of MemSet: the bytes that fit are written, then it throws.*)
MemSetPartial(s, address, size, data) ==
  IF ~Ok(s) THEN s
  ELSE [s EXCEPT !.exc = AccessError(address, size),
                 !.mem = write_real_mem(s.mem, MASK_ADDR(address), size, data)]

MemSet(s, address, size, data) ==
  LET e == AccessError(address, size)
  IN  IF ~Ok(s) THEN s
      ELSE IF e # "none" THEN Throw(s, e)
      ELSE [s EXCEPT !.mem =
              write_real_mem(s.mem, MASK_ADDR(address), size, data)]
=============================================================================
