----------------------------- MODULE Registers -----------------------------
(***************************************************************************)
(* The machine record and its register file (include/registers.hpp,        *)
(* src/registers.cpp).                                                     *)
(*                                                                         *)
(*   reg  the array reg_buffer, indexed by enum RegisterType               *)
(*   ccr  the five condition codes of the status register                  *)
(*   sup  its supervisor bit, which selects the stack pointer bank         *)
(*   mem  the bytes behind baseAddr                                        *)
(*   exc  the exception the last step() ended with, "none" if it returned  *)
(*                                                                         *)
(* The remaining bits of the status register (trace, interrupt mask) are   *)
(* neither read nor written by any instruction and are left out.           *)
(*                                                                         *)
(* Every state transformer is the identity once exc is set: a C++ throw    *)
(* skips all the statements that follow it up to the caller of step().     *)
(***************************************************************************)
EXTENDS Helpers

CONSTANT MemSize      \* memSize: bytes of memory behind the machine

ASSUME MemSizeAssumption == MemSize \in 1 .. AddrSpace

RegisterType == 0 .. 17

CCR == [X : BOOLEAN, N : BOOLEAN, Z : BOOLEAN, V : BOOLEAN, C : BOOLEAN]

Exceptions ==
  { "length_error",      \* odd address of a word or long
    "out_of_range",      \* past the end of memory
    "invalid_argument",  \* Illegal::execute
    "fatal" }            \* the host process dies (integer division by zero)

Address == 0 .. MemSize - 1

Machine ==
  [ reg : [RegisterType -> LongVal],
    ccr : CCR,
    sup : BOOLEAN,
    mem : [Address -> ByteVal],
    exc : Exceptions \cup {"none"} ]

Ok(s) == s.exc = "none"

Throw(s, e) == IF Ok(s) THEN [s EXCEPT !.exc = e] ELSE s

(* Faulty variant of Bank: the supervisor bit is ignored.                  *)
BankIgnoresMode(s, r) == r

(* Register number 15 names the active stack pointer.                      *)
Bank(s, r) == IF r = REG_A7 /\ s.sup THEN REG_SSP ELSE r

(* The stack pointer that no register number reaches in this mode.         *)
BankedOut(s) == IF s.sup THEN REG_USP ELSE REG_SSP

get(s, r, size) == MASK(s.reg[Bank(s, r)], size)

(* Faulty variant of Merge: the operand is not masked to its size.         *)
MergeUnmasked(old, size, data) == (old \div Modulus(size)) * Modulus(size) + data

(* Byte and word writes keep the upper part of the register.               *)
Merge(old, size, data) ==
  (old \div Modulus(size)) * Modulus(size) + MASK(data, size)

set(s, r, size, data) ==
  LET b == Bank(s, r)
      v == Merge(s.reg[b], size, data)
  IN  IF Ok(s) THEN [s EXCEPT !.reg = [s.reg EXCEPT ![b] = v]] ELSE s

PC(s) == get(s, REG_PC, SIZE_LONG)

SetPC(s, data) == set(s, REG_PC, SIZE_LONG, data)

(* set(StatusRegisterFlag, bool) for the condition codes, all at once.     *)
SetFlags(s, ccr) == IF Ok(s) THEN [s EXCEPT !.ccr = ccr] ELSE s

(* set(SR_FLAG_SUPERVISOR, value)                                          *)
SetSupervisor(s, value) == IF Ok(s) THEN [s EXCEPT !.sup = value] ELSE s
=============================================================================
