------------------------------ MODULE CPUState ------------------------------
(***************************************************************************)
(* CPUState (src/cpu_state.cpp): the stack, the operand accesses through   *)
(* the addressing modes, and the branch conditions.  The order of memory   *)
(* accesses and register updates is the code's: it decides what is already *)
(* changed when an access throws.                                          *)
(***************************************************************************)
EXTENDS Memory

CONSTANT IndexField   \* upper byte of an index extension word -> register, size

ASSUME IndexFieldAssumption ==
  IndexField \in [ByteVal -> [reg : 0 .. 15, size : {SIZE_WORD, SIZE_LONG}]]

stackPop(s, size) ==
  LET sp == get(s, REG_USP, SIZE_LONG)
      r  == MemGet(s, sp, size)
  IN  Result(set(r.st, REG_USP, SIZE_LONG, sp + size), r.val)

stackPush(s, size, data) ==
  LET sp == get(s, REG_USP, SIZE_LONG) - size
  IN  MemSet(set(s, REG_USP, SIZE_LONG, sp), MASK(sp, SIZE_LONG), size, data)

(* Bytes of extension that follow the opcode word.                         *)
ExtensionSize(mode, size) ==
  CASE mode \in {DISPLACEMENT, INDEX, PC_DISPLACEMENT, PC_INDEX, ABS_WORD} ->
         SIZE_WORD
    [] mode = ABS_LONG -> SIZE_LONG
    [] mode = IMMEDIATE -> IF size = SIZE_LONG THEN SIZE_LONG ELSE SIZE_WORD
    [] OTHER -> 0

(* Reading the extension, without and with moving the program counter.     *)
Peek(s, n) == IF n = 0 THEN Result(s, 0) ELSE MemGet(s, PC(s), n)

Consume(s, n, r) == IF n = 0 THEN r ELSE Result(SetPC(r.st, PC(s) + n), r.val)

(* Faulty variant of Fetch: a long extension moves the counter by a word.  *)
FetchWordOnly(s, n) ==
  IF n = 0 THEN Peek(s, n) ELSE Consume(s, SIZE_WORD, Peek(s, n))

Fetch(s, n) == Consume(s, n, Peek(s, n))

(* Faulty variant of Stride: A7 is not kept even.                          *)
StrideBySize(r, size) == size

(* The step of postincrement and predecrement: a byte moves A7 by two.     *)
Stride(r, size) == IF r = REG_A7 /\ size = SIZE_BYTE THEN 2 ELSE size

(* An index register plus the 8-bit displacement of the extension word.    *)
IndexOffset(s, ext) ==
  LET f == IndexField[(ext \div Byte) % Byte]
  IN  SignExtend(get(s, f.reg, f.size), f.size) + SignExtend(ext, SIZE_BYTE)

(* The operand address, from the state before the extension was fetched.   *)
Base(s, mode, r) ==
  CASE mode \in {PC_DISPLACEMENT, PC_INDEX} -> PC(s)
    [] mode \in {ABS_WORD, ABS_LONG} -> 0
    [] OTHER -> get(s, r, SIZE_LONG)

Offset(s, mode, r, size, ext) ==
  CASE mode = PREDECREMENT -> -Stride(r, size)
    [] mode \in {DISPLACEMENT, PC_DISPLACEMENT} -> SignExtend(ext, SIZE_WORD)
    [] mode \in {INDEX, PC_INDEX} -> IndexOffset(s, ext)
    [] mode \in {ABS_WORD, ABS_LONG} -> ext
    [] OTHER -> 0

EffectiveAddress(s, mode, r, size, ext) ==
  (Base(s, mode, r) + Offset(s, mode, r, size, ext)) % Long

(* getDataSilent and setData sign-extend an absolute word address, getData *)
(* and getControlAddress do not.                                           *)
SignedAbs(mode, ext) ==
  IF mode = ABS_WORD THEN SignExtend(ext, SIZE_WORD) ELSE ext

(* The register update of postincrement and predecrement.                  *)
Bump(s, mode, r, a, size) ==
  IF mode \in {POSTINCREMENT, PREDECREMENT}
  THEN set(s, r, SIZE_LONG, IF mode = POSTINCREMENT THEN a + Stride(r, size) ELSE a)
  ELSE s

Resolved(s, mode, r, e) ==
  Result(e.st, EffectiveAddress(s, mode, r, SIZE_LONG, e.val))

(* Absolute modes move the program counter before the read that may throw. *)
getControlAddress(s, mode, r) ==
  LET n == ExtensionSize(mode, SIZE_LONG)
  IN  CASE mode \in {ABS_WORD, ABS_LONG} -> MemGet(SetPC(s, PC(s) + n), PC(s), n)
        [] mode \in {INDIRECT, DISPLACEMENT, INDEX, PC_DISPLACEMENT, PC_INDEX} ->
             Resolved(s, mode, r, Fetch(s, n))
        [] OTHER -> Result(s, 0)

(* What a read gives, when e read the extension and d the memory operand.  *)
Accessed(s, mode, r, size, e, d) ==
  CASE mode \in {DIRECT_DATA, DIRECT_ADDR} -> Result(s, get(s, r, size))
    [] mode = IMMEDIATE -> Result(e.st, MASK(e.val, size))
    [] mode = UNKNOWN -> Result(s, 0)
    [] OTHER -> d

Bumped(d, mode, r, a, size) == Result(Bump(d.st, mode, r, a, size), d.val)

Loaded(t, mode, r, a, size) == Bumped(MemGet(t, a, size), mode, r, a, size)

getDataWith(s, mode, r, size, e) ==
  Accessed(s, mode, r, size, e,
           Loaded(e.st, mode, r, EffectiveAddress(s, mode, r, size, e.val), size))

getData(s, mode, r, size) ==
  getDataWith(s, mode, r, size, Fetch(s, ExtensionSize(mode, size)))

(* Faulty variant of getDataSilent: predecrement reads in place.           *)
getDataSilentInPlace(s, mode, r, size) ==
  getData(s, IF mode = PREDECREMENT THEN INDIRECT ELSE mode, r, size)

SignedAddress(s, mode, r, size, e) ==
  EffectiveAddress(s, mode, r, size, SignedAbs(mode, e.val))

getDataSilentWith(s, mode, r, size, e) ==
  Accessed(s, mode, r, size, e,
           MemGet(e.st, SignedAddress(s, mode, r, size, e), size))

getDataSilent(s, mode, r, size) ==
  getDataSilentWith(s, mode, r, size, Peek(s, ExtensionSize(mode, size)))

(* Where setData stores, when p read the extension and a is the address.   *)
(* An absolute word destination is written before the program counter      *)
(* moves, every other destination after.                                   *)
StoreAt(s, mode, r, size, data, p, a) ==
  LET n == ExtensionSize(mode, size)
  IN  CASE mode \in {DIRECT_DATA, DIRECT_ADDR} -> set(s, r, size, data)
        [] mode \in {PC_DISPLACEMENT, PC_INDEX, IMMEDIATE, UNKNOWN} -> s
        [] mode = ABS_WORD -> SetPC(MemSet(p.st, a, size, data), PC(s) + n)
        [] OTHER -> Bump(MemSet(Consume(s, n, p).st, a, size, data), mode, r, a, size)

setDataWith(s, mode, r, size, data, p) ==
  StoreAt(s, mode, r, size, data, p, SignedAddress(s, mode, r, size, p))

setData(s, mode, r, size, data) ==
  setDataWith(s, mode, r, size, data, Peek(s, ExtensionSize(mode, size)))

(* enum Condition, by its number.                                          *)
checkCondition(s, cond) ==
  LET n == s.ccr.N  z == s.ccr.Z  v == s.ccr.V  c == s.ccr.C
  IN  CASE cond = 0  -> TRUE          [] cond = 1  -> FALSE
        [] cond = 2  -> ~c /\ ~z      [] cond = 3  -> c \/ z
        [] cond = 4  -> ~c            [] cond = 5  -> c
        [] cond = 6  -> ~z            [] cond = 7  -> z
        [] cond = 8  -> ~v            [] cond = 9  -> v
        [] cond = 10 -> ~n            [] cond = 11 -> n
        [] cond = 12 -> n = v         [] cond = 13 -> n # v
        [] cond = 14 -> n = v /\ ~z   [] cond = 15 -> n # v \/ z
=============================================================================
