---------------------------- MODULE Instructions ----------------------------
(***************************************************************************)
(* The execute() of every instruction class (src/instructions).  Each maps *)
(* the machine before step()'s call to the machine after it; a class with  *)
(* undefined behaviour takes the outcome of it as the argument u.          *)
(***************************************************************************)
EXTENDS CPUState

CONSTANT LogicTable   \* the bitwise operators on single bytes

ASSUME LogicTableAssumption ==
  LogicTable \in [{"and", "or", "eor"} -> [ByteVal \X ByteVal -> ByteVal]]

(* What the decoder's table may hold.                                      *)
Instruction == InstructionsWith(ByteVal)

(* Outcomes of undefined behaviour, as far as the machine can tell them.   *)
Undefined == [C : BOOLEAN, N : BOOLEAN, Z : BOOLEAN]
-----------------------------------------------------------------------------
(* The opening of every execute(): the program counter passes the opcode.  *)
Begin(s) == SetPC(s, PC(s) + SIZE_WORD)

Source(s, i) == getData(Begin(s), i.src_mode, i.src_reg, i.data_size)

Immediate(s, i) == getData(Begin(s), IMMEDIATE, REG_D0, i.data_size)

Dest(s, i) == getDataSilent(s, i.dest_mode, i.dest_reg, i.data_size)

Store(s, i, v) == setData(s, i.dest_mode, i.dest_reg, i.data_size, v)

ArithFlags(src, dest, r, size) ==
  [ X |-> IS_CARRY(r, size), N |-> IS_NEGATIVE(r, size),
    Z |-> IS_ZERO(r, size), V |-> IS_OVERFLOW(src, dest, size),
    C |-> IS_CARRY(r, size) ]

(* cmp leaves the extend flag alone.                                       *)
CompareFlags(s, src, dest, r, size) ==
  [ArithFlags(src, dest, r, size) EXCEPT !.X = s.ccr.X]

(* Faulty variant of ExtendedFlags: the zero flag is that of one limb.     *)
ExtendedFlagsSetZero(s, src, dest, r, size) == ArithFlags(src, dest, r, size)

(* addx and subx clear the zero flag, they never set it.                   *)
ExtendedFlags(s, src, dest, r, size) ==
  [ArithFlags(src, dest, r, size) EXCEPT !.Z = s.ccr.Z /\ IS_ZERO(r, size)]

LogicFlags(s, r, size) ==
  [ X |-> s.ccr.X, N |-> IS_NEGATIVE(r, size), Z |-> IS_ZERO(r, size),
    V |-> FALSE, C |-> FALSE ]

Bitwise(op, a, b) ==
  LET f(k) == LogicTable[op][<<ByteOf(a, k), ByteOf(b, k)>>]
  IN  ((f(3) * Byte + f(2)) * Byte + f(1)) * Byte + f(0)

(***************************************************************************)
(* Most instructions read a source a, then silently their destination.     *)
(* From there on o has the state after both reads (st) and the two values  *)
(* (src and val).                                                          *)
(***************************************************************************)
Pair(a, d) == [st |-> d.st, src |-> a.val, val |-> d.val]

ReadBoth(a, i) == Pair(a, Dest(a.st, i))

FromSource(s, i) == ReadBoth(Source(s, i), i)
FromImmediate(s, i) == ReadBoth(Immediate(s, i), i)
FromOpcode(s, i) == ReadBoth(Result(Begin(s), i.imm), i)

(* Store a result, then set the flags that describe it.                    *)
Arith(o, i, r) ==
  SetFlags(Store(o.st, i, r), ArithFlags(o.src, o.val, r, i.data_size))

Describe(t, i, r) == SetFlags(t, LogicFlags(t, r, i.data_size))

Logic(o, i, r) == Describe(Store(o.st, i, r), i, r)
-----------------------------------------------------------------------------
(* Addition and subtraction: 32-bit unsigned, so the result wraps at Long. *)
Sum(o) == (o.src + o.val) % Long
Difference(o) == (o.val - o.src) % Long

AddTo(o, i) == Arith(o, i, Sum(o))
SubtractFrom(o, i) == Arith(o, i, Difference(o))

AddExecute(s, i) == AddTo(FromSource(s, i), i)
SubExecute(s, i) == SubtractFrom(FromSource(s, i), i)
AddiExecute(s, i) == AddTo(FromImmediate(s, i), i)
SubiExecute(s, i) == SubtractFrom(FromImmediate(s, i), i)

(* No flags, and only the low word of a word-sized sum is written.         *)
AddToAddress(o, i) == Store(o.st, i, Sum(o))
SubtractFromAddress(o, i) == Store(o.st, i, Difference(o))

AddaExecute(s, i) == AddToAddress(FromSource(s, i), i)
SubaExecute(s, i) == SubtractFromAddress(FromSource(s, i), i)

AddqExecute(s, i) ==
  IF i.dest_mode = DIRECT_ADDR THEN AddToAddress(FromOpcode(s, i), i)
  ELSE AddTo(FromOpcode(s, i), i)

SubqExecute(s, i) ==
  IF i.dest_mode = DIRECT_ADDR THEN SubtractFromAddress(FromOpcode(s, i), i)
  ELSE SubtractFrom(FromOpcode(s, i), i)

Extend(s) == IF s.ccr.X THEN 1 ELSE 0

ExtendedArith(s, o, i, r) ==
  SetFlags(Store(o.st, i, r), ExtendedFlags(s, o.src, o.val, r, i.data_size))

AddExtended(s, o, i) == ExtendedArith(s, o, i, (o.src + o.val + Extend(s)) % Long)
SubtractExtended(s, o, i) == ExtendedArith(s, o, i, (o.val - o.src - Extend(s)) % Long)

AddxExecute(s, i) == AddExtended(s, FromSource(s, i), i)
SubxExecute(s, i) == SubtractExtended(s, FromSource(s, i), i)

Negate(o, i) == Arith(o, i, (o.src - o.val) % Long)

NegExecute(s, i) == Negate(ReadBoth(Result(Begin(s), 0), i), i)
-----------------------------------------------------------------------------
(* Faulty variant of Compare: the flags are set before the operand is read.*)
CompareFlagsFirst(a, i) ==
  getData(SetFlags(a.st, LogicFlags(a.st, a.val, i.data_size)),
          i.dest_mode, i.dest_reg, i.data_size).st

(* Faulty variant of Compared: the operands are subtracted the other way.  *)
ComparedSwapped(o, i) ==
  SetFlags(o.st, CompareFlags(o.st, o.src, o.val, (o.src - o.val) % Long, i.data_size))

Compared(o, i) ==
  SetFlags(o.st, CompareFlags(o.st, o.src, o.val, Difference(o), i.data_size))

(* Comparison reads its destination with getData: the address registers    *)
(* and the program counter move for it too.                                *)
Compare(a, i) ==
  Compared(Pair(a, getData(a.st, i.dest_mode, i.dest_reg, i.data_size)), i)

CmpExecute(s, i) == Compare(Source(s, i), i)
CmpiExecute(s, i) == Compare(Immediate(s, i), i)

(* A word for an address register is sign-extended.                        *)
Widened(a, size) ==
  Result(a.st, IF size = SIZE_WORD THEN SignExtend(a.val, SIZE_WORD) ELSE a.val)

CmpaExecute(s, i) == Compare(Widened(Source(s, i), i.data_size), i)

Test(a, i) == Describe(a.st, i, a.val)

TstExecute(s, i) == Test(Source(s, i), i)
-----------------------------------------------------------------------------
Combine(op, o, i) == Logic(o, i, Bitwise(op, o.src, o.val))

AndExecute(s, i) == Combine("and", FromSource(s, i), i)
OrExecute(s, i) == Combine("or", FromSource(s, i), i)
EorExecute(s, i) == Combine("eor", FromSource(s, i), i)
AndiExecute(s, i) == Combine("and", FromImmediate(s, i), i)
OriExecute(s, i) == Combine("or", FromImmediate(s, i), i)
EoriExecute(s, i) == Combine("eor", FromImmediate(s, i), i)

(* The bit is written back even by btst (kind 0).                          *)
ChangeBit(o, i) ==
  LET p   == Pow2[o.src % (i.data_size * Bits)]
      bit == (o.val \div p) % 2
      r   == CASE i.kind = 1 -> IF bit = 1 THEN o.val - p ELSE o.val + p
               [] i.kind = 2 -> o.val - bit * p
               [] i.kind = 3 -> o.val + (1 - bit) * p
               [] OTHER      -> o.val
  IN  SetFlags(Store(o.st, i, r % Long), [o.st.ccr EXCEPT !.Z = (bit = 0)])

BitManipExecute(s, i) == ChangeBit(FromSource(s, i), i)
-----------------------------------------------------------------------------
ClrExecute(s, i) == Describe(Store(Begin(s), i, 0), i, 0)

MoveqExecute(s, i) == Describe(Store(Begin(s), i, i.imm), i, i.imm)

StoreLong(t, i, v) == setData(t, i.dest_mode, i.dest_reg, SIZE_LONG, v)

(* movea widens a word, writes the whole register, sets no flag.           *)
MoveTo(a, i) ==
  IF i.dest_mode = DIRECT_ADDR
  THEN StoreLong(a.st, i, Widened(a, i.data_size).val)
  ELSE Describe(Store(a.st, i, a.val), i, a.val)

MoveExecute(s, i) == MoveTo(Source(s, i), i)

(* Both sizes extend the low byte.                                         *)
ExtendByte(b, i) == Logic(b, i, MASK(SignExtend(b.val, SIZE_BYTE), i.data_size))

ExtExecute(s, i) ==
  ExtendByte(getData(Begin(s), i.dest_mode, i.dest_reg,
                     IF i.data_size = SIZE_WORD THEN SIZE_BYTE ELSE SIZE_WORD), i)

(* The unsigned product is an int: one that overflows it is undefined, and *)
(* the compiler may take its sign for granted.                             *)
Multiply(o, i, u) ==
  LET r == (IF i.kind = 1
            THEN Signed(o.src, SIZE_WORD) * Signed(o.val, SIZE_WORD)
            ELSE o.src * o.val) % Long
      f == LogicFlags(o.st, r, SIZE_LONG)
  IN  SetFlags(StoreLong(o.st, i, r),
               [f EXCEPT !.N = IF i.kind = 1 THEN f.N ELSE f.N /\ u.N])

MulExecute(s, i, u) == Multiply(FromSource(s, i), i, u)

(* C++ division truncates towards zero.                                    *)
Quotient(a, b) ==
  LET abs(x) == IF x < 0 THEN -x ELSE x
      q == abs(a) \div abs(b)
  IN  IF (a < 0) = (b < 0) THEN q ELSE -q

(* Faulty variant of Divide: quotient and remainder change places.         *)
DivideSwapped(o, i, u) ==
  LET n == IF i.kind = 1 THEN Signed(o.val, SIZE_WORD) ELSE o.val
      m == IF i.kind = 1 THEN Signed(o.src, SIZE_WORD) ELSE o.src
      q == IF m = 0 THEN 0 ELSE Quotient(n, m)
  IN  IF m = 0 /\ u.C
      THEN Throw(o.st, "fatal")
      ELSE SetFlags(StoreLong(o.st, i, MASK(q, SIZE_WORD) * Word + MASK(n - q * m, SIZE_WORD)),
                    LogicFlags(o.st, q, SIZE_WORD))

(* A zero divisor is undefined: the host traps, or goes on with quotient 0.*)
Divide(o, i, u) ==
  LET n == IF i.kind = 1 THEN Signed(o.val, SIZE_WORD) ELSE o.val
      m == IF i.kind = 1 THEN Signed(o.src, SIZE_WORD) ELSE o.src
      q == IF m = 0 THEN 0 ELSE Quotient(n, m)
      r == MASK(n - q * m, SIZE_WORD) * Word + MASK(q, SIZE_WORD)
  IN  IF m = 0 /\ u.C
      THEN Throw(o.st, "fatal")
      ELSE SetFlags(StoreLong(o.st, i, r), LogicFlags(o.st, q, SIZE_WORD))

DivExecute(s, i, u) == Divide(FromSource(s, i), i, u)
-----------------------------------------------------------------------------
(***************************************************************************)
(* Shifts and rotates compute a result that is not stored: only the flags  *)
(* change, and getDataSilent consumes no extension word.  A shift count    *)
(* that C++ does not define for the 64-bit operand gives the outcome u.    *)
(***************************************************************************)
ShiftFlags(C, N, Z) == [C |-> C, N |-> N, Z |-> Z]

ResultFlags(C, r, size) == ShiftFlags(C, IS_NEGATIVE(r, size), IS_ZERO(r, size))

(* asl and lsl: the carry is the lowest bit of the shifted value.          *)
LeftShift(v, n, size) ==
  ResultFlags(n = 0 /\ v % 2 = 1,
              IF n < size * Bits THEN MASK(v * Pow2[n], size) ELSE 0, size)

(* asr fills the upper n bits of the 64-bit result with the sign.          *)
RightShift(v, n, size, signed, u) ==
  LET fill == IF signed /\ IS_NEGATIVE(v, size) /\ n + size * Bits > 8 * Bits
              THEN Modulus(size) - Pow2[8 * Bits - n] ELSE 0
  IN  ResultFlags(IF n = 0 THEN u.C ELSE (v \div Pow2[n - 1]) % 2 = 1,
                  (v \div Pow2[n]) + fill, size)

(* roxl and roxr rotate the operand and the carry; roxr drops the operand. *)
RotateExtend(v, n, size, left, carry, u) ==
  LET w   == size * Bits + 1
      m   == 2 * Modulus(size)
      c   == IF carry THEN Modulus(size) ELSE 0
      rot == IF left THEN (((v + c) * Pow2[n]) % m) + ((v + c) \div Pow2[w - n])
                     ELSE ((c * Pow2[w - n]) % m) + (c \div Pow2[n])
      k   == IF size = SIZE_BYTE THEN 1
             ELSE IF size = SIZE_WORD THEN Byte ELSE AddrSpace
  IN  IF n > w THEN u ELSE ResultFlags(rot \div k # 0, rot, size)

(* ROL and ROR return bool: the result is 1 for every operand but 0.       *)
Rotate(v, n, size, left, u) ==
  LET bool  == IF v = 0 THEN 0 ELSE 1
      carry == IF n > Bits + (IF left THEN 0 ELSE 1) THEN u.C
               ELSE IF left THEN v \div Pow2[Bits - n] # 0 ELSE v # 0
  IN  IF n > size * Bits THEN ShiftFlags(carry, FALSE, u.Z)
      ELSE ResultFlags(carry, bool, size)

Shift(s, d, i, u) ==
  LET n == IF i.src_mode = IMMEDIATE THEN i.imm
           ELSE get(d.st, i.src_reg, i.data_size) % (8 * Bits)
      f == CASE i.kind = 0 /\ ~i.left -> RightShift(d.val, n, i.data_size, TRUE, u)
             [] i.kind = 1 /\ ~i.left -> RightShift(d.val, n, i.data_size, FALSE, u)
             [] i.kind \in {0, 1} /\ i.left -> LeftShift(d.val, n, i.data_size)
             [] i.kind = 2 -> RotateExtend(d.val, n, i.data_size, i.left, s.ccr.C, u)
             [] OTHER -> Rotate(d.val, n, i.data_size, i.left, u)
  IN  SetFlags(d.st, [ X |-> IF i.kind = 3 THEN s.ccr.X ELSE f.C,
                       N |-> f.N, Z |-> f.Z, V |-> FALSE, C |-> f.C ])

BitShiftExecute(s, i, u) == Shift(s, Dest(Begin(s), i), i, u)
-----------------------------------------------------------------------------
NopExecute(s) == Begin(s)

IllegalExecute(s) == Throw(Begin(s), "invalid_argument")

JmpExecute(s, i) ==
  LET a == getControlAddress(Begin(s), i.dest_mode, i.dest_reg)
  IN  SetPC(a.st, a.val)

(* Faulty variant of JsrExecute: the return address is taken too early.    *)
JsrPushesEarly(s, i) ==
  LET a == getControlAddress(Begin(s), i.dest_mode, i.dest_reg)
  IN  SetPC(stackPush(a.st, SIZE_LONG, PC(Begin(s))), a.val)

(* The return address is read after the extension words are consumed.      *)
JsrExecute(s, i) ==
  LET a == getControlAddress(Begin(s), i.dest_mode, i.dest_reg)
  IN  SetPC(stackPush(a.st, SIZE_LONG, PC(a.st)), a.val)

(* The program counter does not move before the return address is popped.  *)
RtsExecute(s) ==
  LET r == stackPop(s, SIZE_LONG) IN SetPC(r.st, r.val)

Branch(e, i, pc) ==
  LET target == pc + SignExtend(e.val, i.data_size)
  IN  CASE i.kind = 0 -> SetPC(e.st, target)
        [] i.kind = 1 -> SetPC(stackPush(e.st, SIZE_LONG, pc), target)
        [] OTHER -> IF checkCondition(e.st, i.kind) THEN SetPC(e.st, target) ELSE e.st

(* The target is relative to the word after the opcode, and bsr pushes the *)
(* address of that word for every displacement size.                       *)
BccExecute(s, i) ==
  Branch(IF i.data_size = SIZE_BYTE THEN Result(Begin(s), i.imm) ELSE Immediate(s, i),
         i, MASK(PC(s) + SIZE_WORD, SIZE_LONG))

SccExecute(s, i) ==
  LET t == Begin(s)
  IN  setData(t, i.dest_mode, i.dest_reg, SIZE_BYTE,
              IF checkCondition(t, i.kind) THEN Byte - 1 ELSE 0)

LeaExecute(s, i) ==
  LET a == getControlAddress(Begin(s), i.src_mode, i.src_reg)
  IN  setData(a.st, DIRECT_ADDR, i.dest_reg, SIZE_LONG, a.val)

PeaExecute(s, i) ==
  LET a == getControlAddress(Begin(s), i.src_mode, i.src_reg)
  IN  stackPush(a.st, SIZE_LONG, a.val)

(* Faulty variants of LinkExecute: the displacement word is not skipped,   *)
(* or the frame pointer is loaded before it is saved.                      *)
LinkShort(s, i) ==
  LET e  == MemGet(s, PC(s) + SIZE_WORD, SIZE_WORD)
      t  == SetPC(e.st, PC(s) + SIZE_WORD)
      p  == stackPush(t, SIZE_LONG, get(t, i.dest_reg, SIZE_LONG))
      sp == get(p, REG_USP, SIZE_LONG)
  IN  set(set(p, i.dest_reg, SIZE_LONG, sp),
          REG_USP, SIZE_LONG, sp + SignExtend(e.val, SIZE_WORD))

LinkFrameFirst(s, i) ==
  LET e  == MemGet(s, PC(s) + SIZE_WORD, SIZE_WORD)
      t  == SetPC(e.st, PC(s) + 2 * SIZE_WORD)
      sp == get(t, REG_USP, SIZE_LONG) - SIZE_LONG
      p  == stackPush(set(t, i.dest_reg, SIZE_LONG, sp), SIZE_LONG, sp)
  IN  set(p, REG_USP, SIZE_LONG, sp + SignExtend(e.val, SIZE_WORD))

(* The displacement is read before the program counter moves at all.       *)
LinkExecute(s, i) ==
  LET e  == MemGet(s, PC(s) + SIZE_WORD, SIZE_WORD)
      t  == SetPC(e.st, PC(s) + 2 * SIZE_WORD)
      p  == stackPush(t, SIZE_LONG, get(t, i.dest_reg, SIZE_LONG))
      sp == get(p, REG_USP, SIZE_LONG)
  IN  set(set(p, i.dest_reg, SIZE_LONG, sp),
          REG_USP, SIZE_LONG, sp + SignExtend(e.val, SIZE_WORD))

UnlkExecute(s, i) ==
  LET t == Begin(s)
      r == stackPop(set(t, REG_USP, SIZE_LONG, get(t, i.dest_reg, SIZE_LONG)), SIZE_LONG)
  IN  set(r.st, i.dest_reg, SIZE_LONG, r.val)
=============================================================================
