----------------------------- MODULE CPUProofs -----------------------------
(***************************************************************************)
(* Every execute() is safe (StateProofs!Safe): it yields a machine, leaves *)
(* the banked-out stack pointer alone, and if it throws it has written     *)
(* nothing but pointer registers.  From that the theorems about the CPU's  *)
(* specification, for every byte width, memory size, opcode table and set  *)
(* of initial machines that the assumptions of the modules admit.          *)
(***************************************************************************)
EXTENDS CPU, StateProofs

(* What the table guarantees of an instruction's operands.                 *)
LEMMA Members ==
  ASSUME NEW i \in Instruction
  PROVE  /\ Operands(i.src_mode, i.src_reg, i.data_size)
         /\ Operands(i.dest_mode, i.dest_reg, i.data_size)
         /\ i.imm \in Int
         /\ i.data_size \in DataSize
<1>1. i \in InstructionRecord(ByteVal) /\ WellFormed(i)
  BY DEF Instruction, InstructionsWith
<1>2. i.imm \in ByteVal
  BY <1>1 DEF InstructionRecord
<1>3. ByteVal \subseteq Int
  BY Positive DEF ByteVal
<1> QED
  BY <1>1, <1>2, <1>3 DEF InstructionRecord, WellFormed, Operands

(* The tests of helpers.hpp are Booleans.                                  *)
LEMMA TestsBoolean ==
  ASSUME NEW v, NEW w, NEW size
  PROVE  /\ IS_NEGATIVE(v, size) \in BOOLEAN
         /\ IS_ZERO(v, size) \in BOOLEAN
         /\ IS_CARRY(v, size) \in BOOLEAN
         /\ IS_OVERFLOW(v, w, size) \in BOOLEAN
  BY DEF IS_NEGATIVE, IS_ZERO, IS_CARRY, IS_OVERFLOW

(* The flags of a machine are condition codes.                             *)
LEMMA FlagsInCCR ==
  ASSUME NEW s \in Machine, NEW a, NEW b, NEW r, NEW size
  PROVE  /\ ArithFlags(a, b, r, size) \in CCR
         /\ CompareFlags(s, a, b, r, size) \in CCR
         /\ ExtendedFlags(s, a, b, r, size) \in CCR
         /\ LogicFlags(s, r, size) \in CCR
<1>1. s.ccr \in CCR
  BY DEF Machine
<1>2. s.ccr.X \in BOOLEAN /\ s.ccr.Z \in BOOLEAN
  BY <1>1 DEF CCR
<1>3. ArithFlags(a, b, r, size) \in CCR
  BY TestsBoolean DEF ArithFlags, CCR
<1>4. CompareFlags(s, a, b, r, size) \in CCR
  BY <1>2, <1>3 DEF CompareFlags, CCR
<1>5. ExtendedFlags(s, a, b, r, size) \in CCR
  <2>1. (s.ccr.Z /\ IS_ZERO(r, size)) \in BOOLEAN
    BY <1>2, TestsBoolean
  <2> QED
    BY <1>3, <2>1 DEF ExtendedFlags, CCR
<1>6. LogicFlags(s, r, size) \in CCR
  BY <1>2, TestsBoolean DEF LogicFlags, CCR
<1> QED
  BY <1>3, <1>4, <1>5, <1>6
-----------------------------------------------------------------------------
(* A read after a read is a read.                                          *)
LEMMA ReadsTrans ==
  ASSUME NEW s \in Machine, NEW t, NEW d, Quiet(s, t), Reads(t, d)
  PROVE  Reads(s, d)
  BY QuietTrans DEF Reads

(* The program counter passes the opcode quietly.                          *)
LEMMA BeginQuiet ==
  ASSUME NEW s \in Machine
  PROVE  Quiet(s, Begin(s)) /\ Begin(s) \in Machine
<1>1. PC(s) + SIZE_WORD \in Int
  BY PCInt DEF SIZE_WORD
<1>2. Quiet(s, Begin(s))
  BY <1>1, QuietRefl, QuietPC DEF Begin
<1> QED
  BY <1>2 DEF Quiet

(* Reading the source operand or an immediate.                             *)
LEMMA SourceReads ==
  ASSUME NEW s \in Machine, NEW i \in Instruction
  PROVE  Reads(s, Source(s, i)) /\ Reads(s, Immediate(s, i))
<1>1. Quiet(s, Begin(s)) /\ Begin(s) \in Machine
  BY BeginQuiet
<1>2. Operands(IMMEDIATE, REG_D0, i.data_size)
  BY Members DEF Operands, EAFormed, AddressingMode, REG_D0, DIRECT_DATA, DIRECT_ADDR,
     INDIRECT, POSTINCREMENT, PREDECREMENT, DISPLACEMENT, INDEX, IMMEDIATE
<1>3. Reads(Begin(s), Source(s, i))
  BY <1>1, Members, GetDataReads DEF Source
<1>4. Reads(Begin(s), Immediate(s, i))
  BY <1>1, <1>2, GetDataReads DEF Immediate
<1> QED
  BY <1>1, <1>3, <1>4, ReadsTrans

(* Reading the destination silently.                                       *)
LEMMA DestReads ==
  ASSUME NEW s \in Machine, NEW t, Quiet(s, t), NEW i \in Instruction
  PROVE  Reads(s, Dest(t, i))
<1>1. Reads(t, Dest(t, i))
  BY Members, SilentReads DEF Dest, Quiet
<1> QED
  BY <1>1, ReadsTrans

(* Storing the result after quiet reads.                                   *)
LEMMA StoreSafe ==
  ASSUME NEW s \in Machine, NEW t, Quiet(s, t), NEW i \in Instruction, NEW v \in Int
  PROVE  Safe(s, Store(t, i, v))
<1>1. Safe(t, Store(t, i, v))
  BY Members, SetDataSafe DEF Store, Quiet
<1> QED
  BY <1>1, QuietSafe

(* Storing it and setting the flags.                                       *)
LEMMA ArithSafe ==
  ASSUME NEW s \in Machine, NEW o, Quiet(s, o.st), NEW i \in Instruction, NEW r \in Int
  PROVE  Safe(s, Arith(o, i, r))
<1>1. ArithFlags(o.src, o.val, r, i.data_size) \in CCR
  BY FlagsInCCR
<1> QED
  BY <1>1, StoreSafe, SafeFlags DEF Arith

(* Setting the flags of a result that is already there.                    *)
LEMMA DescribeSafe ==
  ASSUME NEW s \in Machine, NEW t, Safe(s, t), NEW i, NEW r
  PROVE  Safe(s, Describe(t, i, r))
<1>1. LogicFlags(t, r, i.data_size) \in CCR
  BY FlagsInCCR DEF Safe
<1> QED
  BY <1>1, SafeFlags DEF Describe

(* The same for the logical operations.                                    *)
LEMMA LogicSafe ==
  ASSUME NEW s \in Machine, NEW o, Quiet(s, o.st), NEW i \in Instruction, NEW r \in Int
  PROVE  Safe(s, Logic(o, i, r))
  BY StoreSafe, DescribeSafe DEF Logic

(* Results wrap to longs.                                                  *)
LEMMA LongInt ==
  ASSUME NEW v \in Int
  PROVE  v % Long \in Int
  BY Positive, ModRange

(* The extend flag counts 0 or 1.                                          *)
LEMMA ExtendInt ==
  ASSUME NEW s
  PROVE  Extend(s) \in Int
  BY DEF Extend

(* The bitwise operators give numbers.                                     *)
LEMMA BitwiseInt ==
  ASSUME NEW op \in {"and", "or", "eor"}, NEW a \in Int, NEW b \in Int
  PROVE  Bitwise(op, a, b) \in Int
<1> DEFINE f(k) == LogicTable[op][<<ByteOf(a, k), ByteOf(b, k)>>]
<1>1. \A k \in Int : f(k) \in ByteVal
  <2> SUFFICES ASSUME NEW k \in Int PROVE f(k) \in ByteVal
    OBVIOUS
  <2>1. <<ByteOf(a, k), ByteOf(b, k)>> \in ByteVal \X ByteVal
    BY ByteOfRange
  <2>2. LogicTable[op] \in [ByteVal \X ByteVal -> ByteVal]
    BY LogicTableAssumption
  <2> QED
    BY <2>1, <2>2
<1>2. \A k \in Int : f(k) \in Int
  BY <1>1, Positive DEF ByteVal
<1>3. f(0) \in Int /\ f(1) \in Int /\ f(2) \in Int /\ f(3) \in Int
  BY <1>2
<1>4. \A x, y, b1 \in Int : x * b1 + y \in Int
  OBVIOUS
<1>5. Bitwise(op, a, b) = ((f(3) * Byte + f(2)) * Byte + f(1)) * Byte + f(0)
  BY DEF Bitwise
<1> HIDE DEF f
<1>6. f(3) * Byte + f(2) \in Int
  BY <1>3, <1>4, Positive
<1>7. (f(3) * Byte + f(2)) * Byte + f(1) \in Int
  BY <1>3, <1>4, <1>6, Positive
<1>8. ((f(3) * Byte + f(2)) * Byte + f(1)) * Byte + f(0) \in Int
  BY <1>3, <1>4, <1>7, Positive
<1> QED
  BY <1>5, <1>8
-----------------------------------------------------------------------------
(* Both operands have been read, and nothing was written.                  *)
ReadQuietly(s, o) == Quiet(s, o.st) /\ o.src \in Int /\ o.val \in Int

(* A silent read of the destination after a source.                        *)
LEMMA BothRead ==
  ASSUME NEW s \in Machine, NEW i \in Instruction, NEW a, Reads(s, a)
  PROVE  ReadQuietly(s, ReadBoth(a, i))
<1>1. Reads(s, Dest(a.st, i))
  BY DestReads DEF Reads
<1> QED
  BY <1>1 DEF Reads, ReadQuietly, ReadBoth, Pair

(* The three places a source comes from.                                   *)
LEMMA OperandsRead ==
  ASSUME NEW s \in Machine, NEW i \in Instruction
  PROVE  /\ ReadQuietly(s, FromSource(s, i))
         /\ ReadQuietly(s, FromImmediate(s, i))
         /\ ReadQuietly(s, FromOpcode(s, i))
         /\ ReadQuietly(s, ReadBoth(Result(Begin(s), 0), i))
<1>1. \A v \in Int : Reads(s, Result(Begin(s), v))
  BY BeginQuiet DEF Reads, Result
<1>2. Reads(s, Result(Begin(s), i.imm)) /\ Reads(s, Result(Begin(s), 0))
  BY <1>1, Members
<1> QED
  BY <1>2, SourceReads, BothRead DEF FromSource, FromImmediate, FromOpcode
-----------------------------------------------------------------------------
(* What an instruction does with two numbers it has read.                  *)
LEMMA SumsSafe ==
  ASSUME NEW s \in Machine, NEW i \in Instruction, NEW o, ReadQuietly(s, o)
  PROVE  /\ Safe(s, AddTo(o, i))
         /\ Safe(s, SubtractFrom(o, i))
         /\ Safe(s, AddToAddress(o, i))
         /\ Safe(s, SubtractFromAddress(o, i))
         /\ Safe(s, Negate(o, i))
<1>1. Sum(o) \in Int /\ Difference(o) \in Int /\ (o.src - o.val) % Long \in Int
  BY LongInt DEF ReadQuietly, Sum, Difference
<1>2. Quiet(s, o.st)
  BY DEF ReadQuietly
<1> QED
  BY <1>1, <1>2, ArithSafe, StoreSafe
     DEF AddTo, SubtractFrom, AddToAddress, SubtractFromAddress, Negate

(* add, sub, their immediate, quick and address forms, and neg.            *)
LEMMA AddSubSafe ==
  ASSUME NEW s \in Machine, NEW i \in Instruction
  PROVE  /\ Safe(s, AddExecute(s, i)) /\ Safe(s, SubExecute(s, i))
         /\ Safe(s, AddiExecute(s, i)) /\ Safe(s, SubiExecute(s, i))
         /\ Safe(s, AddaExecute(s, i)) /\ Safe(s, SubaExecute(s, i))
         /\ Safe(s, AddqExecute(s, i)) /\ Safe(s, SubqExecute(s, i))
         /\ Safe(s, NegExecute(s, i))
  BY OperandsRead, SumsSafe
     DEF AddExecute, SubExecute, AddiExecute, SubiExecute, AddaExecute, SubaExecute,
         AddqExecute, SubqExecute, NegExecute

(* addx and subx.                                                          *)
LEMMA ExtendedSafe ==
  ASSUME NEW s \in Machine, NEW i \in Instruction
  PROVE  Safe(s, AddxExecute(s, i)) /\ Safe(s, SubxExecute(s, i))
<1> DEFINE o == FromSource(s, i)
<1>1. Quiet(s, o.st) /\ o.src \in Int /\ o.val \in Int
  BY OperandsRead DEF ReadQuietly
<1> HIDE DEF o
<1>2. \A r \in Int : Safe(s, ExtendedArith(s, o, i, r))
  <2> SUFFICES ASSUME NEW r \in Int PROVE Safe(s, ExtendedArith(s, o, i, r))
    OBVIOUS
  <2>1. Safe(s, Store(o.st, i, r))
    BY <1>1, StoreSafe
  <2>2. ExtendedFlags(s, o.src, o.val, r, i.data_size) \in CCR
    BY FlagsInCCR
  <2> QED
    BY <2>1, <2>2, SafeFlags DEF ExtendedArith
<1>3. /\ (o.src + o.val + Extend(s)) % Long \in Int
      /\ (o.val - o.src - Extend(s)) % Long \in Int
  BY <1>1, LongInt, ExtendInt
<1> QED
  BY <1>2, <1>3 DEF AddxExecute, SubxExecute, AddExtended, SubtractExtended, o

(* A comparison never writes.                                              *)
LEMMA CompareSafe ==
  ASSUME NEW s \in Machine, NEW a, Reads(s, a), NEW i \in Instruction
  PROVE  Safe(s, Compare(a, i))
<1> DEFINE d == getData(a.st, i.dest_mode, i.dest_reg, i.data_size)
           o == Pair(a, d)
           f == CompareFlags(o.st, o.src, o.val, Difference(o), i.data_size)
<1>1. Reads(a.st, d)
  BY Members, GetDataReads DEF Reads, Quiet
<1>2. Reads(s, d)
  BY <1>1, ReadsTrans DEF Reads
<1> HIDE DEF d
<1>3. Quiet(s, o.st)
  BY <1>2 DEF Reads, Pair
<1> HIDE DEF o
<1>4. f \in CCR
  BY <1>3, FlagsInCCR DEF Quiet
<1> HIDE DEF f
<1>5. Safe(s, SetFlags(o.st, f))
  BY <1>3, <1>4, QuietIsSafe, SafeFlags
<1> QED
  BY <1>5 DEF Compare, Compared, f, o, d

(* A word read for an address register is still a number.                  *)
LEMMA WidenedReads ==
  ASSUME NEW s \in Machine, NEW a, Reads(s, a), NEW size
  PROVE  Reads(s, Widened(a, size))
<1>1. SignExtend(a.val, SIZE_WORD) \in Int
  BY MaskInt DEF DataSize, Reads
<1> QED
  BY <1>1 DEF Reads, Widened, Result

(* The four instructions made of it.                                       *)
LEMMA ComparisonsSafe ==
  ASSUME NEW s \in Machine, NEW i \in Instruction
  PROVE  /\ Safe(s, CmpExecute(s, i))
         /\ Safe(s, CmpiExecute(s, i))
         /\ Safe(s, CmpaExecute(s, i))
         /\ Safe(s, TstExecute(s, i))
<1>1. Reads(s, Source(s, i)) /\ Reads(s, Immediate(s, i))
  BY SourceReads
<1>2. Reads(s, Widened(Source(s, i), i.data_size))
  BY <1>1, WidenedReads
<1>3. Safe(s, Test(Source(s, i), i))
  BY <1>1, QuietIsSafe, DescribeSafe DEF Test, Reads
<1> QED
  BY <1>1, <1>2, <1>3, CompareSafe DEF CmpExecute, CmpiExecute, CmpaExecute, TstExecute

(* and, or, eor and their immediate forms.                                 *)
LEMMA LogicalSafe ==
  ASSUME NEW s \in Machine, NEW i \in Instruction
  PROVE  /\ Safe(s, AndExecute(s, i)) /\ Safe(s, AndiExecute(s, i))
         /\ Safe(s, OrExecute(s, i)) /\ Safe(s, OriExecute(s, i))
         /\ Safe(s, EorExecute(s, i)) /\ Safe(s, EoriExecute(s, i))
<1>1. ASSUME NEW op \in {"and", "or", "eor"}, NEW o, ReadQuietly(s, o)
      PROVE  Safe(s, Combine(op, o, i))
  BY <1>1, BitwiseInt, LogicSafe DEF Combine, ReadQuietly
<1> QED
  BY <1>1, OperandsRead
     DEF AndExecute, OrExecute, EorExecute, AndiExecute, OriExecute, EoriExecute

(* The operand widths are within the table of powers of two.               *)
LEMMA WidthFacts ==
  ASSUME NEW size \in DataSize
  PROVE  /\ size * Bits \in Nat \ {0}
         /\ \A k \in 0 .. size * Bits - 1 : Pow2[k] \in Nat \ {0}
<1>1. Bits \in Nat \ {0}
  BY BitsAssumption
<1>2. size \in {1, 2, 4}
  BY DEF DataSize, SIZE_BYTE, SIZE_WORD, SIZE_LONG
<1>3. size * Bits \in Nat \ {0} /\ size * Bits <= 8 * Bits
  BY <1>1, <1>2
<1>4. \A k \in 0 .. size * Bits - 1 : k \in 0 .. 8 * Bits
  BY <1>1, <1>3
<1> QED
  BY <1>3, <1>4, Pow2Assumption

(* btst, bchg, bclr and bset.                                              *)
LEMMA BitManipSafe ==
  ASSUME NEW s \in Machine, NEW i \in Instruction
  PROVE  Safe(s, BitManipExecute(s, i))
<1> DEFINE o == FromSource(s, i)
           w == i.data_size * Bits
           p == Pow2[o.src % w]
           bit == (o.val \div p) % 2
           r == CASE i.kind = 1 -> IF bit = 1 THEN o.val - p ELSE o.val + p
                  [] i.kind = 2 -> o.val - bit * p
                  [] i.kind = 3 -> o.val + (1 - bit) * p
                  [] OTHER      -> o.val
           f == [o.st.ccr EXCEPT !.Z = (bit = 0)]
<1>1. Quiet(s, o.st) /\ o.src \in Int /\ o.val \in Int
  BY OperandsRead DEF ReadQuietly
<1> HIDE DEF o
<1>2. w \in Nat \ {0}
  BY Members, WidthFacts
<1>3. o.src % w \in 0 .. w - 1
  BY <1>1, <1>2, ModRange
<1>4. p \in Nat \ {0}
  BY <1>3, Members, WidthFacts
<1> HIDE DEF p
<1>5. bit \in Int
  <2>1. o.val \div p \in Int
    BY <1>1, <1>4
  <2> QED
    BY <2>1
<1> HIDE DEF bit
<1>6. bit * p \in Int /\ (1 - bit) * p \in Int
  BY <1>4, <1>5
<1>7. o.val - p \in Int /\ o.val + p \in Int /\ o.val - bit * p \in Int
      /\ o.val + (1 - bit) * p \in Int
  BY <1>1, <1>4, <1>6
<1>8. r \in Int
  BY <1>1, <1>7
<1> HIDE DEF r
<1>9. Safe(s, Store(o.st, i, r % Long))
  BY <1>1, <1>8, LongInt, StoreSafe
<1>10. f \in CCR
  BY <1>1 DEF Quiet, Machine, CCR
<1>11. Safe(s, SetFlags(Store(o.st, i, r % Long), f))
  BY <1>9, <1>10, SafeFlags
<1> QED
  BY <1>11 DEF BitManipExecute, ChangeBit, o, p, bit, r
-----------------------------------------------------------------------------
(* clr and moveq write without reading.                                    *)
LEMMA ClrMoveqSafe ==
  ASSUME NEW s \in Machine, NEW i \in Instruction
  PROVE  Safe(s, ClrExecute(s, i)) /\ Safe(s, MoveqExecute(s, i))
<1>1. Safe(s, Store(Begin(s), i, 0)) /\ Safe(s, Store(Begin(s), i, i.imm))
  BY BeginQuiet, StoreSafe, Members
<1> QED
  BY <1>1, DescribeSafe DEF ClrExecute, MoveqExecute

(* A long written to the destination register or operand.                  *)
LEMMA StoreLongSafe ==
  ASSUME NEW s \in Machine, NEW t, Quiet(s, t), NEW i \in Instruction, NEW v \in Int
  PROVE  Safe(s, StoreLong(t, i, v))
<1>1. Operands(i.dest_mode, i.dest_reg, SIZE_LONG)
  BY Members DEF Operands, DataSize
<1>2. Safe(t, StoreLong(t, i, v))
  BY <1>1, SetDataSafe DEF StoreLong, Quiet
<1> QED
  BY <1>2, QuietSafe

(* move and movea.                                                         *)
LEMMA MoveSafe ==
  ASSUME NEW s \in Machine, NEW i \in Instruction
  PROVE  Safe(s, MoveExecute(s, i))
<1> DEFINE a == Source(s, i)
           v == Widened(a, i.data_size).val
<1>1. Reads(s, a)
  BY SourceReads
<1> HIDE DEF a
<1>2. Quiet(s, a.st) /\ a.val \in Int
  BY <1>1 DEF Reads
<1>3. v \in Int
  BY <1>1, WidenedReads DEF Reads
<1> HIDE DEF v
<1>4. Safe(s, StoreLong(a.st, i, v))
  BY <1>2, <1>3, StoreLongSafe
<1>5. Safe(s, Describe(Store(a.st, i, a.val), i, a.val))
  BY <1>2, StoreSafe, DescribeSafe
<1> QED
  BY <1>4, <1>5 DEF MoveExecute, MoveTo, v, a

(* ext reads and writes one register.                                      *)
LEMMA ExtSafe ==
  ASSUME NEW s \in Machine, NEW i \in Instruction
  PROVE  Safe(s, ExtExecute(s, i))
<1> DEFINE z == IF i.data_size = SIZE_WORD THEN SIZE_BYTE ELSE SIZE_WORD
           b == getData(Begin(s), i.dest_mode, i.dest_reg, z)
           r == MASK(SignExtend(b.val, SIZE_BYTE), i.data_size)
<1>1. Operands(i.dest_mode, i.dest_reg, z)
  BY Members DEF Operands, DataSize
<1>2. Reads(Begin(s), b)
  BY <1>1, BeginQuiet, GetDataReads
<1>3. Reads(s, b)
  BY <1>2, BeginQuiet, ReadsTrans
<1> HIDE DEF b
<1>4. SignExtend(b.val, SIZE_BYTE) \in Int
  BY <1>3, MaskInt DEF Reads, DataSize
<1>5. r \in Int
  BY <1>4, Members, MaskInt
<1> HIDE DEF r
<1>6. Safe(s, Logic(b, i, r))
  BY <1>3, <1>5, LogicSafe DEF Reads
<1> QED
  BY <1>6 DEF ExtExecute, ExtendByte, b, r

(* mulu and muls.                                                          *)
LEMMA MulSafe ==
  ASSUME NEW s \in Machine, NEW i \in Instruction, NEW u \in Undefined
  PROVE  Safe(s, MulExecute(s, i, u))
<1> DEFINE o == FromSource(s, i)
           x == IF i.kind = 1 THEN Signed(o.src, SIZE_WORD) * Signed(o.val, SIZE_WORD)
                ELSE o.src * o.val
           r == x % Long
           f == LogicFlags(o.st, r, SIZE_LONG)
           g == [f EXCEPT !.N = IF i.kind = 1 THEN f.N ELSE f.N /\ u.N]
<1>1. Quiet(s, o.st) /\ o.src \in Int /\ o.val \in Int
  BY OperandsRead DEF ReadQuietly
<1> HIDE DEF o
<1>2. Signed(o.src, SIZE_WORD) \in Int /\ Signed(o.val, SIZE_WORD) \in Int
  BY <1>1, MaskInt DEF DataSize
<1>3. x \in Int
  BY <1>1, <1>2
<1> HIDE DEF x
<1>4. r \in Int
  BY <1>3, LongInt
<1> HIDE DEF r
<1>5. f \in CCR
  BY <1>1, FlagsInCCR DEF Quiet
<1> HIDE DEF f
<1>6. g \in CCR
  <2>1. f.N \in BOOLEAN /\ u.N \in BOOLEAN
    BY <1>5 DEF CCR, Undefined
  <2>2. (f.N /\ u.N) \in BOOLEAN
    BY <2>1
  <2> QED
    BY <1>5, <2>1, <2>2 DEF CCR
<1>7. Safe(s, StoreLong(o.st, i, r))
  BY <1>1, <1>4, StoreLongSafe
<1>8. Safe(s, SetFlags(StoreLong(o.st, i, r), g))
  BY <1>6, <1>7, SafeFlags
<1> QED
  BY <1>8 DEF MulExecute, Multiply, o, x, r, f

(* Truncating division by a non-zero number.                               *)
LEMMA QuotientInt ==
  ASSUME NEW a \in Int, NEW b \in Int \ {0}
  PROVE  Quotient(a, b) \in Int
<1> DEFINE abs(x) == IF x < 0 THEN -x ELSE x
           q == abs(a) \div abs(b)
<1>1. abs(a) \in Int /\ abs(b) \in Nat \ {0}
  OBVIOUS
<1>2. \A x \in Int, y \in Nat \ {0} : x \div y \in Int
  OBVIOUS
<1> HIDE DEF abs
<1>3. q \in Int
  BY <1>1, <1>2
<1> HIDE DEF q
<1>4. -q \in Int
  BY <1>3
<1>5. Quotient(a, b) = IF (a < 0) = (b < 0) THEN q ELSE -q
  BY DEF Quotient, q, abs
<1> QED
  BY <1>3, <1>4, <1>5

(* divu and divs, with the host surviving a zero divisor or not.           *)
LEMMA DivSafe ==
  ASSUME NEW s \in Machine, NEW i \in Instruction, NEW u \in Undefined
  PROVE  Safe(s, DivExecute(s, i, u))
<1> DEFINE o == FromSource(s, i)
           n == IF i.kind = 1 THEN Signed(o.val, SIZE_WORD) ELSE o.val
           m == IF i.kind = 1 THEN Signed(o.src, SIZE_WORD) ELSE o.src
           q == IF m = 0 THEN 0 ELSE Quotient(n, m)
           x == n - q * m
           r == MASK(x, SIZE_WORD) * Word + MASK(q, SIZE_WORD)
           t == StoreLong(o.st, i, r)
           f == LogicFlags(o.st, q, SIZE_WORD)
<1>1. Quiet(s, o.st) /\ o.src \in Int /\ o.val \in Int
  BY OperandsRead DEF ReadQuietly
<1> HIDE DEF o
<1>2. n \in Int /\ m \in Int
  BY <1>1, MaskInt DEF DataSize
<1> HIDE DEF n, m
<1>3. q \in Int
  BY <1>2, QuotientInt
<1> HIDE DEF q
<1>4. x \in Int
  BY <1>2, <1>3
<1> HIDE DEF x
<1>5. MASK(x, SIZE_WORD) \in Int /\ MASK(q, SIZE_WORD) \in Int
  BY <1>3, <1>4, MaskInt DEF DataSize
<1>6. r \in Int
  <2>1. \A y, z, b \in Int : y * b + z \in Int
    OBVIOUS
  <2> QED
    BY <1>5, <2>1, Positive
<1> HIDE DEF r
<1>7. Safe(s, t)
  BY <1>1, <1>6, StoreLongSafe
<1> HIDE DEF t
<1>8. f \in CCR
  BY <1>1, FlagsInCCR DEF Quiet
<1> HIDE DEF f
<1>9. Safe(s, SetFlags(t, f))
  BY <1>7, <1>8, SafeFlags
<1>10. Safe(s, Throw(o.st, "fatal"))
  <2>1. Quiet(o.st, Throw(o.st, "fatal"))
    BY <1>1, QuietThrow DEF Quiet, Exceptions
  <2> QED
    BY <1>1, <2>1, QuietTrans, QuietIsSafe
<1>11. DivExecute(s, i, u) = IF m = 0 /\ u.C THEN Throw(o.st, "fatal") ELSE SetFlags(t, f)
  BY DEF DivExecute, Divide, o, n, m, q, x, r, t, f
<1> QED
  BY <1>9, <1>10, <1>11
-----------------------------------------------------------------------------
(* Every shift and rotate yields flags, defined by C++ or not.             *)
LEMMA ShiftOutcome ==
  ASSUME NEW u \in Undefined, NEW v, NEW n, NEW size, NEW b, NEW c
  PROVE  /\ LeftShift(v, n, size) \in Undefined
         /\ RightShift(v, n, size, b, u) \in Undefined
         /\ RotateExtend(v, n, size, b, c, u) \in Undefined
         /\ Rotate(v, n, size, b, u) \in Undefined
<1>1. \A x \in BOOLEAN : \A r : ResultFlags(x, r, size) \in Undefined
  BY TestsBoolean DEF ResultFlags, ShiftFlags, Undefined
<1>2. u.C \in BOOLEAN /\ u.Z \in BOOLEAN
  BY DEF Undefined
<1>3. LeftShift(v, n, size) \in Undefined
  <2>1. (n = 0 /\ v % 2 = 1) \in BOOLEAN
    OBVIOUS
  <2> QED
    BY <1>1, <2>1 DEF LeftShift
<1>4. RightShift(v, n, size, b, u) \in Undefined
  <2>1. (IF n = 0 THEN u.C ELSE (v \div Pow2[n - 1]) % 2 = 1) \in BOOLEAN
    BY <1>2
  <2> QED
    BY <1>1, <2>1 DEF RightShift
<1>5. RotateExtend(v, n, size, b, c, u) \in Undefined
  BY <1>1 DEF RotateExtend
<1>6. Rotate(v, n, size, b, u) \in Undefined
  <2> DEFINE carry == IF n > Bits + (IF b THEN 0 ELSE 1) THEN u.C
                      ELSE IF b THEN v \div Pow2[Bits - n] # 0 ELSE v # 0
             bool == IF v = 0 THEN 0 ELSE 1
  <2>1. carry \in BOOLEAN
    BY <1>2
  <2> HIDE DEF carry
  <2>2. ShiftFlags(carry, FALSE, u.Z) \in Undefined
    BY <1>2, <2>1 DEF ShiftFlags, Undefined
  <2>3. ResultFlags(carry, bool, size) \in Undefined
    BY <1>1, <2>1
  <2>4. Rotate(v, n, size, b, u) = IF n > size * Bits THEN ShiftFlags(carry, FALSE, u.Z)
                                   ELSE ResultFlags(carry, bool, size)
    BY DEF Rotate, carry
  <2> QED
    BY <2>2, <2>3, <2>4
<1> QED
  BY <1>3, <1>4, <1>5, <1>6

(* Shifts set flags only.                                                  *)
LEMMA BitShiftSafe ==
  ASSUME NEW s \in Machine, NEW i \in Instruction, NEW u \in Undefined
  PROVE  Safe(s, BitShiftExecute(s, i, u))
<1> DEFINE d == Dest(Begin(s), i)
           n == IF i.src_mode = IMMEDIATE THEN i.imm
                ELSE get(d.st, i.src_reg, i.data_size) % (8 * Bits)
           f == CASE i.kind = 0 /\ ~i.left -> RightShift(d.val, n, i.data_size, TRUE, u)
                  [] i.kind = 1 /\ ~i.left -> RightShift(d.val, n, i.data_size, FALSE, u)
                  [] i.kind \in {0, 1} /\ i.left -> LeftShift(d.val, n, i.data_size)
                  [] i.kind = 2 -> RotateExtend(d.val, n, i.data_size, i.left, s.ccr.C, u)
                  [] OTHER -> Rotate(d.val, n, i.data_size, i.left, u)
           g == [ X |-> IF i.kind = 3 THEN s.ccr.X ELSE f.C,
                  N |-> f.N, Z |-> f.Z, V |-> FALSE, C |-> f.C ]
<1>1. Quiet(s, d.st)
  BY BeginQuiet, DestReads DEF Reads
<1> HIDE DEF d, n
<1>2. f \in Undefined
  BY ShiftOutcome
<1> HIDE DEF f
<1>3. g \in CCR
  <2>1. s.ccr.X \in BOOLEAN
    BY DEF Machine, CCR
  <2> QED
    BY <1>2, <2>1 DEF Undefined, CCR
<1> HIDE DEF g
<1>4. Safe(s, SetFlags(d.st, g))
  BY <1>1, <1>3, QuietIsSafe, SafeFlags
<1> QED
  BY <1>4 DEF BitShiftExecute, Shift, d, n, f, g
-----------------------------------------------------------------------------
(* nop and illegal.                                                        *)
LEMMA NopIllegalSafe ==
  ASSUME NEW s \in Machine
  PROVE  Safe(s, NopExecute(s)) /\ Safe(s, IllegalExecute(s))
<1>1. Quiet(s, Begin(s)) /\ Begin(s) \in Machine
  BY BeginQuiet
<1>2. Quiet(Begin(s), Throw(Begin(s), "invalid_argument"))
  BY <1>1, QuietThrow DEF Exceptions
<1>3. Quiet(s, Throw(Begin(s), "invalid_argument"))
  BY <1>1, <1>2, QuietTrans
<1> QED
  BY <1>1, <1>3, QuietIsSafe DEF NopExecute, IllegalExecute

(* A push after quiet reads is safe.                                       *)
LEMMA PushAfter ==
  ASSUME NEW s \in Machine, NEW t, Quiet(s, t), NEW data \in Int
  PROVE  Safe(s, stackPush(t, SIZE_LONG, data))
<1>1. Safe(t, stackPush(t, SIZE_LONG, data))
  BY PushSafe DEF Quiet, DataSize
<1> QED
  BY <1>1, QuietSafe

(* jmp and jsr.                                                            *)
LEMMA JumpSafe ==
  ASSUME NEW s \in Machine, NEW i \in Instruction
  PROVE  Safe(s, JmpExecute(s, i)) /\ Safe(s, JsrExecute(s, i))
<1> DEFINE a == getControlAddress(Begin(s), i.dest_mode, i.dest_reg)
<1>1. Reads(Begin(s), a)
  BY BeginQuiet, Members, ControlReads DEF Operands
<1>2. Reads(s, a)
  BY <1>1, BeginQuiet, ReadsTrans
<1> HIDE DEF a
<1>3. Quiet(s, a.st) /\ a.val \in Int /\ PC(a.st) \in Int
  BY <1>2, PCInt DEF Reads, Quiet
<1>4. Safe(s, SetPC(a.st, a.val))
  BY <1>3, QuietIsSafe, SafePC
<1>5. Safe(s, SetPC(stackPush(a.st, SIZE_LONG, PC(a.st)), a.val))
  BY <1>3, PushAfter, SafePC
<1> QED
  BY <1>4, <1>5 DEF JmpExecute, JsrExecute, a

(* rts.                                                                    *)
LEMMA RtsSafe ==
  ASSUME NEW s \in Machine
  PROVE  Safe(s, RtsExecute(s))
<1>1. Reads(s, stackPop(s, SIZE_LONG))
  BY PopReads DEF DataSize
<1> QED
  BY <1>1, QuietIsSafe, SafePC DEF Reads, RtsExecute

(* bra, bsr and the conditional branches.                                  *)
LEMMA BccSafe ==
  ASSUME NEW s \in Machine, NEW i \in Instruction
  PROVE  Safe(s, BccExecute(s, i))
<1> DEFINE pc == MASK(PC(s) + SIZE_WORD, SIZE_LONG)
           e == IF i.data_size = SIZE_BYTE THEN Result(Begin(s), i.imm)
                ELSE Immediate(s, i)
           target == pc + SignExtend(e.val, i.data_size)
           c == checkCondition(e.st, i.kind)
<1>1. pc \in Int
  <2>1. PC(s) + SIZE_WORD \in Int
    BY PCInt DEF SIZE_WORD
  <2> QED
    BY <2>1, MaskInt DEF DataSize
<1>2. Reads(s, e)
  <2>1. Reads(s, Result(Begin(s), i.imm))
    BY BeginQuiet, Members DEF Reads, Result
  <2> QED
    BY <2>1, SourceReads
<1> HIDE DEF e, pc, c
<1>3. target \in Int
  BY <1>1, <1>2, Members, MaskInt DEF Reads
<1> HIDE DEF target
<1>4. Safe(s, e.st)
  BY <1>2, QuietIsSafe DEF Reads
<1>5. Safe(s, SetPC(e.st, target))
  BY <1>3, <1>4, SafePC
<1>6. Safe(s, SetPC(stackPush(e.st, SIZE_LONG, pc), target))
  BY <1>1, <1>2, <1>3, PushAfter, SafePC DEF Reads
<1>7. BccExecute(s, i) =
        CASE i.kind = 0 -> SetPC(e.st, target)
          [] i.kind = 1 -> SetPC(stackPush(e.st, SIZE_LONG, pc), target)
          [] OTHER -> IF c THEN SetPC(e.st, target) ELSE e.st
  BY DEF BccExecute, Branch, e, pc, target, c
<1> QED
  BY <1>4, <1>5, <1>6, <1>7

(* scc.                                                                    *)
LEMMA SccSafe ==
  ASSUME NEW s \in Machine, NEW i \in Instruction
  PROVE  Safe(s, SccExecute(s, i))
<1> DEFINE t == Begin(s)
           v == IF checkCondition(t, i.kind) THEN Byte - 1 ELSE 0
<1>1. Quiet(s, t) /\ t \in Machine
  BY BeginQuiet
<1> HIDE DEF t
<1>2. v \in Int
  <2>1. Byte - 1 \in Int
    BY Positive
  <2> QED
    BY <2>1
<1> HIDE DEF v
<1>3. Operands(i.dest_mode, i.dest_reg, SIZE_BYTE)
  BY Members DEF Operands, DataSize
<1>4. Safe(t, setData(t, i.dest_mode, i.dest_reg, SIZE_BYTE, v))
  BY <1>1, <1>2, <1>3, SetDataSafe
<1>5. Safe(s, setData(t, i.dest_mode, i.dest_reg, SIZE_BYTE, v))
  BY <1>1, <1>4, QuietSafe
<1> QED
  BY <1>5 DEF SccExecute, t, v

(* lea and pea.                                                            *)
LEMMA LeaPeaSafe ==
  ASSUME NEW s \in Machine, NEW i \in Instruction
  PROVE  /\ i.class = "Lea" => Safe(s, LeaExecute(s, i))
         /\ Safe(s, PeaExecute(s, i))
<1> DEFINE a == getControlAddress(Begin(s), i.src_mode, i.src_reg)
<1>1. Reads(Begin(s), a)
  BY BeginQuiet, Members, ControlReads DEF Operands
<1>2. Reads(s, a)
  BY <1>1, BeginQuiet, ReadsTrans
<1> HIDE DEF a
<1>3. Quiet(s, a.st) /\ a.val \in Int
  BY <1>2 DEF Reads
<1>4. Safe(s, stackPush(a.st, SIZE_LONG, a.val))
  BY <1>3, PushAfter
<1>5. ASSUME i.class = "Lea"
      PROVE  Safe(s, setData(a.st, DIRECT_ADDR, i.dest_reg, SIZE_LONG, a.val))
  <2>1. i.dest_reg \in AddrReg
    BY <1>5 DEF Instruction, InstructionsWith, WellFormed
  <2>2. Operands(DIRECT_ADDR, i.dest_reg, SIZE_LONG)
    BY <2>1, Members DEF Operands, EAFormed, AddressingMode, DataSize, DIRECT_ADDR, DIRECT_DATA
  <2>3. Safe(a.st, setData(a.st, DIRECT_ADDR, i.dest_reg, SIZE_LONG, a.val))
    BY <1>3, <2>2, SetDataSafe DEF Quiet
  <2> QED
    BY <1>3, <2>3, QuietSafe
<1> QED
  BY <1>4, <1>5 DEF LeaExecute, PeaExecute, a

(* link: the push may throw, the register writes after it may not.         *)
LEMMA LinkSafe ==
  ASSUME NEW s \in Machine, NEW i \in Instruction
  PROVE  Safe(s, LinkExecute(s, i))
<1> DEFINE e == MemGet(s, PC(s) + SIZE_WORD, SIZE_WORD)
           t == SetPC(e.st, PC(s) + 2 * SIZE_WORD)
           v == get(t, i.dest_reg, SIZE_LONG)
           p == stackPush(t, SIZE_LONG, v)
           sp == get(p, REG_USP, SIZE_LONG)
           w == sp + SignExtend(e.val, SIZE_WORD)
<1>1. /\ i.dest_reg \in Named /\ REG_USP \in Named
      /\ SIZE_LONG \in DataSize /\ SIZE_WORD \in DataSize
  BY Members DEF Operands, Named, DataReg, AddrReg, DataSize, REG_USP
<1>2. PC(s) + SIZE_WORD \in Int /\ PC(s) + 2 * SIZE_WORD \in Int
  BY PCInt DEF SIZE_WORD
<1>3. Reads(s, e)
  BY <1>1, <1>2, MemGetReads
<1> HIDE DEF e
<1>4. Quiet(s, t)
  BY <1>2, <1>3, QuietPC DEF Reads
<1> HIDE DEF t
<1>5. v \in Int
  BY <1>1, <1>4, GetInt DEF Quiet
<1> HIDE DEF v
<1>6. Safe(s, p)
  BY <1>4, <1>5, PushAfter
<1> HIDE DEF p
<1>7. sp \in Int
  BY <1>1, <1>6, GetInt DEF Safe
<1> HIDE DEF sp
<1>8. w \in Int
  BY <1>1, <1>3, <1>7, MaskInt DEF Reads
<1> HIDE DEF w
<1>9. Safe(s, set(p, i.dest_reg, SIZE_LONG, sp))
  BY <1>1, <1>6, <1>7, SafeSet
<1>10. Safe(s, set(set(p, i.dest_reg, SIZE_LONG, sp), REG_USP, SIZE_LONG, w))
  BY <1>1, <1>8, <1>9, SafeSet
<1> QED
  BY <1>10 DEF LinkExecute, e, t, v, p, sp, w

(* unlk: the stack pointer is already replaced when the pop throws.        *)
LEMMA UnlkSafe ==
  ASSUME NEW s \in Machine, NEW i \in Instruction
  PROVE  Safe(s, UnlkExecute(s, i))
<1> DEFINE t == Begin(s)
           v == get(t, i.dest_reg, SIZE_LONG)
           p == set(t, REG_USP, SIZE_LONG, v)
           r == stackPop(p, SIZE_LONG)
<1>1. /\ i.dest_reg \in Named /\ SIZE_LONG \in DataSize
      /\ REG_USP \in AddrReg \cup {REG_PC}
  BY Members DEF Operands, Named, DataReg, AddrReg, DataSize, REG_USP
<1>2. Quiet(s, t) /\ t \in Machine
  BY BeginQuiet
<1> HIDE DEF t
<1>3. v \in Int
  BY <1>1, <1>2, GetInt
<1> HIDE DEF v
<1>4. Quiet(s, p)
  BY <1>1, <1>2, <1>3, QuietSet
<1> HIDE DEF p
<1>5. Reads(p, r)
  BY <1>1, <1>4, PopReads DEF Quiet
<1>6. Reads(s, r)
  BY <1>4, <1>5, ReadsTrans
<1> HIDE DEF r
<1>7. Safe(s, set(r.st, i.dest_reg, SIZE_LONG, r.val))
  BY <1>1, <1>6, QuietIsSafe, SafeSet DEF Reads
<1> QED
  BY <1>7 DEF UnlkExecute, t, v, p, r
-----------------------------------------------------------------------------
(* The machine step() starts from: the caller has dealt with an exception. *)
Ready == [cpu EXCEPT !.exc = "none"]

(* Clearing the exception leaves a machine.                                *)
LEMMA ReadyFacts ==
  ASSUME TypeOK
  PROVE  /\ Ready \in Machine
         /\ Ready.reg = cpu.reg /\ Ready.mem = cpu.mem
         /\ Ready.ccr = cpu.ccr /\ Ready.sup = cpu.sup
  BY DEF TypeOK, Ready, Machine

(* The opcode fetch is quiet, and what it reads is in the table.           *)
LEMMA FetchedFacts ==
  ASSUME TypeOK
  PROVE  /\ Quiet(Ready, Fetched.st)
         /\ Fetched.st \in Machine
         /\ Decoded \in Instruction
<1>1. Ready \in Machine
  BY ReadyFacts
<1>2. Fetched = MemGet(Ready, PC(Ready), SIZE_WORD)
  BY DEF Fetched, Ready
<1>3. PC(Ready) \in Int /\ SIZE_WORD \in DataSize
  BY <1>1, PCInt DEF DataSize
<1>4. Reads(Ready, Fetched) /\ Fetched.val \in WordVal
  BY <1>1, <1>2, <1>3, MemGetReads
<1>5. Decoded \in Instruction
  BY <1>4, OpcodeTableAssumption DEF Decoded, Decode
<1> QED
  BY <1>4, <1>5 DEF Reads, Quiet

(* An execute() that is safe after the fetch makes the whole step safe.    *)
LEMMA ExecutesSafe ==
  ASSUME TypeOK, NEW class, NEW result,
         Decoded.class = class => Safe(Fetched.st, result),
         Executes(class, result)
  PROVE  Safe(Ready, cpu')
<1>1. cpu' = result /\ Decoded.class = class
  BY DEF Executes
<1> QED
  BY <1>1, ReadyFacts, FetchedFacts, QuietSafe

(* Every step() is safe.                                                   *)
LEMMA StepSafe ==
  ASSUME TypeOK, Step
  PROVE  Safe(Ready, cpu')
<1> DEFINE s == Fetched.st
           i == Decoded
<1>1. s \in Machine /\ i \in Instruction
  BY FetchedFacts
<1> HIDE DEF s, i
<1>2. CASE Add \/ Sub \/ Adda \/ Suba
  <2>1. /\ Safe(s, AddExecute(s, i)) /\ Safe(s, SubExecute(s, i))
        /\ Safe(s, AddaExecute(s, i)) /\ Safe(s, SubaExecute(s, i))
    BY <1>1, AddSubSafe
  <2> QED
    BY <1>2, <2>1, ExecutesSafe DEF Add, Sub, Adda, Suba, s, i
<1>3. CASE Addi \/ Subi
  <2>1. Safe(s, AddiExecute(s, i)) /\ Safe(s, SubiExecute(s, i))
    BY <1>1, AddSubSafe
  <2> QED
    BY <1>3, <2>1, ExecutesSafe DEF Addi, Subi, s, i
<1>4. CASE Addq \/ Subq \/ Neg
  <2>1. Safe(s, AddqExecute(s, i)) /\ Safe(s, SubqExecute(s, i)) /\ Safe(s, NegExecute(s, i))
    BY <1>1, AddSubSafe
  <2> QED
    BY <1>4, <2>1, ExecutesSafe DEF Addq, Subq, Neg, s, i
<1>5. CASE Addx \/ Subx
  <2>1. Safe(s, AddxExecute(s, i)) /\ Safe(s, SubxExecute(s, i))
    BY <1>1, ExtendedSafe
  <2> QED
    BY <1>5, <2>1, ExecutesSafe DEF Addx, Subx, s, i
<1>6. CASE Cmp \/ Cmpi \/ Cmpa \/ Tst
  <2>1. /\ Safe(s, CmpExecute(s, i)) /\ Safe(s, CmpiExecute(s, i))
        /\ Safe(s, CmpaExecute(s, i)) /\ Safe(s, TstExecute(s, i))
    BY <1>1, ComparisonsSafe
  <2> QED
    BY <1>6, <2>1, ExecutesSafe DEF Cmp, Cmpi, Cmpa, Tst, s, i
<1>7. CASE And \/ Or \/ Eor \/ Andi \/ Ori \/ Eori
  <2>1. /\ Safe(s, AndExecute(s, i)) /\ Safe(s, OrExecute(s, i)) /\ Safe(s, EorExecute(s, i))
        /\ Safe(s, AndiExecute(s, i)) /\ Safe(s, OriExecute(s, i))
        /\ Safe(s, EoriExecute(s, i))
    BY <1>1, LogicalSafe
  <2> QED
    BY <1>7, <2>1, ExecutesSafe DEF And, Or, Eor, Andi, Ori, Eori, s, i
<1>8. CASE BitManip
  BY <1>1, <1>8, BitManipSafe, ExecutesSafe DEF BitManip, s, i
<1>9. CASE BitShift
  <2>1. \A u \in Undefined : Safe(s, BitShiftExecute(s, i, u))
    BY <1>1, BitShiftSafe
  <2> QED
    BY <1>9, <2>1, ExecutesSafe DEF BitShift, s, i
<1>10. CASE Clr \/ Moveq
  <2>1. Safe(s, ClrExecute(s, i)) /\ Safe(s, MoveqExecute(s, i))
    BY <1>1, ClrMoveqSafe
  <2> QED
    BY <1>10, <2>1, ExecutesSafe DEF Clr, Moveq, s, i
<1>11. CASE Move
  BY <1>1, <1>11, MoveSafe, ExecutesSafe DEF Move, s, i
<1>12. CASE Ext
  BY <1>1, <1>12, ExtSafe, ExecutesSafe DEF Ext, s, i
<1>13. CASE Mul
  <2>1. \A u \in Undefined : Safe(s, MulExecute(s, i, u))
    BY <1>1, MulSafe
  <2> QED
    BY <1>13, <2>1, ExecutesSafe DEF Mul, s, i
<1>14. CASE Div
  <2>1. \A u \in Undefined : Safe(s, DivExecute(s, i, u))
    BY <1>1, DivSafe
  <2> QED
    BY <1>14, <2>1, ExecutesSafe DEF Div, s, i
<1>15. CASE Nop \/ Illegal
  <2>1. Safe(s, NopExecute(s)) /\ Safe(s, IllegalExecute(s))
    BY <1>1, NopIllegalSafe
  <2> QED
    BY <1>15, <2>1, ExecutesSafe DEF Nop, Illegal, s, i
<1>16. CASE Jmp \/ Jsr
  <2>1. Safe(s, JmpExecute(s, i)) /\ Safe(s, JsrExecute(s, i))
    BY <1>1, JumpSafe
  <2> QED
    BY <1>16, <2>1, ExecutesSafe DEF Jmp, Jsr, s, i
<1>17. CASE Rts
  BY <1>1, <1>17, RtsSafe, ExecutesSafe DEF Rts, s, i
<1>18. CASE Bcc
  BY <1>1, <1>18, BccSafe, ExecutesSafe DEF Bcc, s, i
<1>19. CASE Scc
  BY <1>1, <1>19, SccSafe, ExecutesSafe DEF Scc, s, i
<1>20. CASE Lea \/ Pea
  <2>1. (i.class = "Lea" => Safe(s, LeaExecute(s, i))) /\ Safe(s, PeaExecute(s, i))
    BY <1>1, LeaPeaSafe
  <2> QED
    BY <1>20, <2>1, ExecutesSafe DEF Lea, Pea, s, i
<1>21. CASE Link
  BY <1>1, <1>21, LinkSafe, ExecutesSafe DEF Link, s, i
<1>22. CASE Unlk
  BY <1>1, <1>22, UnlkSafe, ExecutesSafe DEF Unlk, s, i
<1>23. CASE FetchFault
  BY <1>23, ReadyFacts, FetchedFacts, QuietIsSafe DEF FetchFault
<1> QED
  BY <1>2, <1>3, <1>4, <1>5, <1>6, <1>7, <1>8, <1>9, <1>10, <1>11, <1>12, <1>13, <1>14,
     <1>15, <1>16, <1>17, <1>18, <1>19, <1>20, <1>21, <1>22, <1>23 DEF Step

(* The host's switch of mode changes the supervisor bit and nothing else.  *)
LEMMA HostModeFacts ==
  ASSUME TypeOK, HostMode
  PROVE  /\ cpu' \in Machine
         /\ Ok(cpu')
         /\ cpu'.reg = cpu.reg
         /\ cpu'.mem = cpu.mem
<1>1. Ready \in Machine /\ Ready.reg = cpu.reg /\ Ready.mem = cpu.mem /\ Ok(Ready)
  BY ReadyFacts DEF Ready, Ok, TypeOK, Machine
<1>2. cpu' = [Ready EXCEPT !.sup = ~cpu.sup]
  BY <1>1 DEF HostMode, SetSupervisor, Ready
<1>3. (~cpu.sup) \in BOOLEAN
  BY DEF TypeOK, Machine
<1> QED
  BY <1>1, <1>2, <1>3 DEF Machine, Ok
-----------------------------------------------------------------------------
(* The machine keeps its type through every sequence of steps, failed      *)
(* steps and mode switches: no register, byte or flag of the emulator ever *)
(* leaves the range of its C++ type, and no access leaves the memory.      *)
THEOREM TypeCorrect == Spec => []TypeOK
<1>1. Init => TypeOK
  BY BootAssumption DEF Init, TypeOK
<1>2. TypeOK /\ [Next]_cpu => TypeOK'
  <2> SUFFICES ASSUME TypeOK, [Next]_cpu PROVE TypeOK'
    OBVIOUS
  <2>1. CASE Step
    BY <2>1, StepSafe DEF Safe, TypeOK
  <2>2. CASE HostMode
    BY <2>2, HostModeFacts DEF TypeOK
  <2>3. CASE UNCHANGED cpu
    BY <2>3 DEF TypeOK
  <2> QED
    BY <2>1, <2>2, <2>3 DEF Next
<1> QED
  BY <1>1, <1>2, PTL DEF Spec

(* A step() that ends in an exception has changed pointer registers at     *)
(* most: in every execute() of src/instructions the accesses that can      *)
(* throw precede every write of memory, data registers and flags.          *)
THEOREM FailureAtomic == Spec => FailedStepIsQuiet
<1>1. TypeOK /\ [Next]_cpu => [~Ok(cpu') => OnlyPointersMoved]_cpu
  <2> SUFFICES ASSUME TypeOK, Next, ~Ok(cpu') PROVE OnlyPointersMoved
    OBVIOUS
  <2>1. CASE Step
    <3>1. Quiet(Ready, cpu')
      BY <2>1, StepSafe DEF Safe
    <3> QED
      BY <3>1, ReadyFacts DEF Quiet, OnlyPointersMoved
  <2>2. CASE HostMode
    BY <2>2, HostModeFacts
  <2> QED
    BY <2>1, <2>2 DEF Next
<1> QED
  BY <1>1, TypeCorrect, PTL DEF Spec, FailedStepIsQuiet

(* No instruction, failing or not, changes the stack pointer of the other  *)
(* mode or the mode itself: every register access goes through the bank    *)
(* selection of Registers::get and set.                                    *)
THEOREM BanksSeparate == Spec => StackBanksSeparate
<1>1. TypeOK /\ [Next]_cpu => [BanksKept]_cpu
  <2> SUFFICES ASSUME TypeOK, Next PROVE BanksKept
    OBVIOUS
  <2>1. CASE Step
    <3>1. Safe(Ready, cpu')
      BY <2>1, StepSafe
    <3>2. BankedOut(Ready) = BankedOut(cpu)
      BY ReadyFacts DEF BankedOut
    <3> QED
      BY <3>1, <3>2, ReadyFacts DEF Safe, BanksKept
  <2>2. CASE HostMode
    BY <2>2, HostModeFacts DEF BanksKept
  <2> QED
    BY <2>1, <2>2 DEF Next
<1> QED
  BY <1>1, TypeCorrect, PTL DEF Spec, StackBanksSeparate
=============================================================================
