---------------------------- MODULE LoaderProofs ----------------------------
(***************************************************************************)
(* load_elf keeps the promise of LoadPromise, for every file, every memory *)
(* and every sequence of loads and steps.                                  *)
(***************************************************************************)
EXTENDS Loader, OperandProofs

(***************************************************************************)
(* The promise is about the machine its caller sees: Caller is an instance *)
(* of LoadPromise with its own copy of every operator of the emulator.     *)
(* The operators have no hidden state, so each copy is the original.       *)
(***************************************************************************)
(* The enumerations of defines.hpp.                                        *)
LEMMA SameNumbers ==
  /\ Caller!SIZE_BYTE = SIZE_BYTE
  /\ Caller!SIZE_WORD = SIZE_WORD
  /\ Caller!SIZE_LONG = SIZE_LONG
  /\ Caller!DIRECT_DATA = DIRECT_DATA
  /\ Caller!DIRECT_ADDR = DIRECT_ADDR
  /\ Caller!INDIRECT = INDIRECT
  /\ Caller!POSTINCREMENT = POSTINCREMENT
  /\ Caller!PREDECREMENT = PREDECREMENT
  /\ Caller!DISPLACEMENT = DISPLACEMENT
  /\ Caller!INDEX = INDEX
  /\ Caller!PC_DISPLACEMENT = PC_DISPLACEMENT
  /\ Caller!PC_INDEX = PC_INDEX
  /\ Caller!ABS_WORD = ABS_WORD
  /\ Caller!ABS_LONG = ABS_LONG
  /\ Caller!IMMEDIATE = IMMEDIATE
  /\ Caller!UNKNOWN = UNKNOWN
  /\ Caller!REG_D0 = REG_D0
  /\ Caller!REG_A7 = REG_A7
  /\ Caller!REG_USP = REG_USP
  /\ Caller!REG_SSP = REG_SSP
  /\ Caller!REG_PC = REG_PC
  BY DEF SIZE_BYTE, SIZE_WORD, SIZE_LONG, DIRECT_DATA, DIRECT_ADDR, INDIRECT,
         POSTINCREMENT, PREDECREMENT, DISPLACEMENT, INDEX, PC_DISPLACEMENT, PC_INDEX,
         ABS_WORD, ABS_LONG, IMMEDIATE, UNKNOWN, REG_D0, REG_A7, REG_USP, REG_SSP, REG_PC,
         Caller!SIZE_BYTE, Caller!SIZE_WORD, Caller!SIZE_LONG, Caller!DIRECT_DATA,
         Caller!DIRECT_ADDR, Caller!INDIRECT, Caller!POSTINCREMENT, Caller!PREDECREMENT,
         Caller!DISPLACEMENT, Caller!INDEX, Caller!PC_DISPLACEMENT, Caller!PC_INDEX,
         Caller!ABS_WORD, Caller!ABS_LONG, Caller!IMMEDIATE, Caller!UNKNOWN,
         Caller!REG_D0, Caller!REG_A7, Caller!REG_USP, Caller!REG_SSP, Caller!REG_PC

(* The helpers.                                                            *)
LEMMA SameHelpers ==
  /\ Caller!Byte = Byte
  /\ Caller!Word = Word
  /\ Caller!Long = Long
  /\ Caller!AddrSpace = AddrSpace
  /\ \A size : Caller!Modulus(size) = Modulus(size)
  /\ \A v, size : Caller!MASK(v, size) = MASK(v, size)
  /\ \A v : Caller!MASK_ADDR(v) = MASK_ADDR(v)
  /\ \A v, size : Caller!IS_NEGATIVE(v, size) = IS_NEGATIVE(v, size)
  /\ \A v, size : Caller!IS_ZERO(v, size) = IS_ZERO(v, size)
  /\ \A v, size : Caller!Signed(v, size) = Signed(v, size)
  /\ \A v, size : Caller!SignExtend(v, size) = SignExtend(v, size)
  /\ \A v, size : Caller!IS_CARRY(v, size) = IS_CARRY(v, size)
  /\ \A a, b, size : Caller!IS_OVERFLOW(a, b, size) = IS_OVERFLOW(a, b, size)
  BY SameNumbers DEF Byte, Word, Long, AddrSpace, Modulus, MASK, MASK_ADDR, IS_NEGATIVE,
         IS_ZERO, Signed, SignExtend, IS_CARRY, IS_OVERFLOW, Caller!Byte, Caller!Word,
         Caller!Long, Caller!AddrSpace, Caller!Modulus, Caller!MASK, Caller!MASK_ADDR,
         Caller!IS_NEGATIVE, Caller!IS_ZERO, Caller!Signed, Caller!SignExtend,
         Caller!IS_CARRY, Caller!IS_OVERFLOW

(* The registers.                                                          *)
LEMMA SameRegisters ==
  /\ Caller!Address = Address
  /\ \A s : Caller!Ok(s) = Ok(s)
  /\ \A s, e : Caller!Throw(s, e) = Throw(s, e)
  /\ \A s, r : Caller!Bank(s, r) = Bank(s, r)
  /\ \A s, r, size : Caller!get(s, r, size) = get(s, r, size)
  /\ \A old, size, data : Caller!Merge(old, size, data) = Merge(old, size, data)
  /\ \A s, r, size, data : Caller!set(s, r, size, data) = set(s, r, size, data)
  /\ \A s : Caller!PC(s) = PC(s)
  /\ \A s, data : Caller!SetPC(s, data) = SetPC(s, data)
  /\ \A s, ccr : Caller!SetFlags(s, ccr) = SetFlags(s, ccr)
  /\ \A s, value : Caller!SetSupervisor(s, value) = SetSupervisor(s, value)
  BY SameNumbers, SameHelpers DEF Address, Ok, Throw, Bank, get, Merge, set, PC, SetPC,
         SetFlags, SetSupervisor, Caller!Address, Caller!Ok, Caller!Throw, Caller!Bank,
         Caller!get, Caller!Merge, Caller!set, Caller!PC, Caller!SetPC, Caller!SetFlags,
         Caller!SetSupervisor

(* The bytes of the memory.                                                *)
LEMMA SameBytes ==
  /\ \A v, k : Caller!ByteOf(v, k) = ByteOf(v, k)
  /\ \A m, a, size : Caller!read_real_mem(m, a, size) = read_real_mem(m, a, size)
  /\ \A m, a, size, data :
       Caller!write_real_mem(m, a, size, data) = write_real_mem(m, a, size, data)
  /\ \A address, size : Caller!AccessError(address, size) = AccessError(address, size)
  BY SameHelpers, SameNumbers, SameRegisters DEF ByteOf, read_real_mem, write_real_mem,
         AccessError, Caller!ByteOf, Caller!read_real_mem, Caller!write_real_mem,
         Caller!AccessError

(* Checked memory access.                                                  *)
LEMMA SameMemory ==
  /\ \A s, v : Caller!Result(s, v) = Result(s, v)
  /\ \A s, address, size : Caller!MemGet(s, address, size) = MemGet(s, address, size)
  /\ \A s, address, size, data :
       Caller!MemSet(s, address, size, data) = MemSet(s, address, size, data)
  BY SameHelpers, SameRegisters, SameBytes DEF Result, MemGet, MemSet, Caller!Result,
         Caller!MemGet, Caller!MemSet

(* The stack, extension words and the parts of an address.                 *)
LEMMA SameStack ==
  /\ \A s, size : Caller!stackPop(s, size) = stackPop(s, size)
  /\ \A s, size, data : Caller!stackPush(s, size, data) = stackPush(s, size, data)
  /\ \A mode, size : Caller!ExtensionSize(mode, size) = ExtensionSize(mode, size)
  /\ \A s, n : Caller!Peek(s, n) = Peek(s, n)
  /\ \A s, n, r : Caller!Consume(s, n, r) = Consume(s, n, r)
  /\ \A s, n : Caller!Fetch(s, n) = Fetch(s, n)
  /\ \A r, size : Caller!Stride(r, size) = Stride(r, size)
  /\ \A s, ext : Caller!IndexOffset(s, ext) = IndexOffset(s, ext)
  /\ \A s, mode, r : Caller!Base(s, mode, r) = Base(s, mode, r)
  /\ \A s, mode, r, size, ext :
       Caller!Offset(s, mode, r, size, ext) = Offset(s, mode, r, size, ext)
  BY SameNumbers, SameRegisters, SameMemory, SameHelpers DEF stackPop, stackPush,
         ExtensionSize, Peek, Consume, Fetch, Stride, IndexOffset, Base, Offset,
         Caller!stackPop, Caller!stackPush, Caller!ExtensionSize, Caller!Peek,
         Caller!Consume, Caller!Fetch, Caller!Stride, Caller!IndexOffset, Caller!Base,
         Caller!Offset

(* Effective addresses and the accesses to operands.                       *)
LEMMA SameOperandAccess ==
  /\ \A s, mode, r, size, ext :
       Caller!EffectiveAddress(s, mode, r, size, ext) = EffectiveAddress(s, mode, r, size, ext)
  /\ \A mode, ext : Caller!SignedAbs(mode, ext) = SignedAbs(mode, ext)
  /\ \A s, mode, r, a, size : Caller!Bump(s, mode, r, a, size) = Bump(s, mode, r, a, size)
  /\ \A s, mode, r, e : Caller!Resolved(s, mode, r, e) = Resolved(s, mode, r, e)
  /\ \A s, mode, r : Caller!getControlAddress(s, mode, r) = getControlAddress(s, mode, r)
  /\ \A s, mode, r, size, e, d :
       Caller!Accessed(s, mode, r, size, e, d) = Accessed(s, mode, r, size, e, d)
  /\ \A d, mode, r, a, size :
       Caller!Bumped(d, mode, r, a, size) = Bumped(d, mode, r, a, size)
  /\ \A t, mode, r, a, size :
       Caller!Loaded(t, mode, r, a, size) = Loaded(t, mode, r, a, size)
  /\ \A s, mode, r, size, e :
       Caller!getDataWith(s, mode, r, size, e) = getDataWith(s, mode, r, size, e)
  /\ \A s, mode, r, size : Caller!getData(s, mode, r, size) = getData(s, mode, r, size)
  /\ \A s, mode, r, size, e :
       Caller!SignedAddress(s, mode, r, size, e) = SignedAddress(s, mode, r, size, e)
  /\ \A s, mode, r, size, e :
       Caller!getDataSilentWith(s, mode, r, size, e) = getDataSilentWith(s, mode, r, size, e)
  /\ \A s, mode, r, size :
       Caller!getDataSilent(s, mode, r, size) = getDataSilent(s, mode, r, size)
  /\ \A s, mode, r, size, data, p, a :
       Caller!StoreAt(s, mode, r, size, data, p, a) = StoreAt(s, mode, r, size, data, p, a)
  /\ \A s, mode, r, size, data, p :
       Caller!setDataWith(s, mode, r, size, data, p) = setDataWith(s, mode, r, size, data, p)
  /\ \A s, mode, r, size, data :
       Caller!setData(s, mode, r, size, data) = setData(s, mode, r, size, data)
  /\ \A s, cond : Caller!checkCondition(s, cond) = checkCondition(s, cond)
  BY SameHelpers, SameStack, SameNumbers, SameRegisters, SameMemory DEF EffectiveAddress,
         SignedAbs, Bump, Resolved, getControlAddress, Accessed, Bumped, Loaded,
         getDataWith, getData, SignedAddress, getDataSilentWith, getDataSilent, StoreAt,
         setDataWith, setData, checkCondition, Caller!EffectiveAddress, Caller!SignedAbs,
         Caller!Bump, Caller!Resolved, Caller!getControlAddress, Caller!Accessed,
         Caller!Bumped, Caller!Loaded, Caller!getDataWith, Caller!getData,
         Caller!SignedAddress, Caller!getDataSilentWith, Caller!getDataSilent,
         Caller!StoreAt, Caller!setDataWith, Caller!setData, Caller!checkCondition

(* The operands of an instruction.                                         *)
LEMMA SameAccesses ==
  /\ Caller!Undefined = Undefined
  /\ \A s : Caller!Begin(s) = Begin(s)
  /\ \A s, i : Caller!Source(s, i) = Source(s, i)
  /\ \A s, i : Caller!Immediate(s, i) = Immediate(s, i)
  /\ \A s, i : Caller!Dest(s, i) = Dest(s, i)
  /\ \A s, i, v : Caller!Store(s, i, v) = Store(s, i, v)
  BY SameNumbers, SameRegisters, SameOperandAccess DEF Undefined, Begin, Source,
         Immediate, Dest, Store, Caller!Undefined, Caller!Begin, Caller!Source,
         Caller!Immediate, Caller!Dest, Caller!Store

(* The condition codes of a sum and a comparison.                          *)
LEMMA SameFlags ==
  /\ \A src, dest, r, size :
       Caller!ArithFlags(src, dest, r, size) = ArithFlags(src, dest, r, size)
  /\ \A s, src, dest, r, size :
       Caller!CompareFlags(s, src, dest, r, size) = CompareFlags(s, src, dest, r, size)
  BY SameHelpers DEF ArithFlags, CompareFlags, Caller!ArithFlags, Caller!CompareFlags

(* The frames arithmetic and logic share.                                  *)
LEMMA SameArith ==
  /\ \A s, src, dest, r, size :
       Caller!ExtendedFlags(s, src, dest, r, size) = ExtendedFlags(s, src, dest, r, size)
  /\ \A s, r, size : Caller!LogicFlags(s, r, size) = LogicFlags(s, r, size)
  /\ \A op, a, b : Caller!Bitwise(op, a, b) = Bitwise(op, a, b)
  /\ \A a, d : Caller!Pair(a, d) = Pair(a, d)
  /\ \A a, i : Caller!ReadBoth(a, i) = ReadBoth(a, i)
  /\ \A s, i : Caller!FromSource(s, i) = FromSource(s, i)
  /\ \A s, i : Caller!FromImmediate(s, i) = FromImmediate(s, i)
  /\ \A s, i : Caller!FromOpcode(s, i) = FromOpcode(s, i)
  /\ \A o, i, r : Caller!Arith(o, i, r) = Arith(o, i, r)
  /\ \A t, i, r : Caller!Describe(t, i, r) = Describe(t, i, r)
  BY SameHelpers, SameFlags, SameBytes, SameAccesses, SameMemory, SameRegisters DEF
         ExtendedFlags, LogicFlags, Bitwise, Pair, ReadBoth, FromSource, FromImmediate,
         FromOpcode, Arith, Describe, Caller!ExtendedFlags, Caller!LogicFlags,
         Caller!Bitwise, Caller!Pair, Caller!ReadBoth, Caller!FromSource,
         Caller!FromImmediate, Caller!FromOpcode, Caller!Arith, Caller!Describe

(* Addition, subtraction and negation.                                     *)
LEMMA SameSums ==
  /\ \A o, i, r : Caller!Logic(o, i, r) = Logic(o, i, r)
  /\ \A o : Caller!Sum(o) = Sum(o)
  /\ \A o : Caller!Difference(o) = Difference(o)
  /\ \A o, i : Caller!AddTo(o, i) = AddTo(o, i)
  /\ \A o, i : Caller!SubtractFrom(o, i) = SubtractFrom(o, i)
  /\ \A s, i : Caller!AddExecute(s, i) = AddExecute(s, i)
  /\ \A s, i : Caller!SubExecute(s, i) = SubExecute(s, i)
  /\ \A s, i : Caller!AddiExecute(s, i) = AddiExecute(s, i)
  /\ \A s, i : Caller!SubiExecute(s, i) = SubiExecute(s, i)
  /\ \A o, i : Caller!AddToAddress(o, i) = AddToAddress(o, i)
  /\ \A o, i : Caller!SubtractFromAddress(o, i) = SubtractFromAddress(o, i)
  /\ \A s, i : Caller!AddaExecute(s, i) = AddaExecute(s, i)
  /\ \A s, i : Caller!SubaExecute(s, i) = SubaExecute(s, i)
  /\ \A s, i : Caller!AddqExecute(s, i) = AddqExecute(s, i)
  /\ \A s, i : Caller!SubqExecute(s, i) = SubqExecute(s, i)
  /\ \A s : Caller!Extend(s) = Extend(s)
  /\ \A s, o, i, r : Caller!ExtendedArith(s, o, i, r) = ExtendedArith(s, o, i, r)
  /\ \A s, o, i : Caller!AddExtended(s, o, i) = AddExtended(s, o, i)
  /\ \A s, o, i : Caller!SubtractExtended(s, o, i) = SubtractExtended(s, o, i)
  /\ \A s, i : Caller!AddxExecute(s, i) = AddxExecute(s, i)
  /\ \A s, i : Caller!SubxExecute(s, i) = SubxExecute(s, i)
  /\ \A o, i : Caller!Negate(o, i) = Negate(o, i)
  /\ \A s, i : Caller!NegExecute(s, i) = NegExecute(s, i)
  /\ \A o, i : Caller!Compared(o, i) = Compared(o, i)
  BY SameAccesses, SameArith, SameHelpers, SameNumbers, SameRegisters, SameMemory, SameFlags,
     ZenonT(60) DEF
         Logic, Sum, Difference, AddTo, SubtractFrom, AddExecute, SubExecute, AddiExecute,
         SubiExecute, AddToAddress, SubtractFromAddress, AddaExecute, SubaExecute,
         AddqExecute, SubqExecute, Extend, ExtendedArith, AddExtended, SubtractExtended,
         AddxExecute, SubxExecute, Negate, NegExecute, Compared, Caller!Logic, Caller!Sum,
         Caller!Difference, Caller!AddTo, Caller!SubtractFrom, Caller!AddExecute,
         Caller!SubExecute, Caller!AddiExecute, Caller!SubiExecute, Caller!AddToAddress,
         Caller!SubtractFromAddress, Caller!AddaExecute, Caller!SubaExecute,
         Caller!AddqExecute, Caller!SubqExecute, Caller!Extend, Caller!ExtendedArith,
         Caller!AddExtended, Caller!SubtractExtended, Caller!AddxExecute,
         Caller!SubxExecute, Caller!Negate, Caller!NegExecute, Caller!Compared

(* Comparison and logic.                                                   *)
LEMMA SameComparisons ==
  /\ \A a, i : Caller!Compare(a, i) = Compare(a, i)
  /\ \A s, i : Caller!CmpExecute(s, i) = CmpExecute(s, i)
  /\ \A s, i : Caller!CmpiExecute(s, i) = CmpiExecute(s, i)
  /\ \A a, size : Caller!Widened(a, size) = Widened(a, size)
  /\ \A s, i : Caller!CmpaExecute(s, i) = CmpaExecute(s, i)
  /\ \A a, i : Caller!Test(a, i) = Test(a, i)
  /\ \A s, i : Caller!TstExecute(s, i) = TstExecute(s, i)
  /\ \A op, o, i : Caller!Combine(op, o, i) = Combine(op, o, i)
  /\ \A s, i : Caller!AndExecute(s, i) = AndExecute(s, i)
  /\ \A s, i : Caller!OrExecute(s, i) = OrExecute(s, i)
  /\ \A s, i : Caller!EorExecute(s, i) = EorExecute(s, i)
  /\ \A s, i : Caller!AndiExecute(s, i) = AndiExecute(s, i)
  /\ \A s, i : Caller!OriExecute(s, i) = OriExecute(s, i)
  /\ \A s, i : Caller!EoriExecute(s, i) = EoriExecute(s, i)
  BY SameOperandAccess, SameArith, SameSums, SameAccesses, SameNumbers, SameHelpers, SameMemory,
     SameRegisters DEF
         Compare, CmpExecute, CmpiExecute, Widened, CmpaExecute, Test,
         TstExecute, Combine, AndExecute, OrExecute, EorExecute,
         AndiExecute, OriExecute, EoriExecute, Caller!Compare,
         Caller!CmpExecute, Caller!CmpiExecute, Caller!Widened,
         Caller!CmpaExecute, Caller!Test, Caller!TstExecute, Caller!Combine,
         Caller!AndExecute, Caller!OrExecute, Caller!EorExecute,
         Caller!AndiExecute, Caller!OriExecute, Caller!EoriExecute

(* Bits and moves.                                                         *)
LEMMA SameMoves ==
  /\ \A o, i : Caller!ChangeBit(o, i) = ChangeBit(o, i)
  /\ \A s, i : Caller!BitManipExecute(s, i) = BitManipExecute(s, i)
  /\ \A s, i : Caller!ClrExecute(s, i) = ClrExecute(s, i)
  /\ \A s, i : Caller!MoveqExecute(s, i) = MoveqExecute(s, i)
  /\ \A t, i, v : Caller!StoreLong(t, i, v) = StoreLong(t, i, v)
  /\ \A a, i : Caller!MoveTo(a, i) = MoveTo(a, i)
  /\ \A s, i : Caller!MoveExecute(s, i) = MoveExecute(s, i)
  /\ \A b, i : Caller!ExtendByte(b, i) = ExtendByte(b, i)
  /\ \A s, i : Caller!ExtExecute(s, i) = ExtExecute(s, i)
  /\ \A o, i, u : Caller!Multiply(o, i, u) = Multiply(o, i, u)
<1>1. /\ \A o, i : Caller!ChangeBit(o, i) = ChangeBit(o, i)
      /\ \A s, i : Caller!BitManipExecute(s, i) = BitManipExecute(s, i)
  BY SameOperandAccess, SameArith, SameSums, SameAccesses, SameNumbers, SameHelpers, SameMemory,
     SameRegisters, SameComparisons DEF ChangeBit, BitManipExecute,
     Caller!ChangeBit, Caller!BitManipExecute
<1>2. /\ \A s, i : Caller!ClrExecute(s, i) = ClrExecute(s, i)
      /\ \A s, i : Caller!MoveqExecute(s, i) = MoveqExecute(s, i)
  BY SameOperandAccess, SameArith, SameSums, SameAccesses, SameNumbers, SameHelpers, SameMemory,
     SameRegisters, SameComparisons DEF ClrExecute, MoveqExecute,
     Caller!ClrExecute, Caller!MoveqExecute
<1>3. /\ \A t, i, v : Caller!StoreLong(t, i, v) = StoreLong(t, i, v)
      /\ \A a, i : Caller!MoveTo(a, i) = MoveTo(a, i)
      /\ \A s, i : Caller!MoveExecute(s, i) = MoveExecute(s, i)
  BY SameOperandAccess, SameArith, SameSums, SameAccesses, SameNumbers, SameHelpers, SameMemory,
     SameRegisters, SameComparisons DEF StoreLong, MoveTo, MoveExecute,
     Caller!StoreLong, Caller!MoveTo, Caller!MoveExecute
<1>4. /\ \A b, i : Caller!ExtendByte(b, i) = ExtendByte(b, i)
      /\ \A s, i : Caller!ExtExecute(s, i) = ExtExecute(s, i)
  <2>1. \A b, i : Caller!ExtendByte(b, i) = ExtendByte(b, i)
    BY SameSums, SameHelpers, SameNumbers DEF ExtendByte, Caller!ExtendByte
  <2>2. \A s, i : Caller!ExtExecute(s, i) = ExtExecute(s, i)
    BY <2>1, SameOperandAccess, SameAccesses, SameArith, SameNumbers
       DEF ExtExecute, Caller!ExtExecute
  <2> QED BY <2>1, <2>2
<1>5. \A o, i, u : Caller!Multiply(o, i, u) = Multiply(o, i, u)
  BY <1>3, SameArith, SameRegisters, SameFlags, SameHelpers, SameNumbers DEF Multiply, Caller!Multiply
<1> QED BY <1>1, <1>2, <1>3, <1>4, <1>5

(* Multiplication.                                                         *)
LEMMA SameProducts ==
  /\ \A s, i, u : Caller!MulExecute(s, i, u) = MulExecute(s, i, u)
  /\ \A a, b : Caller!Quotient(a, b) = Quotient(a, b)
  BY SameArith, SameMoves DEF MulExecute, Quotient, Caller!MulExecute, Caller!Quotient

(* Division.                                                               *)
LEMMA SameQuotients ==
  /\ \A o, i, u : Caller!Divide(o, i, u) = Divide(o, i, u)
  /\ \A s, i, u : Caller!DivExecute(s, i, u) = DivExecute(s, i, u)
  /\ \A C, N, Z : Caller!ShiftFlags(C, N, Z) = ShiftFlags(C, N, Z)
  /\ \A C, r, size : Caller!ResultFlags(C, r, size) = ResultFlags(C, r, size)
  BY SameNumbers, SameHelpers, SameRegisters, SameArith, SameComparisons, SameMoves,
     SameProducts DEF
         Divide, DivExecute, ShiftFlags, ResultFlags, Caller!Divide, Caller!DivExecute,
         Caller!ShiftFlags, Caller!ResultFlags

(* Shifts and extended rotations.                                          *)
LEMMA SameShifts ==
  /\ \A v, n, size : Caller!LeftShift(v, n, size) = LeftShift(v, n, size)
  /\ \A v, n, size, signed, u :
       Caller!RightShift(v, n, size, signed, u) = RightShift(v, n, size, signed, u)
  /\ \A v, n, size, left, carry, u :
       Caller!RotateExtend(v, n, size, left, carry, u) = RotateExtend(v, n, size, left, carry, u)
  BY SameHelpers, SameQuotients, SameNumbers DEF LeftShift, RightShift, RotateExtend,
         Caller!LeftShift, Caller!RightShift, Caller!RotateExtend

(* Rotations.                                                              *)
LEMMA SameRotate ==
  \A v, n, size, left, u : Caller!Rotate(v, n, size, left, u) = Rotate(v, n, size, left, u)
<1> TAKE v, n, size, left, u
<1> DEFINE bool  == IF v = 0 THEN 0 ELSE 1
           carry == IF n > Bits + (IF left THEN 0 ELSE 1) THEN u.C
                    ELSE IF left THEN v \div Pow2[Bits - n] # 0 ELSE v # 0
<1>1. Rotate(v, n, size, left, u) =
        IF n > size * Bits THEN ShiftFlags(carry, FALSE, u.Z) ELSE ResultFlags(carry, bool, size)
  BY Zenon DEF Rotate
<1>2. Caller!Rotate(v, n, size, left, u) =
        IF n > size * Bits THEN Caller!ShiftFlags(carry, FALSE, u.Z)
        ELSE Caller!ResultFlags(carry, bool, size)
  BY Zenon DEF Caller!Rotate
<1> HIDE DEF bool, carry
<1> QED
  BY <1>1, <1>2, SameQuotients

(* What a shift does with its kind.                                        *)
LEMMA SameShift ==
  \A s, d, i, u : Caller!Shift(s, d, i, u) = Shift(s, d, i, u)
<1> TAKE s, d, i, u
<1> DEFINE n == IF i.src_mode = IMMEDIATE THEN i.imm
                ELSE get(d.st, i.src_reg, i.data_size) % (8 * Bits)
           f == CASE i.kind = 0 /\ ~i.left -> RightShift(d.val, n, i.data_size, TRUE, u)
                  [] i.kind = 1 /\ ~i.left -> RightShift(d.val, n, i.data_size, FALSE, u)
                  [] i.kind \in {0, 1} /\ i.left -> LeftShift(d.val, n, i.data_size)
                  [] i.kind = 2 -> RotateExtend(d.val, n, i.data_size, i.left, s.ccr.C, u)
                  [] OTHER -> Rotate(d.val, n, i.data_size, i.left, u)
           flags(g) == [ X |-> IF i.kind = 3 THEN s.ccr.X ELSE g.C,
                         N |-> g.N, Z |-> g.Z, V |-> FALSE, C |-> g.C ]
           n1 == IF i.src_mode = Caller!IMMEDIATE THEN i.imm
                 ELSE Caller!get(d.st, i.src_reg, i.data_size) % (8 * Bits)
           f1 == CASE i.kind = 0 /\ ~i.left -> Caller!RightShift(d.val, n1, i.data_size, TRUE, u)
                   [] i.kind = 1 /\ ~i.left -> Caller!RightShift(d.val, n1, i.data_size, FALSE, u)
                   [] i.kind \in {0, 1} /\ i.left -> Caller!LeftShift(d.val, n1, i.data_size)
                   [] i.kind = 2 -> Caller!RotateExtend(d.val, n1, i.data_size, i.left, s.ccr.C, u)
                   [] OTHER -> Caller!Rotate(d.val, n1, i.data_size, i.left, u)
<1>1. Shift(s, d, i, u) = SetFlags(d.st, flags(f))
  BY Zenon DEF Shift
<1>2. Caller!Shift(s, d, i, u) = Caller!SetFlags(d.st, flags(f1))
  BY Zenon DEF Caller!Shift
<1>3. n1 = n
  BY SameNumbers, SameRegisters
<1> HIDE DEF n, n1
<1>4. f1 = f
  BY <1>3, SameShifts, SameRotate
<1> HIDE DEF f, f1, flags
<1> QED
  BY <1>1, <1>2, <1>4, SameRegisters

(* Shifts, jumps, calls and the rest of the classes.                       *)
LEMMA SameExecutes ==
  /\ \A s, i, u : Caller!BitShiftExecute(s, i, u) = BitShiftExecute(s, i, u)
  /\ \A s : Caller!NopExecute(s) = NopExecute(s)
  /\ \A s : Caller!IllegalExecute(s) = IllegalExecute(s)
  /\ \A s, i : Caller!JmpExecute(s, i) = JmpExecute(s, i)
  /\ \A s, i : Caller!JsrExecute(s, i) = JsrExecute(s, i)
  /\ \A s : Caller!RtsExecute(s) = RtsExecute(s)
  /\ \A e, i, pc : Caller!Branch(e, i, pc) = Branch(e, i, pc)
  /\ \A s, i : Caller!BccExecute(s, i) = BccExecute(s, i)
  /\ \A s, i : Caller!SccExecute(s, i) = SccExecute(s, i)
  /\ \A s, i : Caller!LeaExecute(s, i) = LeaExecute(s, i)
  /\ \A s, i : Caller!PeaExecute(s, i) = PeaExecute(s, i)
  /\ \A s, i : Caller!LinkExecute(s, i) = LinkExecute(s, i)
  /\ \A s, i : Caller!UnlkExecute(s, i) = UnlkExecute(s, i)
  BY SameAccesses, SameShift, SameRegisters, SameOperandAccess, SameNumbers, SameStack, SameHelpers, SameMemory DEF
         BitShiftExecute, NopExecute, IllegalExecute, JmpExecute, JsrExecute, RtsExecute,
         Branch, BccExecute, SccExecute, LeaExecute, PeaExecute, LinkExecute, UnlkExecute,
         Caller!BitShiftExecute, Caller!NopExecute, Caller!IllegalExecute,
         Caller!JmpExecute, Caller!JsrExecute, Caller!RtsExecute, Caller!Branch,
         Caller!BccExecute, Caller!SccExecute, Caller!LeaExecute, Caller!PeaExecute,
         Caller!LinkExecute, Caller!UnlkExecute

(* The stores of a file, and the machine a load starts.                    *)
LEMMA SameFile ==
  /\ \A f : Caller!Accepted(f) = Accepted(f)
  /\ \A c : Caller!Loadable(c) = Loadable(c)
  /\ \A f : Caller!Writes(f) = Writes(f)
  /\ \A v, w : Caller!Earlier(v, w) = Earlier(v, w)
  /\ \A c, i : Caller!ByteAddress(c, i) = ByteAddress(c, i)
  /\ \A f, w : Caller!Place(f, w) = Place(f, w)
  /\ \A f, w : Caller!Content(f, w) = Content(f, w)
  /\ \A f, w : Caller!Fits(f, w) = Fits(f, w)
  /\ \A s, entry : Caller!Started(s, entry) = Started(s, entry)
  BY SameHelpers, SameNumbers, SameRegisters DEF Accepted, Loadable, Writes, Earlier,
         ByteAddress, Place, Content, Fits, Started, Caller!Accepted, Caller!Loadable,
         Caller!Writes, Caller!Earlier, Caller!ByteAddress, Caller!Place, Caller!Content,
         Caller!Fits, Caller!Started
(* What a step() reads and decides is the same for both machines when the  *)
(* caller sees the machine as it is.                                       *)
LEMMA SameFetch ==
  ASSUME seen = cpu, seen' = cpu'
  PROVE  /\ Caller!Fetched = Fetched
         /\ Caller!Decoded = Decoded
         /\ Caller!Alive = Alive
         /\ Caller!FetchFault = FetchFault
         /\ Caller!HostMode = HostMode
         /\ \A class, result : Caller!Executes(class, result) = Executes(class, result)
<1>1. Caller!Fetched = Fetched
  BY SameNumbers, SameRegisters, SameMemory DEF Fetched, Caller!Fetched
<1>2. Caller!Decoded = Decoded
  BY <1>1 DEF Decoded, Decode, Caller!Decoded, Caller!Decode
<1>3. Caller!Alive = Alive
  BY DEF Alive, Caller!Alive
<1>4. Caller!FetchFault = FetchFault
  BY <1>1, <1>3, SameRegisters DEF FetchFault, Caller!FetchFault
<1>5. Caller!HostMode = HostMode
  BY <1>3, SameRegisters DEF HostMode, Caller!HostMode
<1>6. \A class, result : Caller!Executes(class, result) = Executes(class, result)
  BY <1>1, <1>2, <1>3, SameRegisters DEF Executes, Caller!Executes
<1> QED
  BY <1>1, <1>2, <1>3, <1>4, <1>5, <1>6
(* So every step of the host is a step of the caller's machine.            *)
LEMMA SameNext ==
  ASSUME seen = cpu, seen' = cpu', Next
  PROVE  Caller!Next
<1>1. /\ Caller!Add = Add /\ Caller!Adda = Adda /\ Caller!Addi = Addi
      /\ Caller!Addq = Addq /\ Caller!Addx = Addx /\ Caller!Sub = Sub
      /\ Caller!Suba = Suba /\ Caller!Subi = Subi /\ Caller!Subq = Subq
      /\ Caller!Subx = Subx /\ Caller!Neg = Neg
  BY SameFetch, SameSums
     DEF Add, Adda, Addi, Addq, Addx, Sub, Suba, Subi, Subq, Subx, Neg, Caller!Add,
         Caller!Adda, Caller!Addi, Caller!Addq, Caller!Addx, Caller!Sub, Caller!Suba,
         Caller!Subi, Caller!Subq, Caller!Subx, Caller!Neg
<1>2. /\ Caller!Cmp = Cmp /\ Caller!Cmpi = Cmpi /\ Caller!Cmpa = Cmpa
      /\ Caller!Tst = Tst /\ Caller!And = And /\ Caller!Or = Or
      /\ Caller!Eor = Eor /\ Caller!Andi = Andi /\ Caller!Ori = Ori
      /\ Caller!Eori = Eori /\ Caller!BitManip = BitManip /\ Caller!Clr = Clr
      /\ Caller!Moveq = Moveq /\ Caller!Move = Move /\ Caller!Ext = Ext
  BY SameFetch, SameComparisons, SameMoves
     DEF Cmp, Cmpi, Cmpa, Tst, And, Or, Eor, Andi, Ori, Eori, BitManip, Clr, Moveq,
         Move, Ext, Caller!Cmp, Caller!Cmpi, Caller!Cmpa, Caller!Tst, Caller!And,
         Caller!Or, Caller!Eor, Caller!Andi, Caller!Ori, Caller!Eori, Caller!BitManip,
         Caller!Clr, Caller!Moveq, Caller!Move, Caller!Ext
<1>3. /\ Caller!Mul = Mul /\ Caller!Div = Div /\ Caller!BitShift = BitShift
  BY SameFetch, SameAccesses, SameProducts, SameQuotients, SameExecutes
     DEF Mul, Div, BitShift, Caller!Mul, Caller!Div, Caller!BitShift
<1>4. /\ Caller!Nop = Nop /\ Caller!Illegal = Illegal /\ Caller!Jmp = Jmp
      /\ Caller!Jsr = Jsr /\ Caller!Rts = Rts /\ Caller!Bcc = Bcc
      /\ Caller!Scc = Scc /\ Caller!Lea = Lea /\ Caller!Pea = Pea
      /\ Caller!Link = Link /\ Caller!Unlk = Unlk
  BY SameFetch, SameExecutes
     DEF Nop, Illegal, Jmp, Jsr, Rts, Bcc, Scc, Lea, Pea, Link, Unlk, Caller!Nop,
         Caller!Illegal, Caller!Jmp, Caller!Jsr, Caller!Rts, Caller!Bcc, Caller!Scc,
         Caller!Lea, Caller!Pea, Caller!Link, Caller!Unlk
<1> QED
  BY <1>1, <1>2, <1>3, <1>4, SameFetch DEF Next, Step, Caller!Next, Caller!Step
-----------------------------------------------------------------------------
(* The stores load_elf has made so far.                                    *)
Stores ==
  { w \in Writes(load.file) :
      w[1] < load.k \/ (load.at = "bytes" /\ w[1] = load.k /\ w[2] <= load.i) }

(* w is the last store of W to its address.                                *)
Last(f, W, w) ==
  \A v \in W : Place(f, v) = Place(f, w) => v = w \/ Earlier(v, w)

(* Each address that W stores to has a last store.                         *)
Ordered(f, W) ==
  \A v \in W : \E w \in W : Place(f, w) = Place(f, v) /\ Last(f, W, w)

LoadType ==
  [ at : {"idle", "sections", "bytes"}, file : Files, k : Nat \ {0}, i : Nat ]

(* Where the loops are.                                                    *)
InLoops ==
  /\ Accepted(load.file)
  /\ load.k <= Len(Sections) + 1
  /\ load.at = "bytes" =>
       /\ load.k <= Len(Sections)
       /\ Loadable(Sections[load.k])
       /\ load.i <= Len(Sections[load.k].data)

(* What the caller does not see yet: the stores made so far, all inside    *)
(* the memory, on the machine it called load_elf with.                     *)
Progress ==
  /\ seen.exc # "fatal"
  /\ Ordered(load.file, Stores)
  /\ \A w \in Stores : Fits(load.file, w)
  /\ cpu = [seen EXCEPT !.exc = "none",
                        !.mem = Caller!Image(load.file, Stores, seen.mem)]

(***************************************************************************)
(* The inductive invariant of load_elf.                                    *)
(***************************************************************************)
LoaderInv ==
  /\ TypeOK
  /\ seen \in Machine
  /\ load \in LoadType
  /\ Idle => seen = cpu
  /\ ~Idle => InLoops /\ Progress
(* The stores of a file: byte i of a loadable section k.                   *)
LEMMA WriteFacts ==
  ASSUME NEW f \in ElfFiles
  PROVE  /\ \A w \in Writes(f) :
              /\ w = <<w[1], w[2]>>
              /\ w[1] \in 1 .. Len(f.sections) /\ w[2] \in 1 .. Len(f.sections[w[1]].data)
              /\ Loadable(f.sections[w[1]])
              /\ Place(f, w) \in 0 .. AddrSpace - 1
              /\ Content(f, w) \in ByteVal
         /\ \A k \in 1 .. Len(f.sections) :
              Loadable(f.sections[k]) =>
                \A i \in 1 .. Len(f.sections[k].data) : <<k, i>> \in Writes(f)
<1>1. ASSUME NEW w \in Writes(f)
      PROVE  /\ w = <<w[1], w[2]>>
             /\ w[1] \in 1 .. Len(f.sections) /\ w[2] \in 1 .. Len(f.sections[w[1]].data)
             /\ Loadable(f.sections[w[1]])
  BY <1>1 DEF Writes
<1>2. ASSUME NEW w \in Writes(f)
      PROVE  Place(f, w) \in 0 .. AddrSpace - 1 /\ Content(f, w) \in ByteVal
  <2> DEFINE c == f.sections[w[1]]
  <2>1. c \in Section
    BY <1>1 DEF ElfFiles
  <2>2. c.address \in Int /\ w[2] \in Int /\ c.data[w[2]] \in ByteVal
    BY <1>1, <2>1, Positive DEF Section, LongVal
  <2> DEFINE x == c.address + w[2] - 1
  <2>3. x \in Int
    BY <2>2
  <2>4. Place(f, w) = (x % Long) % AddrSpace /\ Content(f, w) = c.data[w[2]]
    BY DEF Place, Content, MASK_ADDR, ByteAddress
  <2> HIDE DEF x, c
  <2>5. x % Long \in Int
    BY <2>3, ModRange, Positive
  <2> QED
    BY <2>2, <2>4, <2>5, ModRange, Positive
<1>3. ASSUME NEW k \in 1 .. Len(f.sections), Loadable(f.sections[k]),
             NEW i \in 1 .. Len(f.sections[k].data)
      PROVE  <<k, i>> \in Writes(f)
  BY <1>3 DEF Writes
<1> QED
  BY <1>1, <1>2, <1>3

(* Before the first store the memory is what it was.                       *)
LEMMA ImageOfNothing ==
  ASSUME NEW f, NEW m \in [Address -> ByteVal]
  PROVE  Caller!Image(f, {}, m) = m
  BY SameRegisters DEF Caller!Image

(* The last store to an address, if there is one, decides its content.     *)
LEMMA ImageAt ==
  ASSUME NEW f \in ElfFiles, NEW W, W \subseteq Writes(f), Ordered(f, W), NEW m,
         NEW a \in Address
  PROVE  /\ \A w \in W : (Place(f, w) = a /\ Last(f, W, w)) =>
              Caller!Image(f, W, m)[a] = Content(f, w)
         /\ (\A w \in W : Place(f, w) # a) => Caller!Image(f, W, m)[a] = m[a]
<1> DEFINE P(w) == /\ Caller!Place(f, w) = a
                   /\ \A v \in W : Caller!Place(f, v) = a => v = w \/ Caller!Earlier(v, w)
           c == CHOOSE w \in W : P(w)
<1>1. Caller!Image(f, W, m)[a] =
        IF \E w \in W : Caller!Place(f, w) = a THEN Caller!Content(f, c) ELSE m[a]
  BY SameRegisters DEF Caller!Image
<1>2. ASSUME NEW w \in W, Place(f, w) = a, Last(f, W, w)
      PROVE  Caller!Image(f, W, m)[a] = Content(f, w)
  <2>1. P(w)
    BY <1>2, SameFile DEF Last
  <2>2. c \in W /\ P(c)
    BY <2>1
  <2> HIDE DEF c
  <2>3. c = w \/ (Earlier(c, w) /\ Earlier(w, c))
    BY <2>1, <2>2, SameFile
  <2>4. c[1] \in Int /\ c[2] \in Int /\ w[1] \in Int /\ w[2] \in Int
    BY <2>2, WriteFacts
  <2>5. c = w
    BY <2>3, <2>4 DEF Earlier
  <2> QED
    BY <1>1, <1>2, <2>5, SameFile
<1>3. ASSUME \A w \in W : Place(f, w) # a
      PROVE  Caller!Image(f, W, m)[a] = m[a]
  BY <1>1, <1>3, SameFile
<1> QED
  BY <1>2, <1>3
(* The image is a memory.                                                  *)
LEMMA ImageType ==
  ASSUME NEW f \in ElfFiles, NEW W, W \subseteq Writes(f), Ordered(f, W),
         NEW m \in [Address -> ByteVal]
  PROVE  Caller!Image(f, W, m) \in [Address -> ByteVal]
<1> DEFINE g == Caller!Image(f, W, m)
<1>1. g = [a \in Address |-> g[a]]
  BY SameRegisters DEF Caller!Image
<1> HIDE DEF g
<1>2. ASSUME NEW a \in Address PROVE g[a] \in ByteVal
  <2>1. CASE \E v \in W : Place(f, v) = a
    <3>1. PICK w \in W : Place(f, w) = a /\ Last(f, W, w)
      BY <2>1 DEF Ordered
    <3> QED
      BY <3>1, ImageAt, WriteFacts DEF g
  <2>2. CASE \A v \in W : Place(f, v) # a
    BY <2>2, ImageAt DEF g
  <2> QED
    BY <2>1, <2>2
<1>3. g \in [Address -> ByteVal]
  BY <1>1, <1>2
<1> QED
  BY <1>3 DEF g

(* One more store, behind all the others, is the last one at its address.  *)
LEMMA OneMoreStore ==
  ASSUME NEW f \in ElfFiles, NEW W, W \subseteq Writes(f), Ordered(f, W),
         NEW w \in Writes(f), \A v \in W : Earlier(v, w)
  PROVE  /\ Last(f, W \cup {w}, w)
         /\ \A u \in W : (Last(f, W, u) /\ Place(f, u) # Place(f, w)) => Last(f, W \cup {w}, u)
         /\ Ordered(f, W \cup {w})
<1>1. Last(f, W \cup {w}, w)
  BY DEF Last
<1>2. \A u \in W : (Last(f, W, u) /\ Place(f, u) # Place(f, w)) => Last(f, W \cup {w}, u)
  BY DEF Last
<1>3. ASSUME NEW v \in W \cup {w}
      PROVE  \E u \in W \cup {w} : Place(f, u) = Place(f, v) /\ Last(f, W \cup {w}, u)
  <2>1. CASE Place(f, v) = Place(f, w)
    BY <1>1, <2>1
  <2>2. CASE Place(f, v) # Place(f, w)
    <3>1. v \in W
      BY <1>3, <2>2
    <3>2. PICK u \in W : Place(f, u) = Place(f, v) /\ Last(f, W, u)
      BY <3>1 DEF Ordered
    <3> QED
      BY <1>2, <2>2, <3>2
  <2> QED
    BY <2>1, <2>2
<1> QED
  BY <1>1, <1>2, <1>3 DEF Ordered

(* It changes one byte of the image.                                       *)
LEMMA ImageOfOneMore ==
  ASSUME NEW f \in ElfFiles, NEW W, W \subseteq Writes(f), Ordered(f, W),
         NEW w \in Writes(f), \A v \in W : Earlier(v, w), Fits(f, w),
         NEW m \in [Address -> ByteVal]
  PROVE  Caller!Image(f, W \cup {w}, m)
           = [Caller!Image(f, W, m) EXCEPT ![Place(f, w)] = Content(f, w)]
<1> DEFINE X == W \cup {w}
           g == Caller!Image(f, W, m)
           h == Caller!Image(f, X, m)
           p == Place(f, w)
<1>1. /\ X \subseteq Writes(f) /\ Ordered(f, X) /\ Last(f, X, w)
      /\ \A u \in W : (Last(f, W, u) /\ Place(f, u) # p) => Last(f, X, u)
  BY OneMoreStore
<1>2. g \in [Address -> ByteVal] /\ h \in [Address -> ByteVal]
  BY <1>1, ImageType
<1>3. p \in Address
  BY WriteFacts, MemSizeAssumption, Positive DEF Fits, Address
<1>4. h[p] = Content(f, w)
  <2>1. w \in X
    OBVIOUS
  <2> HIDE DEF X
  <2> QED
    BY <1>1, <1>3, <2>1, ImageAt
<1>5. ASSUME NEW a \in Address, a # p PROVE h[a] = g[a]
  <2>1. CASE \E v \in W : Place(f, v) = a
    <3>1. PICK u \in W : Place(f, u) = a /\ Last(f, W, u)
      BY <2>1 DEF Ordered
    <3>2. Last(f, X, u) /\ u \in X
      BY <1>1, <1>5, <3>1
    <3> HIDE DEF X
    <3>3. h[a] = Content(f, u)
      BY <1>1, <3>1, <3>2, ImageAt
    <3> QED
      BY <3>1, <3>3, ImageAt
  <2>2. CASE \A v \in W : Place(f, v) # a
    <3>1. \A v \in X : Place(f, v) # a
      BY <1>5, <2>2
    <3> HIDE DEF X
    <3>2. h[a] = m[a]
      BY <1>1, <3>1, ImageAt
    <3> QED
      BY <2>2, <3>2, ImageAt
  <2> QED
    BY <2>1, <2>2
<1> HIDE DEF g, h, p
<1>6. h = [g EXCEPT ![p] = Content(f, w)]
  BY <1>2, <1>3, <1>4, <1>5
<1> QED
  BY <1>6 DEF g, h, p

(* A store of load_elf writes one byte of the file, or throws.             *)
LEMMA StoreByte ==
  ASSUME NEW s \in Machine, Ok(s), NEW f \in ElfFiles, NEW w \in Writes(f)
  PROVE  MemSet(s, ByteAddress(f.sections[w[1]], w[2]), SIZE_BYTE, f.sections[w[1]].data[w[2]])
           = IF Fits(f, w)
             THEN [s EXCEPT !.mem = [s.mem EXCEPT ![Place(f, w)] = Content(f, w)]]
             ELSE [s EXCEPT !.exc = "out_of_range"]
<1> DEFINE a == ByteAddress(f.sections[w[1]], w[2])
           p == Place(f, w)
           d == Content(f, w)
<1>1. p = MASK_ADDR(a) /\ d = f.sections[w[1]].data[w[2]]
  BY DEF Place, Content
<1>2. p \in Nat /\ d \in ByteVal
  BY WriteFacts, Positive
<1> HIDE DEF a, p, d
<1>3. CASE Fits(f, w)
  <2>1. p < MemSize
    BY <1>3 DEF Fits, p
  <2>2. AccessError(a, SIZE_BYTE) = "none"
    BY <1>1, <1>2, <2>1, MemSizeAssumption, Positive DEF AccessError, SIZE_BYTE
  <2>3. ByteOf(d, 0) = d
    BY <1>2, Positive DEF ByteOf, ByteVal
  <2>4. write_real_mem(s.mem, p, SIZE_BYTE, d) = [s.mem EXCEPT ![p] = d]
    <3>1. s.mem = [b \in Address |-> s.mem[b]]
      BY DEF Machine
    <3>2. \A b \in Address : b \in p .. p + SIZE_BYTE - 1 <=> b = p
      BY <1>2, MemSizeAssumption, Positive DEF Address, SIZE_BYTE
    <3>3. p + SIZE_BYTE - 1 - p = 0
      BY <1>2 DEF SIZE_BYTE
    <3> QED
      BY <2>3, <3>1, <3>2, <3>3 DEF write_real_mem
  <2> QED
    BY <1>1, <1>3, <2>2, <2>4 DEF MemSet, a, p, d
<1>4. CASE ~Fits(f, w)
  <2>1. ~(p < MemSize)
    BY <1>4 DEF Fits, p
  <2>2. AccessError(a, SIZE_BYTE) = "out_of_range"
    BY <1>1, <1>2, <2>1, MemSizeAssumption, Positive DEF AccessError, SIZE_BYTE
  <2> QED
    BY <1>4, <2>2 DEF MemSet, Throw, a
<1> QED
  BY <1>3, <1>4
(* Every step of the machine keeps its type.                               *)
LEMMA NextType ==
  ASSUME TypeOK, Next
  PROVE  cpu' \in Machine
  BY StepSafe, HostModeFacts DEF Next, Safe, TypeOK

(* Setting the stack pointer and the program counter leaves the rest.      *)
LEMMA StartedFacts ==
  ASSUME NEW s \in Machine, NEW entry \in LongVal
  PROVE  /\ Started(s, entry) \in Machine
         /\ Started(s, entry).mem = s.mem
         /\ Started(s, entry).sup = s.sup
         /\ Started(s, entry).exc = s.exc
<1> DEFINE t == set(s, REG_USP, SIZE_LONG, MemSize)
<1>1. /\ REG_USP \in Named /\ REG_PC \in Named /\ SIZE_LONG \in DataSize
      /\ MemSize \in Int /\ entry \in Int
  BY MemSizeAssumption, Positive
     DEF Named, AddrReg, REG_USP, DataSize, LongVal
<1>2. t \in Machine /\ t.mem = s.mem /\ t.sup = s.sup /\ t.exc = s.exc
  BY <1>1, SetFacts
<1> HIDE DEF t
<1>3. /\ set(t, REG_PC, SIZE_LONG, entry) \in Machine
      /\ set(t, REG_PC, SIZE_LONG, entry).mem = t.mem
      /\ set(t, REG_PC, SIZE_LONG, entry).sup = t.sup
      /\ set(t, REG_PC, SIZE_LONG, entry).exc = t.exc
  BY <1>1, <1>2, SetFacts
<1> QED
  BY <1>2, <1>3 DEF Started, SetPC, t

(* A load that begins: refused at once, or nothing stored yet.             *)
LEMMA CallKeeps ==
  ASSUME LoaderInv, NEW f \in Files, Call(f)
  PROVE  LoaderInv' /\ (Caller!PromiseNext \/ UNCHANGED <<seen, outcome>>)
<1>1. /\ Idle /\ Alive /\ cpu' = [cpu EXCEPT !.exc = "none"] /\ cpu \in Machine /\ seen = cpu
      /\ load'.file = f /\ load'.k = 1 /\ load'.i = 0 /\ f \in ElfFiles
      /\ load' \in LoadType
  BY FilesAssumption DEF LoaderInv, Call, TypeOK, LoadType, Idle
<1>2. cpu' \in Machine /\ cpu'.mem = cpu.mem
  BY <1>1 DEF Machine
<1>3. CASE Accepted(f)
  <2>1. seen' = cpu /\ load'.at = "sections" /\ UNCHANGED <<seen, outcome>>
    BY <1>1, <1>3 DEF Call
  <2>2. Stores' = {}
    BY <1>1, <2>1, WriteFacts DEF Stores
  <2>3. Caller!Image(load'.file, Stores', seen'.mem) = cpu.mem
    BY <1>1, <2>1, <2>2, ImageOfNothing DEF Machine
  <2>4. Progress'
    BY <1>1, <1>2, <2>1, <2>2, <2>3 DEF Progress, Ordered, Alive, Machine
  <2>5. InLoops'
    <3>1. Len(f.sections) \in Nat
      BY <1>1 DEF ElfFiles
    <3> QED
      BY <1>1, <1>3, <2>1, <3>1 DEF InLoops, Sections
  <2> QED
    BY <1>1, <1>2, <2>1, <2>4, <2>5 DEF LoaderInv, TypeOK, Idle
<1>4. CASE ~Accepted(f)
  <2>1. seen' = cpu' /\ load'.at = "idle" /\ outcome' = "false"
    BY <1>1, <1>4 DEF Call
  <2>2. Caller!PromiseNext
    BY <1>1, <1>4, <2>1, SameFile DEF Caller!PromiseNext, Caller!Refuse, Caller!Alive, Alive
  <2> QED
    BY <1>1, <1>2, <2>1, <2>2 DEF LoaderInv, TypeOK, Idle
<1> QED
  BY <1>3, <1>4
(* What holds inside the loops of load_elf.                                *)
LEMMA LoopFacts ==
  ASSUME LoaderInv, ~Idle
  PROVE  /\ load \in LoadType /\ load.file \in ElfFiles
         /\ cpu \in Machine /\ seen \in Machine /\ Ok(cpu)
         /\ InLoops /\ Progress
         /\ Stores \subseteq Writes(load.file)
         /\ Len(Sections) \in Nat
         /\ \A k \in 1 .. Len(Sections) : Len(Sections[k].data) \in Nat
         /\ \A w \in Writes(load.file) :
              /\ w = <<w[1], w[2]>>
              /\ w[1] \in 1 .. Len(Sections) /\ w[2] \in 1 .. Len(Sections[w[1]].data)
              /\ Loadable(Sections[w[1]])
<1>1. load \in LoadType /\ load.file \in ElfFiles
  BY FilesAssumption DEF LoaderInv, LoadType
<1>2. cpu \in Machine /\ seen \in Machine /\ InLoops /\ Progress
  BY DEF LoaderInv, TypeOK
<1>3. Ok(cpu)
  BY <1>2 DEF Progress, Machine, Ok
<1>4. Sections \in Seq(Section)
  BY <1>1 DEF Sections, ElfFiles
<1>5. \A k \in 1 .. Len(Sections) : Len(Sections[k].data) \in Nat
  BY <1>4 DEF Section
<1>6. Stores \subseteq Writes(load.file)
  BY DEF Stores
<1>7. \A w \in Writes(load.file) :
        /\ w = <<w[1], w[2]>>
        /\ w[1] \in 1 .. Len(Sections) /\ w[2] \in 1 .. Len(Sections[w[1]].data)
        /\ Loadable(Sections[w[1]])
  BY <1>1, WriteFacts DEF Sections
<1> QED
  BY <1>1, <1>2, <1>3, <1>4, <1>5, <1>6, <1>7

(* A step of the loops that stores nothing.                                *)
LEMMA IdleLoopKeeps ==
  ASSUME LoaderInv, ~Idle, UNCHANGED <<cpu, outcome, seen>>, load'.file = load.file,
         load' \in LoadType, load'.at # "idle", Stores' = Stores, InLoops'
  PROVE  LoaderInv' /\ UNCHANGED <<seen, outcome>>
<1>1. Progress'
  BY LoopFacts DEF Progress
<1> QED
  BY <1>1, LoopFacts DEF LoaderInv, TypeOK, Idle

(* The head of the outer loop.                                             *)
LEMMA NextSectionKeeps ==
  ASSUME LoaderInv, NextSection
  PROVE  LoaderInv' /\ UNCHANGED <<seen, outcome>>
<1>1. ~Idle /\ load.at = "sections" /\ load.k <= Len(Sections) /\ UNCHANGED <<cpu, outcome, seen>>
  BY DEF NextSection, Idle
<1>2. CASE Loadable(Sections[load.k])
  <2>1. /\ load' = [load EXCEPT !.at = "bytes", !.i = 0]
        /\ load'.file = load.file /\ load'.at = "bytes" /\ load'.k = load.k /\ load'.i = 0
        /\ load' \in LoadType
    BY <1>1, <1>2, LoopFacts DEF NextSection, LoadType
  <2>2. Stores' = Stores
    BY <1>1, <2>1, LoopFacts DEF Stores
  <2>3. InLoops'
    BY <1>1, <1>2, <2>1, LoopFacts DEF InLoops, LoadType, Sections
  <2> QED
    BY <1>1, <2>1, <2>2, <2>3, IdleLoopKeeps
<1>3. CASE ~Loadable(Sections[load.k])
  <2>1. /\ load'.file = load.file /\ load'.at = "sections" /\ load'.k = load.k + 1
        /\ load' \in LoadType
    BY <1>1, <1>3, LoopFacts DEF NextSection, LoadType
  <2>2. Stores' = Stores
    <3>1. \A w \in Writes(load.file) : w[1] < load.k + 1 <=> w[1] < load.k
      BY <1>1, <1>3, LoopFacts DEF LoadType
    <3> QED
      BY <1>1, <2>1, <3>1 DEF Stores
  <2>3. InLoops'
    BY <1>1, <2>1, LoopFacts DEF InLoops, LoadType, Sections
  <2> QED
    BY <1>1, <2>1, <2>2, <2>3, IdleLoopKeeps
<1> QED
  BY <1>2, <1>3

(* The end of the inner loop.                                              *)
LEMMA EndSectionKeeps ==
  ASSUME LoaderInv, EndSection
  PROVE  LoaderInv' /\ UNCHANGED <<seen, outcome>>
<1>1. /\ ~Idle /\ load.at = "bytes" /\ load.i = Len(Sections[load.k].data)
      /\ UNCHANGED <<cpu, outcome, seen>>
  BY DEF EndSection, Idle
<1>2. /\ load'.file = load.file /\ load'.at = "sections" /\ load'.k = load.k + 1
      /\ load' \in LoadType
  <2>1. load' = [load EXCEPT !.at = "sections", !.k = @ + 1]
    BY DEF EndSection
  <2>2. load \in LoadType /\ load.k + 1 \in Nat \ {0}
    BY <1>1, LoopFacts DEF LoadType
  <2>3. load' \in LoadType
    BY <2>1, <2>2 DEF LoadType
  <2> QED
    BY <2>1, <2>2, <2>3 DEF LoadType
<1>3. Stores' = Stores
  <2>1. \A w \in Writes(load.file) :
          w[1] < load.k + 1 <=> (w[1] < load.k \/ (w[1] = load.k /\ w[2] <= load.i))
    BY <1>1, LoopFacts DEF LoadType
  <2> QED
    BY <1>1, <1>2, <2>1 DEF Stores
<1>4. InLoops'
  BY <1>1, <1>2, LoopFacts DEF InLoops, LoadType, Sections
<1> QED
  BY <1>1, <1>2, <1>3, <1>4, IdleLoopKeeps
(* The store the inner loop is about to make.                              *)
Upcoming == <<load.k, load.i + 1>>

(* ... comes behind all earlier ones and before all later ones.            *)
LEMMA UpcomingFacts ==
  ASSUME LoaderInv, load.at = "bytes", load.i < Len(Sections[load.k].data)
  PROVE  /\ Upcoming \in Writes(load.file)
         /\ Stores = {v \in Writes(load.file) : Earlier(v, Upcoming)}
         /\ Stored = IF Fits(load.file, Upcoming)
                     THEN [cpu EXCEPT !.mem = [cpu.mem EXCEPT ![Place(load.file, Upcoming)]
                                                 = Content(load.file, Upcoming)]]
                     ELSE [cpu EXCEPT !.exc = "out_of_range"]
<1>1. ~Idle
  BY DEF Idle
<1>2. /\ load.k \in 1 .. Len(Sections) /\ load.i + 1 \in 1 .. Len(Sections[load.k].data)
      /\ Loadable(Sections[load.k]) /\ load.i \in Nat
  BY <1>1, LoopFacts DEF InLoops, LoadType
<1>3. Upcoming \in Writes(load.file)
  BY <1>1, <1>2, LoopFacts, WriteFacts DEF Upcoming, Sections
<1>4. Stores = {v \in Writes(load.file) : Earlier(v, Upcoming)}
  <2>1. \A v \in Writes(load.file) :
          (v[1] = load.k /\ v[2] <= load.i) <=> (v[1] = load.k /\ v[2] < load.i + 1)
    BY <1>1, <1>2, LoopFacts
  <2> QED
    BY <2>1 DEF Stores, Earlier, Upcoming
<1>5. Stored = MemSet(cpu, ByteAddress(load.file.sections[Upcoming[1]], Upcoming[2]), SIZE_BYTE,
                      load.file.sections[Upcoming[1]].data[Upcoming[2]])
  BY DEF Stored, Upcoming, Sections
<1> QED
  BY <1>1, <1>3, <1>4, <1>5, LoopFacts, StoreByte

(* One byte: stored, or the exception the promise speaks of.               *)
LEMMA CopyByteKeeps ==
  ASSUME LoaderInv, CopyByte
  PROVE  LoaderInv' /\ (Caller!PromiseNext \/ UNCHANGED <<seen, outcome>>)
<1> DEFINE f == load.file
           w == Upcoming
           g == Caller!Image(f, Stores, seen.mem)
<1>1. /\ ~Idle /\ load.at = "bytes" /\ load.i < Len(Sections[load.k].data) /\ cpu' = Stored
  BY DEF CopyByte, Idle
<1>2. /\ w \in Writes(f) /\ Stores = {v \in Writes(f) : Earlier(v, w)}
      /\ Stored = IF Fits(f, w)
                  THEN [cpu EXCEPT !.mem = [cpu.mem EXCEPT ![Place(f, w)] = Content(f, w)]]
                  ELSE [cpu EXCEPT !.exc = "out_of_range"]
  BY <1>1, UpcomingFacts
<1>3. /\ f \in ElfFiles /\ Stores \subseteq Writes(f) /\ Ordered(f, Stores)
      /\ \A v \in Stores : Earlier(v, w)
      /\ seen \in Machine /\ seen.mem \in [Address -> ByteVal] /\ cpu \in Machine /\ Ok(cpu)
      /\ \A v \in Stores : Fits(f, v)
      /\ seen.exc # "fatal" /\ load \in LoadType
      /\ cpu = [seen EXCEPT !.exc = "none", !.mem = g]
  BY <1>1, <1>2, LoopFacts DEF Progress, Machine
<1>4. CASE Fits(f, w)
  <2>1. /\ Ok(Stored) /\ load' = [load EXCEPT !.i = @ + 1] /\ UNCHANGED <<seen, outcome>>
    BY <1>2, <1>3, <1>4 DEF CopyByte, Ok, Machine
  <2>2. /\ load'.file = f /\ load'.at = "bytes" /\ load'.k = load.k /\ load'.i = load.i + 1
        /\ load' \in LoadType
    BY <1>1, <1>3, <2>1 DEF LoadType
  <2>3. Stores' = Stores \cup {w}
    <3>1. \A v \in Writes(f) : v[2] <= load.i + 1 <=> (v[2] <= load.i \/ v[2] = load.i + 1)
      BY <1>1, LoopFacts DEF LoadType
    <3>2. \A v \in Writes(f) : v = w <=> (v[1] = load.k /\ v[2] = load.i + 1)
      BY <1>1, LoopFacts DEF Upcoming
    <3> QED
      BY <1>1, <1>2, <2>2, <3>1, <3>2 DEF Stores
  <2>4. /\ Ordered(f, Stores \cup {w})
        /\ Caller!Image(f, Stores \cup {w}, seen.mem) = [g EXCEPT ![Place(f, w)] = Content(f, w)]
    <3> HIDE DEF f, w
    <3>1. Ordered(f, Stores \cup {w})
      BY <1>2, <1>3, OneMoreStore
    <3> DEFINE W == Stores
               m == seen.mem
    <3>2. /\ f \in ElfFiles /\ W \subseteq Writes(f) /\ Ordered(f, W) /\ w \in Writes(f)
          /\ \A v \in W : Earlier(v, w)
          /\ Fits(f, w) /\ m \in [Address -> ByteVal]
      BY <1>2, <1>3, <1>4
    <3> HIDE DEF W, m
    <3>3. Caller!Image(f, W \cup {w}, m)
            = [Caller!Image(f, W, m) EXCEPT ![Place(f, w)] = Content(f, w)]
      BY <3>2, ImageOfOneMore
    <3> QED
      BY <3>1, <3>3 DEF W, m
  <2>5. InLoops'
    BY <1>1, <2>2, LoopFacts DEF InLoops, LoadType, Sections
  <2> HIDE DEF w, g
  <2>6. cpu' = [seen EXCEPT !.exc = "none", !.mem = [g EXCEPT ![Place(f, w)] = Content(f, w)]]
    BY <1>1, <1>2, <1>3, <1>4 DEF Machine
  <2>7. Progress'
    BY <1>3, <1>4, <2>1, <2>2, <2>3, <2>4, <2>6 DEF Progress
  <2>8. cpu' \in Machine
    <3>1. Content(f, w) \in ByteVal
      BY <1>2, <1>3, WriteFacts
    <3> QED
      BY <1>1, <1>2, <1>3, <1>4, <3>1 DEF Machine
  <2> QED
    BY <1>3, <2>1, <2>2, <2>5, <2>7, <2>8 DEF LoaderInv, TypeOK, Idle
<1>5. CASE ~Fits(f, w)
  <2>1. /\ cpu' = [seen EXCEPT !.exc = "out_of_range", !.mem = g] /\ cpu' \in Machine
        /\ ~Ok(Stored)
    BY <1>1, <1>2, <1>3, <1>5 DEF Machine, Ok, Exceptions
  <2>2. seen' = cpu' /\ outcome' = "threw" /\ load' = [load EXCEPT !.at = "idle"]
    BY <2>1 DEF CopyByte
  <2>3. load'.at = "idle" /\ load' \in LoadType
    BY <1>3, <2>2 DEF LoadType
  <2>4. Caller!PromiseNext
    <3>1. f \in Files /\ Accepted(f)
      BY <1>1, LoopFacts DEF LoadType, InLoops
    <3>2. Caller!Fail(f)
      <4>1. Caller!Writes(f) = Writes(f) /\ Caller!Accepted(f)
        BY <3>1, SameFile
      <4>2. {v \in Caller!Writes(f) : Caller!Earlier(v, w)} = Stores
        BY <1>2, <4>1, SameFile
      <4>3. ~Caller!Fits(f, w) /\ \A v \in Stores : Caller!Fits(f, v)
        BY <1>3, <1>5, SameFile
      <4> HIDE DEF w
      <4> QED
        BY <1>2, <2>1, <2>2, <4>1, <4>2, <4>3 DEF Caller!Fail
    <3>3. Caller!Alive
      BY <1>3 DEF Caller!Alive
    <3> QED
      BY <3>1, <3>2, <3>3 DEF Caller!PromiseNext
  <2> QED
    BY <2>1, <2>2, <2>3, <2>4 DEF LoaderInv, TypeOK, Idle
<1> QED
  BY <1>4, <1>5
(* Behind the loops every byte of the file is stored.                      *)
LEMMA FinishKeeps ==
  ASSUME LoaderInv, Finish
  PROVE  LoaderInv' /\ Caller!PromiseNext
<1> DEFINE f == load.file
           g == Caller!Image(f, Stores, seen.mem)
<1>1. /\ ~Idle /\ load.at = "sections" /\ load.k > Len(Sections)
      /\ cpu' = Started(cpu, f.entry) /\ load' = [load EXCEPT !.at = "idle"]
      /\ outcome' = "true" /\ seen' = cpu'
  BY DEF Finish, Idle
<1>2. /\ f \in ElfFiles /\ f \in Files /\ Accepted(f) /\ f.entry \in LongVal
      /\ cpu \in Machine /\ seen.exc # "fatal" /\ load \in LoadType
      /\ \A v \in Stores : Fits(f, v)
      /\ cpu = [seen EXCEPT !.exc = "none", !.mem = g]
  BY <1>1, LoopFacts DEF Progress, InLoops, LoadType, ElfFiles
<1>3. Stores = Writes(f)
  <2>1. \A w \in Writes(f) : w[1] < load.k
    BY <1>1, LoopFacts DEF LoadType
  <2> QED
    BY <2>1 DEF Stores
<1>4. cpu' \in Machine
  BY <1>1, <1>2, StartedFacts
<1>5. load' \in LoadType /\ load'.at = "idle"
  BY <1>1, <1>2 DEF LoadType
<1>6. Caller!Complete(f)
  <2>1. Caller!Accepted(f) /\ \A w \in Caller!Writes(f) : Caller!Fits(f, w)
    BY <1>2, <1>3, SameFile
  <2>2. seen' = Caller!Started([seen EXCEPT !.exc = "none",
                                  !.mem = Caller!Image(f, Caller!Writes(f), seen.mem)], f.entry)
    BY <1>1, <1>2, <1>3, SameFile
  <2> QED
    BY <1>1, <2>1, <2>2 DEF Caller!Complete
<1>7. Caller!PromiseNext
  BY <1>2, <1>6 DEF Caller!PromiseNext, Caller!Alive
<1> QED
  BY <1>1, <1>4, <1>5, <1>7 DEF LoaderInv, TypeOK, Idle

(* Every step keeps the invariant and is a step of the promise, or nothing *)
(* the caller sees.                                                        *)
LEMMA LoaderStep ==
  ASSUME LoaderInv, [LoaderNext]_loaderVars
  PROVE  LoaderInv' /\ [Caller!PromiseNext]_<<seen, outcome>>
<1>1. CASE \E f \in Files : Call(f)
  BY <1>1, CallKeeps
<1>2. CASE NextSection \/ EndSection
  BY <1>2, NextSectionKeeps, EndSectionKeeps
<1>3. CASE CopyByte
  BY <1>3, CopyByteKeeps
<1>4. CASE Finish
  BY <1>4, FinishKeeps
<1>5. CASE Host
  <2>1. Idle /\ Next /\ seen' = cpu' /\ outcome' = "none" /\ load' = load /\ seen = cpu /\ TypeOK
    BY <1>5 DEF Host, LoaderInv
  <2>2. cpu' \in Machine
    BY <2>1, NextType
  <2>3. Caller!PromiseNext
    BY <2>1, SameNext DEF Caller!PromiseNext, Caller!Run
  <2> QED
    BY <2>1, <2>2, <2>3 DEF LoaderInv, TypeOK, Idle
<1>6. CASE UNCHANGED loaderVars
  <2>1. cpu' = cpu /\ outcome' = outcome /\ load' = load /\ seen' = seen
    BY <1>6 DEF loaderVars
  <2>2. LoaderInv'
    BY <2>1 DEF LoaderInv, TypeOK, Idle, InLoops, Progress, Sections, Stores
  <2> QED
    BY <2>1, <2>2
<1> QED
  BY <1>1, <1>2, <1>3, <1>4, <1>5, <1>6 DEF LoaderNext, Loop

(* The host starts with no load under way.                                 *)
LEMMA LoaderStart ==
  ASSUME LoaderInit
  PROVE  LoaderInv /\ Caller!PromiseInit
<1>1. cpu \in Machine /\ seen = cpu
  BY BootAssumption DEF LoaderInit, Init
<1>2. load \in LoadType /\ Idle
  BY DEF LoaderInit, LoadType, Idle
<1>3. Caller!PromiseInit
  BY DEF LoaderInit, Init, Caller!PromiseInit, Caller!Init
<1> QED
  BY <1>1, <1>2, <1>3 DEF LoaderInv, TypeOK

(***************************************************************************)
(* load_elf, which stores byte after byte and may throw out of its loops,  *)
(* implements the three outcomes of LoadPromise: for every file, memory    *)
(* and opcode table, and after any loads, failed loads and programs.       *)
(***************************************************************************)
THEOREM PromiseKept == LoaderSpec => KeepsPromise
<1>1. LoaderInit => LoaderInv /\ Caller!PromiseInit
  BY LoaderStart
<1>2. LoaderInv /\ [LoaderNext]_loaderVars =>
        LoaderInv' /\ [Caller!PromiseNext]_<<seen, outcome>>
  BY LoaderStep
<1> QED
  BY <1>1, <1>2, PTL DEF LoaderSpec, KeepsPromise, Caller!Promise
-----------------------------------------------------------------------------
(* A long counts further than an address: MEMORY_SIZE fits a register.     *)
LEMMA AddressInLong == MemSize \in 0 .. Long - 1 /\ MemSize \in Nat
<1> DEFINE g == Pow2[Bits - 1]
<1>1. Bits - 1 \in 0 .. 8 * Bits - 1 /\ Bits - 1 \in 0 .. 8 * Bits /\ (Bits - 1) + 1 = Bits
  BY BitsAssumption
<1>2. g \in Nat \ {0} /\ Pow2[(Bits - 1) + 1] = 2 * g
  BY <1>1, Pow2Assumption
<1>3. Byte = 2 * g
  BY <1>1, <1>2 DEF Byte
<1>4. Byte - 1 \in Nat \ {0}
  BY <1>2, <1>3
<1>5. \A x, y \in Nat \ {0} : x * y \in Nat \ {0}
  OBVIOUS
<1>6. AddrSpace * (Byte - 1) \in Nat \ {0}
  BY <1>4, <1>5, Positive
<1>7. \A x \in Nat : (x * x) * (x * x) = (x * x * x) * (x - 1) + x * x * x
  OBVIOUS
<1>8. Long = AddrSpace * (Byte - 1) + AddrSpace
  BY <1>7, Positive DEF Long, Word, AddrSpace
<1> QED
  BY <1>6, <1>8, Positive, MemSizeAssumption

(* Where load_elf points the two registers it sets.                        *)
LEMMA StartedPointers ==
  ASSUME NEW s \in Machine, Ok(s), NEW entry \in LongVal
  PROVE  PC(Started(s, entry)) = entry /\ ActiveSP(Started(s, entry)) = MemSize
<1> DEFINE t == set(s, REG_USP, SIZE_LONG, MemSize)
           u == set(t, REG_PC, SIZE_LONG, entry)
           b == Bank(s, REG_USP)
<1>1. /\ REG_USP \in Named /\ REG_PC \in Named /\ SIZE_LONG \in DataSize
      /\ MemSize \in Int /\ entry \in Int /\ entry \in 0 .. Long - 1
  BY AddressInLong, Positive DEF Named, AddrReg, REG_USP, DataSize, LongVal
<1>2. t \in Machine /\ t.sup = s.sup /\ Ok(t)
  BY <1>1, SetFacts DEF Ok
<1>3. b \in RegisterType /\ b # REG_PC /\ Bank(t, REG_PC) = REG_PC /\ REG_PC \in RegisterType
  BY DEF Bank, RegisterType, REG_PC, REG_A7, REG_USP, REG_SSP
<1>4. t.reg[b] = MemSize
  <2>1. s.reg[b] \in LongVal
    BY <1>3 DEF Machine
  <2>2. Merge(s.reg[b], SIZE_LONG, MemSize) = MemSize
    BY <1>1, <2>1, LongRegister, ModSmall, AddressInLong, Positive
  <2> QED
    BY <1>1, <2>2, SetStores
<1>5. \A d \in LongVal : Merge(d, SIZE_LONG, entry) = entry
  BY <1>1, LongRegister, ModSmall, Positive
<1> HIDE DEF t
<1>6. /\ u \in Machine /\ u.sup = t.sup
      /\ \A q \in RegisterType : q # REG_PC => u.reg[q] = t.reg[q]
  BY <1>1, <1>2, <1>3, SetFacts
<1>7. u.reg[REG_PC] = entry
  <2>1. t.reg[REG_PC] \in LongVal
    BY <1>2, <1>3 DEF Machine
  <2> QED
    BY <1>1, <1>2, <1>3, <1>5, <2>1, SetStores
<1>8. u.reg[b] = MemSize
  BY <1>3, <1>4, <1>6
<1>9. Bank(u, REG_A7) = b
  BY <1>2, <1>6 DEF Bank, REG_A7, REG_USP
<1>10. Started(s, entry) = u
  BY DEF Started, SetPC, t
<1> HIDE DEF u, b
<1> QED
  BY <1>6, <1>7, <1>8, <1>9, <1>10, Pointers DEF ActiveSP

(* The last store of a file to an address decides what a program finds     *)
(* there; the registers are set.                                           *)
Booted ==
  (outcome = "true" /\ Idle) =>
    /\ Ok(cpu)
    /\ PC(cpu) = load.file.entry
    /\ ActiveSP(cpu) = MemSize
    /\ \A w \in Writes(load.file) :
         /\ Fits(load.file, w)
         /\ Last(load.file, Writes(load.file), w) =>
              cpu.mem[Place(load.file, w)] = Content(load.file, w)

(* Every step that ends with outcome "true" is the end of a load.          *)
LEMMA BootedKept ==
  ASSUME LoaderInv, Booted, [LoaderNext]_loaderVars
  PROVE  Booted'
<1>1. CASE \E f \in Files : Call(f)
  <2>1. PICK f \in Files : Call(f)
    BY <1>1
  <2>2. CASE Accepted(f)
    <3>1. load'.at = "sections"
      BY <2>1, <2>2 DEF Call
    <3> QED
      BY <3>1 DEF Booted, Idle
  <2>3. CASE ~Accepted(f)
    <3>1. outcome' = "false"
      BY <2>1, <2>3 DEF Call
    <3> QED
      BY <3>1 DEF Booted
  <2> QED
    BY <2>2, <2>3
<1>2. CASE NextSection \/ EndSection
  <2>1. load'.at \in {"sections", "bytes"}
    <3>1. load \in LoadType
      BY DEF LoaderInv
    <3> QED
      BY <1>2, <3>1 DEF NextSection, EndSection, LoadType
  <2> QED
    BY <2>1 DEF Booted, Idle
<1>3. CASE CopyByte
  <2>1. CASE Ok(Stored)
    <3>1. load' = [load EXCEPT !.i = @ + 1] /\ load.at = "bytes" /\ load \in LoadType
      BY <1>3, <2>1 DEF CopyByte, LoaderInv
    <3>2. load'.at = "bytes"
      BY <3>1 DEF LoadType
    <3> QED
      BY <3>2 DEF Booted, Idle
  <2>2. CASE ~Ok(Stored)
    <3>1. outcome' = "threw"
      BY <1>3, <2>2 DEF CopyByte
    <3> QED
      BY <3>1 DEF Booted
  <2> QED
    BY <2>1, <2>2
<1>4. CASE Finish
  <2> DEFINE f == load.file
             W == Writes(f)
  <2>1. /\ ~Idle /\ load.at = "sections" /\ load.k > Len(Sections)
        /\ cpu' = Started(cpu, f.entry) /\ load' = [load EXCEPT !.at = "idle"]
    BY <1>4 DEF Finish, Idle
  <2>2. /\ f \in ElfFiles /\ f.entry \in LongVal /\ seen \in Machine
        /\ cpu \in Machine /\ Ok(cpu) /\ load \in LoadType
        /\ \A v \in Stores : Fits(f, v)
        /\ Ordered(f, Stores)
        /\ cpu = [seen EXCEPT !.exc = "none", !.mem = Caller!Image(f, Stores, seen.mem)]
    BY <2>1, LoopFacts DEF Progress, ElfFiles
  <2>3. Stores = W
    <3>1. \A w \in W : w[1] < load.k
      BY <2>1, LoopFacts DEF LoadType
    <3> QED
      BY <3>1 DEF Stores
  <2>4. load'.file = f
    BY <2>1, <2>2 DEF LoadType
  <2>5. cpu'.mem = cpu.mem /\ Ok(cpu') /\ PC(cpu') = f.entry /\ ActiveSP(cpu') = MemSize
    BY <2>1, <2>2, StartedFacts, StartedPointers DEF Ok
  <2>6. cpu.mem = Caller!Image(f, W, seen.mem)
    BY <2>2, <2>3 DEF Machine
  <2>7. ASSUME NEW w \in W, Last(f, W, w)
        PROVE  cpu'.mem[Place(f, w)] = Content(f, w)
    <3>1. Place(f, w) \in Address
      BY <2>2, <2>3, <2>7, WriteFacts, MemSizeAssumption, Positive DEF Fits, Address
    <3> DEFINE m == seen.mem
    <3>2. W \subseteq Writes(f) /\ Ordered(f, W)
      BY <2>2, <2>3
    <3>3. f \in ElfFiles
      BY <2>2
    <3> HIDE DEF f, W, m
    <3>4. Caller!Image(f, W, m)[Place(f, w)] = Content(f, w)
      BY <2>7, <3>1, <3>2, <3>3, ImageAt
    <3> QED
      BY <2>5, <2>6, <3>4 DEF m
  <2> QED
    BY <2>2, <2>3, <2>4, <2>5, <2>7 DEF Booted
<1>5. CASE Host
  BY <1>5 DEF Host, Booted
<1>6. CASE UNCHANGED loaderVars
  BY <1>6 DEF loaderVars, Booted, Idle, ActiveSP
<1> QED
  BY <1>1, <1>2, <1>3, <1>4, <1>5, <1>6 DEF LoaderNext, Loop
(* The fetch at the entry finds the two bytes the file has there.          *)
LEMMA EntryFetched ==
  ASSUME LoaderInv, Booted, outcome = "true", Idle,
         NEW v \in Writes(load.file), NEW w \in Writes(load.file),
         Place(load.file, v) = MASK_ADDR(load.file.entry),
         Place(load.file, w) = MASK_ADDR(load.file.entry) + 1,
         MASK_ADDR(load.file.entry) % 2 = 0,
         At(load.file, MASK_ADDR(load.file.entry)) = {v},
         At(load.file, MASK_ADDR(load.file.entry) + 1) = {w}
  PROVE  /\ Ok(Fetched.st)
         /\ Fetched.val = Content(load.file, v) * Byte + Content(load.file, w)
<1> DEFINE f == load.file
           e == MASK_ADDR(f.entry)
<1>1. /\ cpu \in Machine /\ Ok(cpu) /\ PC(cpu) = f.entry /\ f \in ElfFiles
      /\ \A x \in Writes(f) :
           Fits(f, x) /\ (Last(f, Writes(f), x) => cpu.mem[Place(f, x)] = Content(f, x))
  BY FilesAssumption DEF LoaderInv, Booted, TypeOK, LoadType
<1>2. Last(f, Writes(f), v) /\ Last(f, Writes(f), w)
  BY DEF Last, At
<1>3. cpu.mem[e] = Content(f, v) /\ cpu.mem[e + 1] = Content(f, w) /\ e + 1 < MemSize
  BY <1>1, <1>2 DEF Fits
<1>4. e \in Nat
  BY <1>1, WriteFacts
<1>5. e + SIZE_WORD <= MemSize
  BY <1>3, <1>4, MemSizeAssumption, Positive DEF SIZE_WORD
<1>6. AccessError(PC(cpu), SIZE_WORD) = "none"
  <2>1. MASK_ADDR(PC(cpu)) = e /\ e % 2 = 0
    BY <1>1
  <2>2. ~(e + SIZE_WORD > MemSize)
    BY <1>4, <1>5, MemSizeAssumption, Positive DEF SIZE_WORD
  <2> HIDE DEF e
  <2> QED
    BY <2>1, <2>2 DEF AccessError
<1>7. [cpu EXCEPT !.exc = "none"] = cpu
  BY <1>1 DEF Machine, Ok
<1>8. Fetched = Result(cpu, read_real_mem(cpu.mem, e, SIZE_WORD))
  BY <1>1, <1>6, <1>7 DEF Fetched, MemGet
<1> HIDE DEF e
<1> QED
  BY <1>1, <1>3, <1>8 DEF Result, read_real_mem, SIZE_BYTE, SIZE_WORD

(* The empty stack ends where the memory ends, and has room for a long.    *)
LEMMA StackUsable ==
  ASSUME LoaderInv, Booted, outcome = "true", Idle, MemSize % 2 = 0, MemSize >= SIZE_LONG
  PROVE  Ok(stackPush(cpu, SIZE_LONG, PC(cpu)))
<1> DEFINE sp == MemSize - SIZE_LONG
           t == set(cpu, REG_USP, SIZE_LONG, sp)
<1>1. cpu \in Machine /\ Ok(cpu) /\ get(cpu, REG_USP, SIZE_LONG) = MemSize
  BY Pointers DEF LoaderInv, Booted, TypeOK
<1>2. sp \in Int /\ sp \in 0 .. Long - 1 /\ sp \in 0 .. AddrSpace - 1 /\ sp % 2 = 0
      /\ sp + SIZE_LONG = MemSize
  BY AddressInLong, MemSizeAssumption, Positive DEF SIZE_LONG
<1> HIDE DEF sp
<1>3. t \in Machine /\ Ok(t)
  <2>1. REG_USP \in Named /\ SIZE_LONG \in DataSize
    BY DEF Named, AddrReg, REG_USP, DataSize
  <2> QED
    BY <1>1, <1>2, <2>1, SetFacts DEF Ok
<1>4. MASK(sp, SIZE_LONG) = sp /\ MASK_ADDR(sp) = sp
  BY <1>2, ModSmall, Positive DEF MASK, MASK_ADDR, Modulus, SIZE_BYTE, SIZE_WORD, SIZE_LONG
<1>5. ~(sp + SIZE_LONG > MemSize)
  BY <1>2, MemSizeAssumption, Positive
<1>6. AccessError(sp, SIZE_LONG) = "none"
  BY <1>2, <1>4, <1>5 DEF AccessError
<1>7. stackPush(cpu, SIZE_LONG, PC(cpu)) = MemSet(t, sp, SIZE_LONG, PC(cpu))
  BY <1>1, <1>4 DEF stackPush, sp
<1> HIDE DEF t
<1> QED
  BY <1>3, <1>6, <1>7 DEF MemSet, Ok, Machine

(***************************************************************************)
(* After load_elf has returned true the machine can run: for every file    *)
(* and memory, in either mode and after any failed load, the next step()   *)
(* fetches the word the file has at its entry, and the stack is usable.    *)
(***************************************************************************)
THEOREM LoadedProgramRuns == LoaderSpec => []ReadyToRun
<1>1. LoaderInit => LoaderInv /\ Booted
  BY LoaderStart DEF LoaderInit, Booted
<1>2. LoaderInv /\ Booted /\ [LoaderNext]_loaderVars => LoaderInv' /\ Booted'
  BY LoaderStep, BootedKept
<1>3. LoaderInv /\ Booted => ReadyToRun
  <2> SUFFICES ASSUME LoaderInv, Booted, outcome = "true", Idle
               PROVE  ReadyToRun
    BY DEF ReadyToRun
  <2> DEFINE f == load.file
             e == MASK_ADDR(f.entry)
  <2>1. ASSUME NEW v \in At(f, e), NEW w \in At(f, e + 1),
               e % 2 = 0, At(f, e) = {v}, At(f, e + 1) = {w}
        PROVE  Ok(Fetched.st) /\ Fetched.val = Content(f, v) * Byte + Content(f, w)
    <3>1. /\ v \in Writes(f) /\ Place(f, v) = e /\ w \in Writes(f) /\ Place(f, w) = e + 1
      BY <2>1 DEF At
    <3> QED
      BY <2>1, <3>1, EntryFetched
  <2>2. (MemSize % 2 = 0 /\ MemSize >= SIZE_LONG) => Ok(stackPush(cpu, SIZE_LONG, PC(cpu)))
    BY StackUsable
  <2> QED
    BY <2>1, <2>2 DEF ReadyToRun
<1> QED
  BY <1>1, <1>2, <1>3, PTL DEF LoaderSpec
=============================================================================
