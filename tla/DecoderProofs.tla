--------------------------- MODULE DecoderProofs ---------------------------
(***************************************************************************)
(* The table the decoder builds, whatever range of opcodes the loop walks: *)
(* every entry was made for its own opcode, is valid, and keeps what the   *)
(* assumption OpcodeTable of module CPU says of it; and no row hides a     *)
(* later one that would have decoded the opcode.                           *)
(***************************************************************************)
EXTENDS Decoder, TLAPS, WellFoundedInduction

(* The fields of an opcode the constructors read.                          *)
LEMMA PartRange ==
  ASSUME NEW op \in Nat
  PROVE  /\ Part(op, 0, 3) \in 0 .. 7 /\ Part(op, 3, 3) \in 0 .. 7
         /\ Part(op, 9, 3) \in 0 .. 7 /\ Part(op, 6, 3) \in 0 .. 7
         /\ Part(op, 6, 2) \in 0 .. 3 /\ Part(op, 12, 2) \in 0 .. 3
         /\ Part(op, 3, 2) \in 0 .. 3 /\ Part(op, 9, 2) \in 0 .. 3
         /\ Part(op, 8, 1) \in 0 .. 1 /\ Part(op, 3, 1) \in 0 .. 1
         /\ Part(op, 6, 1) \in 0 .. 1 /\ Part(op, 5, 1) \in 0 .. 1
         /\ Part(op, 0, 8) \in 0 .. 255 /\ Part(op, 8, 4) \in 0 .. 15
  BY DEF Part

(* An operand of an instruction record, with the register its mode needs.  *)
Operand(x) ==
  /\ x[1] \in AddressingMode /\ x[2] \in 0 .. 15
  /\ EAFormed(x[1], x[2])

(* An effective address field decodes to an operand.                       *)
LEMMA EaOperand ==
  ASSUME NEW m \in 0 .. 7, NEW r \in 0 .. 7
  PROVE  Operand(Ea(m, r))
<1>1. CASE m < 7
  <2>1. getAddressingMode(m, r) \in AddressingMode
    BY <1>1 DEF getAddressingMode, AddressingMode
  <2>2. m = 0 => getAddressingMode(m, r) = DIRECT_DATA
    BY <1>1 DEF getAddressingMode
  <2>3. m # 0 => getAddressingMode(m, r) # DIRECT_DATA
    BY <1>1 DEF getAddressingMode, DIRECT_DATA, DIRECT_ADDR, INDIRECT, POSTINCREMENT,
                PREDECREMENT, DISPLACEMENT, INDEX
  <2>4. CASE m = 0
    BY <2>1, <2>2, <2>4 DEF Operand, Ea, getRegisterType, EAFormed, DataReg, AddrReg,
       DIRECT_DATA, DIRECT_ADDR, INDIRECT, POSTINCREMENT, PREDECREMENT, DISPLACEMENT, INDEX
  <2>5. CASE m # 0
    BY <2>1, <2>3, <2>5 DEF Operand, Ea, getRegisterType, EAFormed, DataReg, AddrReg
  <2> QED BY <2>4, <2>5
<1>2. CASE m = 7
  <2>1. /\ getAddressingMode(m, r) \in AddressingMode
        /\ getAddressingMode(m, r) # DIRECT_DATA
    BY <1>2 DEF getAddressingMode, AddressingMode, DIRECT_DATA, ABS_WORD, ABS_LONG,
       PC_DISPLACEMENT, PC_INDEX, IMMEDIATE, UNKNOWN
  <2> QED BY <1>2, <2>1 DEF Operand, Ea, getRegisterType, EAFormed, DataReg, AddrReg
<1> QED BY <1>1, <1>2

(* The operands of the constructors.                                       *)
LEMMA RegisterOperand ==
  ASSUME NEW r \in 0 .. 7
  PROVE  /\ Operand(<<DIRECT_DATA, r>>) /\ Operand(<<IMMEDIATE, r>>)
         /\ Operand(<<PREDECREMENT, r + 8>>) /\ Operand(<<DIRECT_ADDR, r + 8>>)
  BY DEF Operand, EAFormed, DataReg, AddrReg, AddressingMode, DIRECT_DATA, DIRECT_ADDR,
     INDIRECT, POSTINCREMENT, PREDECREMENT, DISPLACEMENT, INDEX, IMMEDIATE

(* The operands the constructors take from an opcode.                      *)
LEMMA Operands ==
  ASSUME NEW op \in Nat
  PROVE  /\ Operand(EaPart(op)) /\ Operand(DataPart(op)) /\ Operand(AddrPart(op))
         /\ Operand(NoOperand)
         /\ DataPart(op)[1] = DIRECT_DATA /\ DataPart(op)[2] \in DataReg
         /\ AddrPart(op)[1] = DIRECT_ADDR /\ AddrPart(op)[2] \in AddrReg
<1>1. Operand(EaPart(op))
  BY PartRange, EaOperand DEF EaPart
<1>2. Part(op, 9, 3) \in 0 .. 7 /\ 0 \in 0 .. 7
  BY PartRange
<1>3. Operand(DataPart(op)) /\ Operand(AddrPart(op)) /\ Operand(NoOperand)
  BY <1>2, RegisterOperand, Zenon DEF DataPart, AddrPart, NoOperand, REG_D0
<1>4. DataPart(op)[1] = DIRECT_DATA /\ DataPart(op)[2] \in DataReg
  BY <1>2 DEF DataPart, DataReg
<1>5. AddrPart(op)[1] = DIRECT_ADDR /\ AddrPart(op)[2] \in AddrReg
  BY <1>2 DEF AddrPart, AddrReg
<1> QED BY <1>1, <1>3, <1>4, <1>5

(* The sizes the constructors take from an opcode.                         *)
LEMMA Sizes ==
  ASSUME NEW op \in Nat
  PROVE  /\ SizePart(op) \in DataSize
         /\ \A bit \in {0, 1} : WordOrLong(bit) \in DataSize
         /\ SIZE_BYTE \in DataSize /\ SIZE_WORD \in DataSize /\ SIZE_LONG \in DataSize
  BY PartRange DEF SizePart, WordOrLong, DataSize, SIZE_BYTE, SIZE_WORD, SIZE_LONG
-----------------------------------------------------------------------------
(* What WellFormed asks of an instruction beyond its operands' registers.  *)
ClassPromise(class, size, src, dest, imm) ==
  /\ class \in ReadModifyWrite \cup {"Clr", "Cmpi", "Move", "BitShift"} =>
       IS_MEMORY_ALTERABLE(dest[1])
  /\ class \in {"BitManip", "Scc"} => IS_DATA_ALTERABLE(dest[1])
  /\ class \in {"Jmp", "Jsr"} => IS_CONTROL_ADDR(dest[1])
  /\ class \in {"Lea", "Pea"} => IS_CONTROL_ADDR(src[1])
  /\ class \in {"Lea", "Link", "Unlk"} => dest[2] \in AddrReg
  /\ class \in {"Mul", "Div", "Ext", "Moveq"} =>
       dest[1] = DIRECT_DATA /\ dest[2] \in DataReg
  /\ class = "Move" => /\ src[1] # UNKNOWN
                       /\ dest[1] = DIRECT_ADDR => size # SIZE_BYTE
  /\ class = "BitShift" => imm <= 8

(* Made for opcode op, and well formed if it is valid.                     *)
Proper(c, op) ==
  /\ c.opcode = op
  /\ c.is_valid => c.ins \in InstructionsWith(0 .. 255)

Members(class, size, src, dest, kind, imm, left) ==
  [ class |-> class, data_size |-> size, kind |-> kind, imm |-> imm,
    src_mode |-> src[1], src_reg |-> src[2],
    dest_mode |-> dest[1], dest_reg |-> dest[2], left |-> left ]

(* What the members of an instruction must satisfy to be well formed.      *)
LEMMA MembersWellFormed ==
  ASSUME NEW class \in Classes, NEW size \in DataSize, NEW src, Operand(src),
         NEW dest, Operand(dest), NEW kind \in 0 .. 15, NEW imm \in 0 .. 255,
         NEW left \in BOOLEAN, ClassPromise(class, size, src, dest, imm)
  PROVE  Members(class, size, src, dest, kind, imm, left) \in InstructionsWith(0 .. 255)
<1> DEFINE i == Members(class, size, src, dest, kind, imm, left)
<1>1. i \in InstructionRecord(0 .. 255)
  BY DEF Members, InstructionRecord, Operand
<1>2. WellFormed(i)
  BY DEF Members, ClassPromise, WellFormed, Operand
<1> QED BY <1>1, <1>2 DEF InstructionsWith

(* An entry put together from such members.                                *)
LEMMA MadeProper ==
  ASSUME NEW class \in Classes, NEW op, NEW size \in DataSize, NEW src, Operand(src),
         NEW dest, Operand(dest), NEW kind \in 0 .. 15, NEW imm \in 0 .. 255,
         NEW valid, valid => ClassPromise(class, size, src, dest, imm)
  PROVE  Proper(WithKind(WithImm(Made(class, op, size, src, dest, valid), imm), kind), op)
<1> DEFINE c == WithKind(WithImm(Made(class, op, size, src, dest, valid), imm), kind)
<1>1. c.opcode = op
  BY DEF Made, WithKind, WithImm
<1>2. c.is_valid = valid
  BY DEF Made, WithKind, WithImm
<1>3. c.ins = Members(class, size, src, dest, kind, imm, FALSE)
  BY DEF Made, WithKind, WithImm, Members
<1>4. valid => Members(class, size, src, dest, kind, imm, FALSE) \in InstructionsWith(0 .. 255)
  BY MembersWellFormed
<1> QED BY <1>1, <1>2, <1>3, <1>4 DEF Proper

(* Entries with neither a kind nor an immediate.                           *)
LEMMA PlainProper ==
  ASSUME NEW class \in Classes, NEW op, NEW size \in DataSize, NEW src, Operand(src),
         NEW dest, Operand(dest), NEW valid, valid => ClassPromise(class, size, src, dest, 0)
  PROVE  Proper(Made(class, op, size, src, dest, valid), op)
<1> DEFINE c == Made(class, op, size, src, dest, valid)
<1>1. c.opcode = op
  BY DEF Made, WithKind, WithImm
<1>2. c.is_valid = valid
  BY DEF Made, WithKind, WithImm
<1>3. c.ins = Members(class, size, src, dest, 0, 0, FALSE)
  BY DEF Made, WithKind, WithImm, Members
<1>4. 0 \in 0 .. 15 /\ 0 \in 0 .. 255
  OBVIOUS
<1>5. valid => Members(class, size, src, dest, 0, 0, FALSE) \in InstructionsWith(0 .. 255)
  BY <1>4, MembersWellFormed
<1> QED BY <1>1, <1>2, <1>3, <1>5 DEF Proper

(* Entries with a kind.                                                    *)
LEMMA KindProper ==
  ASSUME NEW class \in Classes, NEW op, NEW size \in DataSize, NEW src, Operand(src),
         NEW dest, Operand(dest), NEW kind \in 0 .. 15,
         NEW valid, valid => ClassPromise(class, size, src, dest, 0)
  PROVE  Proper(WithKind(Made(class, op, size, src, dest, valid), kind), op)
<1> DEFINE c == WithKind(Made(class, op, size, src, dest, valid), kind)
<1>1. c.opcode = op
  BY DEF Made, WithKind, WithImm
<1>2. c.is_valid = valid
  BY DEF Made, WithKind, WithImm
<1>3. c.ins = Members(class, size, src, dest, kind, 0, FALSE)
  BY DEF Made, WithKind, WithImm, Members
<1>4. 0 \in 0 .. 15 /\ 0 \in 0 .. 255
  OBVIOUS
<1>5. valid => Members(class, size, src, dest, kind, 0, FALSE) \in InstructionsWith(0 .. 255)
  BY <1>4, MembersWellFormed
<1> QED BY <1>1, <1>2, <1>3, <1>5 DEF Proper

(* Entries with an immediate.                                              *)
LEMMA ImmProper ==
  ASSUME NEW class \in Classes, NEW op, NEW size \in DataSize, NEW src, Operand(src),
         NEW dest, Operand(dest), NEW imm \in 0 .. 255,
         NEW valid, valid => ClassPromise(class, size, src, dest, imm)
  PROVE  Proper(WithImm(Made(class, op, size, src, dest, valid), imm), op)
<1> DEFINE c == WithImm(Made(class, op, size, src, dest, valid), imm)
<1>1. c.opcode = op
  BY DEF Made, WithKind, WithImm
<1>2. c.is_valid = valid
  BY DEF Made, WithKind, WithImm
<1>3. c.ins = Members(class, size, src, dest, 0, imm, FALSE)
  BY DEF Made, WithKind, WithImm, Members
<1>4. 0 \in 0 .. 15 /\ 0 \in 0 .. 255
  OBVIOUS
<1>5. valid => Members(class, size, src, dest, 0, imm, FALSE) \in InstructionsWith(0 .. 255)
  BY <1>4, MembersWellFormed
<1> QED BY <1>1, <1>2, <1>3, <1>5 DEF Proper
-----------------------------------------------------------------------------
(* The shared shapes, by the classes that use them.                        *)
LEMMA DataAndEaProper ==
  ASSUME NEW op \in Nat, NEW class \in {"Add", "Sub", "And", "Or"}
  PROVE  Proper(DataAndEa(class, op), op)
<1>0. class \in Classes /\ Operand(DataPart(op)) /\ Operand(EaPart(op)) /\ SizePart(op) \in DataSize
  BY Operands, Sizes DEF Classes
<1>1. CASE Part(op, 8, 1) = 1
  <2> DEFINE v == SizeValid(op) /\ IS_MEMORY_ALTERABLE(EaPart(op)[1])
  <2>1. v => ClassPromise(class, SizePart(op), DataPart(op), EaPart(op), 0)
    BY DEF ClassPromise
  <2>2. DataAndEa(class, op) = Made(class, op, SizePart(op), DataPart(op), EaPart(op), v)
    BY <1>1 DEF DataAndEa
  <2> HIDE DEF v
  <2> QED BY <1>0, <2>1, <2>2, PlainProper
<1>2. CASE Part(op, 8, 1) # 1
  <2>1. ClassPromise(class, SizePart(op), EaPart(op), DataPart(op), 0)
    BY Operands DEF ClassPromise, IS_MEMORY_ALTERABLE, DIRECT_DATA, UNKNOWN,
       PC_DISPLACEMENT, PC_INDEX, IMMEDIATE
  <2>2. DataAndEa(class, op)
          = Made(class, op, SizePart(op), EaPart(op), DataPart(op), SizeValid(op))
    BY <1>2 DEF DataAndEa
  <2> QED BY <1>0, <2>1, <2>2, PlainProper
<1> QED BY <1>1, <1>2

(* Classes that alter their effective address.                             *)
LEMMA AlterEaProper ==
  ASSUME NEW op \in Nat,
         NEW class \in {"Addi", "Subi", "Andi", "Ori", "Eori", "Cmpi", "Clr", "Neg"}
  PROVE  Proper(AlterEa(class, op), op)
<1> DEFINE v == SizeValid(op) /\ IS_MEMORY_ALTERABLE(EaPart(op)[1])
<1>1. class \in Classes /\ Operand(NoOperand) /\ Operand(EaPart(op)) /\ SizePart(op) \in DataSize
  BY Operands, Sizes DEF Classes
<1>2. \A n : v => ClassPromise(class, SizePart(op), NoOperand, EaPart(op), n)
  BY DEF ClassPromise
<1>3. AlterEa(class, op) = Made(class, op, SizePart(op), NoOperand, EaPart(op), v)
  BY DEF AlterEa
<1> HIDE DEF v
<1> QED BY <1>1, <1>2, <1>3, PlainProper

(* addq and subq.                                                          *)
LEMMA QuickProper ==
  ASSUME NEW op \in Nat,
         NEW class \in {"Addq", "Subq"}
  PROVE  Proper(Quick(class, op), op)
<1> DEFINE v == SizeValid(op) /\ IS_MEMORY_ALTERABLE(EaPart(op)[1])
<1>1. class \in Classes /\ Operand(NoOperand) /\ Operand(EaPart(op)) /\ SizePart(op) \in DataSize
  BY Operands, Sizes DEF Classes
<1>2. \A n : v => ClassPromise(class, SizePart(op), NoOperand, EaPart(op), n)
  BY DEF ClassPromise
<1>3. AlterEa(class, op) = Made(class, op, SizePart(op), NoOperand, EaPart(op), v)
  BY DEF AlterEa
<1> DEFINE n == IF Part(op, 9, 3) = 0 THEN 8 ELSE Part(op, 9, 3)
<1>4. n \in 0 .. 255
  BY PartRange
<1>5. Quick(class, op) = WithImm(AlterEa(class, op), n)
  BY DEF Quick
<1> HIDE DEF v, n
<1> QED BY <1>1, <1>2, <1>3, <1>4, <1>5, ImmProper

(* adda, suba and cmpa.                                                    *)
LEMMA ToAddressProper ==
  ASSUME NEW op \in Nat, NEW class \in {"Adda", "Suba", "Cmpa"}
  PROVE  Proper(ToAddress(class, op), op)
<1> DEFINE size == WordOrLong(Part(op, 8, 1))
<1>1. class \in Classes /\ Operand(AddrPart(op)) /\ Operand(EaPart(op)) /\ size \in DataSize
  BY Operands, Sizes, PartRange DEF Classes
<1>2. ClassPromise(class, size, EaPart(op), AddrPart(op), 0)
  BY Operands DEF ClassPromise, IS_MEMORY_ALTERABLE, DIRECT_ADDR, UNKNOWN, PC_DISPLACEMENT,
     PC_INDEX, IMMEDIATE
<1>3. ToAddress(class, op) = Made(class, op, size, EaPart(op), AddrPart(op), TRUE)
  BY DEF ToAddress
<1> HIDE DEF size
<1> QED BY <1>1, <1>2, <1>3, PlainProper

(* addx and subx.                                                          *)
LEMMA ExtendedProper ==
  ASSUME NEW op \in Nat, NEW class \in {"Addx", "Subx"}
  PROVE  Proper(Extended(class, op), op)
<1> DEFINE bit == Part(op, 3, 1)
           x(r) == << IF bit = 0 THEN DIRECT_DATA ELSE PREDECREMENT, getRegisterType(bit, r) >>
           src == x(Part(op, 0, 3))
           dest == x(Part(op, 9, 3))
<1>1. \A r \in 0 .. 7 : Operand(x(r)) /\ IS_MEMORY_ALTERABLE(x(r)[1])
  BY RegisterOperand DEF getRegisterType, IS_MEMORY_ALTERABLE, DIRECT_DATA, PREDECREMENT,
     UNKNOWN, PC_DISPLACEMENT, PC_INDEX, IMMEDIATE
<1>2. Extended(class, op) = Made(class, op, SizePart(op), src, dest, SizeValid(op))
  BY DEF Extended
<1> HIDE DEF x
<1>3. Operand(src) /\ Operand(dest) /\ IS_MEMORY_ALTERABLE(dest[1])
  BY <1>1, PartRange
<1> HIDE DEF src, dest
<1>4. ClassPromise(class, SizePart(op), src, dest, 0) /\ class \in Classes
  BY <1>3 DEF ClassPromise, Classes
<1>5. SizePart(op) \in DataSize
  BY Sizes
<1> QED BY <1>2, <1>3, <1>4, <1>5, PlainProper

(* The multiplications and divisions.                                      *)
LEMMA MulDivProper ==
  ASSUME NEW op \in Nat, NEW class \in {"Mul", "Div"}
  PROVE  Proper(MulDiv(class, op), op)
<1> DEFINE kind == Part(op, 8, 1)
<1>1. /\ class \in Classes /\ Operand(DataPart(op)) /\ Operand(EaPart(op))
      /\ kind \in 0 .. 15 /\ SIZE_WORD \in DataSize
  BY Operands, PartRange DEF Classes, DataSize
<1>2. ClassPromise(class, SIZE_WORD, EaPart(op), DataPart(op), 0)
  BY Operands DEF ClassPromise, ReadModifyWrite
<1>3. MulDiv(class, op)
        = WithKind(Made(class, op, SIZE_WORD, EaPart(op), DataPart(op), TRUE), kind)
  BY DEF MulDiv
<1> HIDE DEF kind
<1> QED BY <1>1, <1>2, <1>3, KindProper

(* jmp and jsr.                                                            *)
LEMMA ControlProper ==
  ASSUME NEW op \in Nat, NEW class \in {"Jmp", "Jsr"}
  PROVE  Proper(Control(class, op), op)
<1> DEFINE v == IS_CONTROL_ADDR(EaPart(op)[1])
<1>1. /\ class \in Classes /\ Operand(NoOperand) /\ Operand(EaPart(op))
      /\ SIZE_LONG \in DataSize
  BY Operands DEF Classes, DataSize
<1>2. v => ClassPromise(class, SIZE_LONG, NoOperand, EaPart(op), 0)
  BY DEF ClassPromise, ReadModifyWrite
<1>3. Control(class, op) = Made(class, op, SIZE_LONG, NoOperand, EaPart(op), v)
  BY DEF Control
<1> HIDE DEF v
<1> QED BY <1>1, <1>2, <1>3, PlainProper

(* link and unlk.                                                          *)
LEMMA FrameProper ==
  ASSUME NEW op \in Nat, NEW class \in {"Link", "Unlk"}
  PROVE  Proper(Frame(class, op), op)
<1> DEFINE dest == <<DIRECT_ADDR, getRegisterType(1, Part(op, 0, 3))>>
<1>1. dest = <<DIRECT_ADDR, Part(op, 0, 3) + 8>>
  BY DEF getRegisterType
<1>2. Operand(dest) /\ dest[2] \in AddrReg
  <2>1. Part(op, 0, 3) \in 0 .. 7
    BY PartRange
  <2>2. Operand(<<DIRECT_ADDR, Part(op, 0, 3) + 8>>)
    BY <2>1, RegisterOperand, Zenon
  <2>3. dest[2] \in AddrReg
    BY <1>1, <2>1 DEF AddrReg
  <2> HIDE DEF dest
  <2> QED BY <1>1, <2>2, <2>3
<1>3. class \in Classes /\ Operand(NoOperand) /\ SIZE_WORD \in DataSize
  BY Operands DEF Classes, DataSize
<1>4. Frame(class, op) = Made(class, op, SIZE_WORD, NoOperand, dest, TRUE)
  BY DEF Frame
<1> HIDE DEF dest
<1>5. ClassPromise(class, SIZE_WORD, NoOperand, dest, 0)
  BY <1>2 DEF ClassPromise, ReadModifyWrite
<1> QED BY <1>2, <1>3, <1>4, <1>5, PlainProper
-----------------------------------------------------------------------------
(* The constructors that have a shape of their own.                        *)
LEMMA EorProper ==
  ASSUME NEW op \in Nat
  PROVE  Proper(EorCreate(op), op)
<1> DEFINE v == SizeValid(op) /\ IS_MEMORY_ALTERABLE(EaPart(op)[1])
           made == DataAndEa("Eor", op)
<1>1. EorCreate(op) = [made EXCEPT !.is_valid = @ /\ Part(op, 8, 1) = 1]
  BY DEF EorCreate
<1>2. CASE Part(op, 8, 1) = 1
  <2>1. made = Made("Eor", op, SizePart(op), DataPart(op), EaPart(op), v)
    BY <1>2 DEF DataAndEa
  <2>2. EorCreate(op).opcode = op /\ EorCreate(op).ins = made.ins
    BY <1>1, <2>1 DEF Made
  <2>3. EorCreate(op).is_valid = (made.is_valid /\ Part(op, 8, 1) = 1)
    BY <1>1, <2>1 DEF Made
  <2>4. v => ClassPromise("Eor", SizePart(op), DataPart(op), EaPart(op), 0)
    BY DEF ClassPromise
  <2> HIDE DEF v
  <2>5. Proper(Made("Eor", op, SizePart(op), DataPart(op), EaPart(op), v), op)
    BY <2>4, Operands, Sizes, PlainProper DEF Classes
  <2> QED BY <2>1, <2>2, <2>3, <2>5 DEF Proper
<1>3. CASE Part(op, 8, 1) # 1
  <2>1. made = Made("Eor", op, SizePart(op), EaPart(op), DataPart(op), SizeValid(op))
    BY <1>3 DEF DataAndEa
  <2>2. EorCreate(op).opcode = op
    BY <1>1, <2>1 DEF Made
  <2>3. EorCreate(op).is_valid = (made.is_valid /\ Part(op, 8, 1) = 1)
    BY <1>1, <2>1 DEF Made
  <2> QED BY <1>3, <2>2, <2>3 DEF Proper
<1> QED BY <1>2, <1>3

(* Classes that only read their operands.                                  *)
LEMMA ReadersProper ==
  ASSUME NEW op \in Nat
  PROVE  Proper(CmpCreate(op), op) /\ Proper(TstCreate(op), op)
<1>1. /\ Operand(EaPart(op)) /\ Operand(DataPart(op)) /\ Operand(NoOperand)
      /\ SizePart(op) \in DataSize /\ "Cmp" \in Classes /\ "Tst" \in Classes
  BY Operands, Sizes DEF Classes
<1>2. ClassPromise("Cmp", SizePart(op), EaPart(op), DataPart(op), 0)
  BY DEF ClassPromise, ReadModifyWrite
<1>3. ClassPromise("Tst", SizePart(op), EaPart(op), NoOperand, 0)
  BY DEF ClassPromise, ReadModifyWrite
<1>4. Proper(CmpCreate(op), op)
  BY <1>1, <1>2, PlainProper DEF CmpCreate
<1>5. Proper(TstCreate(op), op)
  BY <1>1, <1>3, PlainProper DEF TstCreate
<1> QED BY <1>4, <1>5

(* ext.                                                                    *)
LEMMA ExtProper ==
  ASSUME NEW op \in Nat
  PROVE  Proper(ExtCreate(op), op)
<1> DEFINE dest == <<DIRECT_DATA, Part(op, 0, 3)>>  size == WordOrLong(Part(op, 6, 1))
<1>0. Operand(dest) /\ dest[1] = DIRECT_DATA /\ dest[2] \in DataReg
  BY RegisterOperand, PartRange DEF DataReg
<1>1. Operand(NoOperand) /\ size \in DataSize /\ "Ext" \in Classes
  BY PartRange, Operands, Sizes DEF Classes
<1>2. ExtCreate(op) = Made("Ext", op, size, NoOperand, dest, TRUE)
  BY DEF ExtCreate
<1> HIDE DEF dest, size
<1>3. ClassPromise("Ext", size, NoOperand, dest, 0)
  BY <1>0 DEF ClassPromise, ReadModifyWrite
<1> QED BY <1>0, <1>1, <1>2, <1>3, PlainProper

(* moveq.                                                                  *)
LEMMA MoveqProper ==
  ASSUME NEW op \in Nat
  PROVE  Proper(MoveqCreate(op), op)
<1> DEFINE imm == Part(op, 0, 8)
<1>1. /\ Operand(NoOperand) /\ Operand(DataPart(op)) /\ imm \in 0 .. 255
      /\ SIZE_LONG \in DataSize /\ "Moveq" \in Classes
  BY PartRange, Operands, Sizes DEF Classes
<1>2. MoveqCreate(op)
        = WithImm(Made("Moveq", op, SIZE_LONG, NoOperand, DataPart(op), TRUE), imm)
  BY DEF MoveqCreate
<1> HIDE DEF imm
<1>3. ClassPromise("Moveq", SIZE_LONG, NoOperand, DataPart(op), imm)
  BY Operands DEF ClassPromise, ReadModifyWrite
<1> QED BY <1>1, <1>2, <1>3, ImmProper

(* lea and pea.                                                            *)
LEMMA AddressProper ==
  ASSUME NEW op \in Nat
  PROVE  Proper(LeaCreate(op), op) /\ Proper(PeaCreate(op), op)
<1> DEFINE v == IS_CONTROL_ADDR(EaPart(op)[1])
<1>1. /\ Operand(EaPart(op)) /\ Operand(AddrPart(op)) /\ Operand(NoOperand)
      /\ SIZE_LONG \in DataSize /\ "Lea" \in Classes /\ "Pea" \in Classes
  BY Operands, Sizes DEF Classes
<1>2. v => ClassPromise("Lea", SIZE_LONG, EaPart(op), AddrPart(op), 0)
  BY Operands DEF ClassPromise, ReadModifyWrite
<1>3. v => ClassPromise("Pea", SIZE_LONG, EaPart(op), NoOperand, 0)
  BY DEF ClassPromise, ReadModifyWrite
<1>4. /\ LeaCreate(op) = Made("Lea", op, SIZE_LONG, EaPart(op), AddrPart(op), v)
      /\ PeaCreate(op) = Made("Pea", op, SIZE_LONG, EaPart(op), NoOperand, v)
  BY DEF LeaCreate, PeaCreate
<1> HIDE DEF v
<1>5. Proper(LeaCreate(op), op)
  BY <1>1, <1>2, <1>4, PlainProper
<1>6. Proper(PeaCreate(op), op)
  BY <1>1, <1>3, <1>4, PlainProper
<1> QED BY <1>5, <1>6

(* move and movea.                                                         *)
LEMMA MoveProper ==
  ASSUME NEW op \in Nat
  PROVE  Proper(MoveCreate(op), op)
<1> DEFINE dest == Ea(Part(op, 6, 3), Part(op, 9, 3))
           src  == EaPart(op)
           part == Part(op, 12, 2)
           size == <<SIZE_WORD, SIZE_BYTE, SIZE_LONG, SIZE_WORD>>[part + 1]
           v    == /\ src[1] # UNKNOWN
                   /\ IS_MEMORY_ALTERABLE(dest[1])
                   /\ part # 0
                   /\ ~(dest[1] = DIRECT_ADDR /\ size = SIZE_BYTE)
<1>1. MoveCreate(op) = Made("Move", op, size, src, dest, v)
  BY DEF MoveCreate
<1>2. Operand(src) /\ Operand(dest) /\ "Move" \in Classes
  BY PartRange, EaOperand, Operands DEF Classes
<1>3. size \in DataSize
  BY PartRange DEF DataSize, SIZE_BYTE, SIZE_WORD, SIZE_LONG
<1> HIDE DEF dest, src, size
<1>4. v => ClassPromise("Move", size, src, dest, 0)
  BY DEF ClassPromise
<1> HIDE DEF v
<1> QED BY <1>1, <1>2, <1>3, <1>4, PlainProper

(* The condition field of an opcode.                                       *)
LEMMA ConditionRange ==
  ASSUME NEW op \in Nat
  PROVE  getCondition(Part(op, 8, 4)) \in 0 .. 15
  BY PartRange DEF getCondition

(* The branches.                                                           *)
LEMMA BccProper ==
  ASSUME NEW op \in Nat
  PROVE  Proper(BccCreate(op), op)
<1> DEFINE byte == Part(op, 0, 8)
           size == CASE byte = 0 -> SIZE_WORD [] byte = 255 -> SIZE_LONG [] OTHER -> SIZE_BYTE
           cond == getCondition(Part(op, 8, 4))
<1>1. BccCreate(op)
        = WithKind(WithImm(Made("Bcc", op, size, NoOperand, NoOperand, TRUE), byte), cond)
  BY DEF BccCreate
<1>2. /\ byte \in 0 .. 255 /\ size \in DataSize /\ cond \in 0 .. 15
      /\ Operand(NoOperand) /\ "Bcc" \in Classes
  BY PartRange, ConditionRange, Operands, Sizes DEF Classes
<1> HIDE DEF byte, size, cond
<1>3. ClassPromise("Bcc", size, NoOperand, NoOperand, byte)
  BY DEF ClassPromise, ReadModifyWrite
<1>4. Proper(WithKind(WithImm(Made("Bcc", op, size, NoOperand, NoOperand, TRUE), byte), cond), op)
  BY <1>2, <1>3, MadeProper, Zenon
<1> QED BY <1>1, <1>4, Zenon

(* scc.                                                                    *)
LEMMA SccProper ==
  ASSUME NEW op \in Nat
  PROVE  Proper(SccCreate(op), op)
<1> DEFINE v == IS_DATA_ALTERABLE(EaPart(op)[1])
           cond == getCondition(Part(op, 8, 4))
<1>1. SccCreate(op) = WithKind(Made("Scc", op, SIZE_BYTE, NoOperand, EaPart(op), v), cond)
  BY DEF SccCreate
<1>2. /\ cond \in 0 .. 15 /\ Operand(NoOperand) /\ Operand(EaPart(op))
      /\ SIZE_BYTE \in DataSize /\ "Scc" \in Classes
  BY ConditionRange, Operands, Sizes DEF Classes
<1>3. v => ClassPromise("Scc", SIZE_BYTE, NoOperand, EaPart(op), 0)
  BY DEF ClassPromise, ReadModifyWrite
<1> HIDE DEF v, cond
<1> QED BY <1>1, <1>2, <1>3, KindProper

(* A mode a data operand may have is one a memory operand may have.        *)
LEMMA BitManipProper ==
  ASSUME NEW op \in Nat
  PROVE  Proper(BitManipCreate(op), op)
<1> DEFINE dest == EaPart(op)
           src  == << IF Part(op, 8, 1) = 1 THEN DIRECT_DATA ELSE IMMEDIATE, Part(op, 9, 3) >>
           size == IF dest[1] = DIRECT_DATA THEN SIZE_LONG ELSE SIZE_BYTE
           v    == IS_DATA_ALTERABLE(dest[1])
           kind == Part(op, 6, 2)
<1>1. BitManipCreate(op) = WithKind(Made("BitManip", op, size, src, dest, v), kind)
  BY DEF BitManipCreate
<1>2. Operand(src)
  BY RegisterOperand, PartRange
<1>3. /\ Operand(dest) /\ size \in DataSize /\ kind \in 0 .. 15 /\ "BitManip" \in Classes
  BY PartRange, Operands, Sizes DEF Classes
<1> HIDE DEF src, size, kind
<1>4. v => ClassPromise("BitManip", size, src, dest, 0)
  BY DEF ClassPromise, IS_DATA_ALTERABLE, IS_MEMORY_ALTERABLE
<1> HIDE DEF v, dest
<1> QED BY <1>1, <1>2, <1>3, <1>4, KindProper

(* The shifts and rotates.                                                 *)
LEMMA ShiftProper ==
  ASSUME NEW op \in Nat
  PROVE  Proper(BitShiftCreate(op), op)
<1> DEFINE memory == ~SizeValid(op)
           imm    == Part(op, 5, 1) = 1
           count  == << IF memory \/ imm THEN IMMEDIATE ELSE DIRECT_DATA,
                        IF memory \/ imm THEN REG_D0 ELSE Part(op, 9, 3) >>
           dest   == IF memory THEN EaPart(op) ELSE <<DIRECT_DATA, Part(op, 0, 3)>>
           v      == memory => IS_MEMORY_ALTERABLE(dest[1])
           made   == Made("BitShift", op, SizePart(op), count, dest, v)
           n      == CASE memory -> 1 [] ~memory /\ imm -> Part(op, 9, 3) + 1 [] OTHER -> 0
           kind   == Part(op, IF memory THEN 3 ELSE 9, 2)
           left   == (Part(op, 8, 1) = 1)
<1>1. BitShiftCreate(op) = [WithKind(WithImm(made, n), kind) EXCEPT !.ins.left = left]
  BY DEF BitShiftCreate
<1>2. Operand(count) /\ Operand(dest)
  <2>0. 0 \in 0 .. 7
    OBVIOUS
  <2>1. /\ Operand(<<IMMEDIATE, 0>>) /\ Operand(<<DIRECT_DATA, Part(op, 9, 3)>>)
        /\ Operand(<<DIRECT_DATA, Part(op, 0, 3)>>) /\ Operand(EaPart(op))
    BY <2>0, RegisterOperand, PartRange, Operands, Zenon
  <2>2. \/ count = <<IMMEDIATE, 0>>
        \/ count = <<DIRECT_DATA, Part(op, 9, 3)>>
    BY DEF REG_D0
  <2>3. dest = EaPart(op) \/ dest = <<DIRECT_DATA, Part(op, 0, 3)>>
    OBVIOUS
  <2> HIDE DEF count, dest
  <2> QED BY <2>1, <2>2, <2>3
<1>3. /\ n \in 0 .. 8 /\ SizePart(op) \in DataSize /\ "BitShift" \in Classes
  BY PartRange, Sizes DEF Classes
<1>4. kind \in 0 .. 15
  BY PartRange
<1>5. left \in BOOLEAN
  OBVIOUS
<1>6. v => IS_MEMORY_ALTERABLE(dest[1])
  BY DEF IS_MEMORY_ALTERABLE, DIRECT_DATA, UNKNOWN, PC_DISPLACEMENT, PC_INDEX, IMMEDIATE
<1> HIDE DEF count, dest, v, n, kind, left
<1>7. BitShiftCreate(op).opcode = op /\ BitShiftCreate(op).is_valid = v
  BY <1>1 DEF Made, WithKind, WithImm
<1>8. BitShiftCreate(op).ins = Members("BitShift", SizePart(op), count, dest, kind, n, left)
  <2> DEFINE w == WithKind(WithImm(made, n), kind)
  <2>1. w.ins = Members("BitShift", SizePart(op), count, dest, kind, n, FALSE)
    BY DEF Made, WithKind, WithImm, Members
  <2>2. BitShiftCreate(op).ins = [w.ins EXCEPT !.left = left]
    BY <1>1 DEF Made, WithKind, WithImm
  <2> HIDE DEF w
  <2> QED BY <2>1, <2>2 DEF Members
<1>9. v => ClassPromise("BitShift", SizePart(op), count, dest, n)
  BY <1>3, <1>6 DEF ClassPromise
<1>10. n \in 0 .. 255
  BY <1>3
<1>11. v => Members("BitShift", SizePart(op), count, dest, kind, n, left)
              \in InstructionsWith(0 .. 255)
  <2> SUFFICES ASSUME v
               PROVE  Members("BitShift", SizePart(op), count, dest, kind, n, left)
                        \in InstructionsWith(0 .. 255)
    OBVIOUS
  <2>1. /\ SizePart(op) \in DataSize /\ "BitShift" \in Classes
        /\ ClassPromise("BitShift", SizePart(op), count, dest, n)
    BY <1>3, <1>9
  <2> QED BY <1>2, <1>4, <1>5, <1>10, <2>1, MembersWellFormed, ZenonT(60)
<1> QED BY <1>7, <1>8, <1>11 DEF Proper

(* Classes without operands.                                               *)
LEMMA BareProper ==
  ASSUME NEW op
  PROVE  Proper(NopCreate(op), op) /\ Proper(RtsCreate(op), op) /\ Proper(IllegalCreate(op), op)
<1> DEFINE made(class) == Made(class, op, SIZE_WORD, NoOperand, NoOperand, TRUE)
<1>1. Operand(NoOperand) /\ SIZE_WORD \in DataSize /\ {"Nop", "Rts", "Illegal"} \subseteq Classes
  BY DEF Operand, NoOperand, EAFormed, AddressingMode, REG_D0, DataReg, DIRECT_DATA, DIRECT_ADDR,
     INDIRECT, POSTINCREMENT, PREDECREMENT, DISPLACEMENT, INDEX, DataSize, Classes
<1>2. \A class \in {"Nop", "Rts", "Illegal"} :
        ClassPromise(class, SIZE_WORD, NoOperand, NoOperand, 0)
  BY DEF ClassPromise, ReadModifyWrite
<1>3. \A class \in {"Nop", "Rts", "Illegal"} : Proper(made(class), op)
  BY <1>1, <1>2, PlainProper
<1> QED BY <1>3 DEF NopCreate, RtsCreate, IllegalCreate
-----------------------------------------------------------------------------
(* Every constructor, as the virtual call of a row reaches it.             *)
LEMMA CreateProper ==
  ASSUME NEW op \in Nat, NEW class \in Classes
  PROVE  Proper(Create(class, op), op)
<1>1. CASE class \in {"Add", "Sub", "And", "Or"}
  BY <1>1, DataAndEaProper DEF Create, AddCreate, SubCreate, AndCreate, OrCreate
<1>2. CASE class \in {"Addi", "Subi", "Andi", "Ori", "Eori", "Cmpi", "Clr", "Neg"}
  <2>1. Create(class, op) = AlterEa(class, op)
    BY <1>2 DEF Create, AddiCreate, SubiCreate, AndiCreate, OriCreate, EoriCreate,
       CmpiCreate, ClrCreate, NegCreate
  <2> QED BY <1>2, <2>1, AlterEaProper
<1>3. CASE class \in {"Addq", "Subq"}
  BY <1>3, QuickProper DEF Create, AddqCreate, SubqCreate
<1>4. CASE class \in {"Adda", "Suba", "Cmpa"}
  BY <1>4, ToAddressProper DEF Create, AddaCreate, SubaCreate, CmpaCreate
<1>5. CASE class \in {"Addx", "Subx"}
  BY <1>5, ExtendedProper DEF Create, AddxCreate, SubxCreate
<1>6. CASE class \in {"Mul", "Div"}
  BY <1>6, MulDivProper DEF Create, MulCreate, DivCreate
<1>7. CASE class \in {"Jmp", "Jsr"}
  BY <1>7, ControlProper DEF Create, JmpCreate, JsrCreate
<1>8. CASE class \in {"Link", "Unlk"}
  BY <1>8, FrameProper DEF Create, LinkCreate, UnlkCreate
<1>9. CASE class \in {"Eor"}
  BY <1>9, EorProper DEF Create
<1>10. CASE class \in {"Cmp", "Tst"}
  BY <1>10, ReadersProper DEF Create
<1>11. CASE class \in {"Ext"}
  BY <1>11, ExtProper DEF Create
<1>12. CASE class \in {"Moveq"}
  BY <1>12, MoveqProper DEF Create
<1>13. CASE class \in {"Lea", "Pea"}
  BY <1>13, AddressProper DEF Create
<1>14. CASE class \in {"Move"}
  BY <1>14, MoveProper DEF Create
<1>15. CASE class \in {"Bcc"}
  BY <1>15, BccProper DEF Create
<1>16. CASE class \in {"Scc"}
  BY <1>16, SccProper DEF Create
<1>17. CASE class \in {"BitManip"}
  BY <1>17, BitManipProper DEF Create
<1>18. CASE class \in {"BitShift"}
  BY <1>18, ShiftProper DEF Create
<1>19. CASE class \in {"Nop", "Rts", "Illegal"}
  BY <1>19, BareProper DEF Create
<1> QED BY <1>1, <1>2, <1>3, <1>4, <1>5, <1>6, <1>7, <1>8, <1>9, <1>10, <1>11, <1>12, <1>13, <1>14, <1>15, <1>16, <1>17, <1>18, <1>19 DEF Classes

(* The rows of the mask table are numbered.                                *)
LEMMA TableRows == DOMAIN opcode_mask_table = 1 .. 62
  BY DEF opcode_mask_table

(* Every row names a class.                                                *)
LEMMA RowClass ==
  ASSUME NEW k \in 1 .. 62
  PROVE  opcode_mask_table[k][3] \in Classes
  BY DEF opcode_mask_table, Classes

(* A row that matches is one of the table.                                 *)
LEMMA RowsInTable ==
  ASSUME NEW op \in Nat
  PROVE  Rows(op) \subseteq 1 .. 62
<1>1. Part(op, 12, 4) \in 0 .. 15
  BY DEF Part
<1> QED BY <1>1, TableRows DEF Rows, Line

(* The rows are numbered, so some row of a set of them is the first.       *)
LEMMA FirstIn ==
  ASSUME NEW S, S \subseteq 1 .. 62, S # {}
  PROVE  First(S) \in S /\ \A j \in S : First(S) <= j
<1> DEFINE R == OpToRel(<, Nat)
<1>0. S \in SUBSET Nat
  OBVIOUS
<1>1. \E k \in S : \A j \in S : ~(<<j, k>> \in R)
  BY <1>0, NatLessThanWellFounded, WFMin
<1>2. \A k, j \in Nat : j < k => <<j, k>> \in R
  BY DEF OpToRel
<1>3. PICK k \in S : \A j \in S : ~(<<j, k>> \in R)
  BY <1>1
<1>4. ASSUME NEW j \in S PROVE k <= j
  <2>1. ~(j < k)
    BY <1>0, <1>2, <1>3
  <2> QED BY <1>0, <2>1
<1> QED BY <1>4 DEF First

(* The inner loop leaves nothing, or one valid instruction for its opcode. *)
LEMMA CandidateProper ==
  ASSUME NEW op \in Nat, NEW c \in Candidate(op)
  PROVE  Proper(c, op) /\ c.is_valid /\ Candidate(op) = {c}
<1>1. /\ Rows(op) # {}
      /\ Candidate(op) = {d \in {CandidateOf(First(Rows(op)), op)} : d.is_valid}
  BY DEF Candidate
<1>2. c = CandidateOf(First(Rows(op)), op) /\ c.is_valid
  BY <1>1
<1>3. First(Rows(op)) \in 1 .. 62
  BY <1>1, RowsInTable, FirstIn
<1>4. Proper(c, op)
  BY <1>2, <1>3, RowClass, CreateProper DEF CandidateOf
<1> QED BY <1>1, <1>2, <1>4

(* The entry of an opcode nothing matches.                                 *)
LEMMA IllegalValid ==
  ASSUME NEW op
  PROVE  Proper(IllegalCreate(op), op) /\ IllegalCreate(op).is_valid
<1>1. IllegalCreate(op).is_valid = TRUE
  BY DEF IllegalCreate, Made
<1> QED BY <1>1, BareProper
-----------------------------------------------------------------------------
(***************************************************************************)
(* The inductive invariant: between two passes of the outer loop the local *)
(* unique_ptr is empty, and what was pushed last is one proper entry.      *)
(***************************************************************************)
LoopInv ==
  /\ opcode \in FirstOpcode .. LastOpcode + 1
  /\ instruction = {}
  /\ opcode = FirstOpcode => pushed = {}
  /\ opcode > FirstOpcode =>
       \E e : pushed = {e} /\ e.is_valid /\ Proper(e, opcode - 1)

(* The loop starts in the invariant.                                       *)
LEMMA LoopInit == Init => LoopInv
  BY OpcodeAssumption DEF Init, LoopInv

(* One pass pushes one valid instruction made for the loop variable.       *)
LEMMA EntryProper ==
  ASSUME LoopInv, opcode \in Nat
  PROVE  \E e : Entry(opcode) = {e} /\ e.is_valid /\ Proper(e, opcode)
<1>1. instruction = {}
  BY DEF LoopInv
<1>2. CASE Candidate(opcode) = {}
  <2>1. Entry(opcode) = {IllegalCreate(opcode)}
    BY <1>1, <1>2 DEF Entry
  <2> QED BY <2>1, IllegalValid
<1>3. ASSUME NEW c \in Candidate(opcode) PROVE Entry(opcode) = {c} /\ c.is_valid /\ Proper(c, opcode)
  <2>1. Candidate(opcode) = {c} /\ c.is_valid /\ Proper(c, opcode)
    BY <1>3, CandidateProper
  <2>2. Entry(opcode) = {c}
    BY <1>1, <2>1 DEF Entry
  <2> QED BY <2>1, <2>2
<1> QED BY <1>2, <1>3

(* Every iteration keeps it.                                               *)
LEMMA LoopStep == LoopInv /\ [Next]_vars => LoopInv'
<1> SUFFICES ASSUME LoopInv, [Next]_vars PROVE LoopInv'
  OBVIOUS
<1>1. CASE Iterate
  <2>1. /\ opcode \in FirstOpcode .. LastOpcode /\ opcode' = opcode + 1 /\ opcode \in Nat
        /\ FirstOpcode \in Nat /\ LastOpcode \in Nat
    BY <1>1, OpcodeAssumption DEF Iterate, Advance, LoopTest, LoopInv
  <2>2. pushed' = Entry(opcode) /\ instruction' = {}
    BY <1>1 DEF Iterate, AfterMove
  <2>3. PICK e : Entry(opcode) = {e} /\ e.is_valid /\ Proper(e, opcode)
    BY <2>1, EntryProper
  <2>4. opcode' - 1 = opcode /\ opcode' > FirstOpcode /\ opcode' \in FirstOpcode .. LastOpcode + 1
    BY <2>1
  <2>5. pushed' = {e} /\ e.is_valid /\ Proper(e, opcode' - 1)
    BY <2>2, <2>3, <2>4
  <2> QED BY <2>1, <2>2, <2>4, <2>5 DEF LoopInv
<1>2. CASE UNCHANGED vars
  BY <1>2 DEF LoopInv, vars
<1> QED BY <1>1, <1>2 DEF Next, Return

(***************************************************************************)
(* The assumption OpcodeTable of module CPU is what the decoder builds,    *)
(* whichever opcodes the loop walks: every entry is valid and well formed. *)
(***************************************************************************)
THEOREM TableWellFormed == Spec => []EntriesWellFormed
<1>1. LoopInv => EntriesWellFormed
  <2> SUFFICES ASSUME LoopInv, NEW e \in pushed
               PROVE  e.is_valid /\ e.ins \in InstructionsWith(0 .. 255)
    BY DEF EntriesWellFormed
  <2>1. opcode > FirstOpcode
    BY OpcodeAssumption DEF LoopInv
  <2>2. e.is_valid /\ Proper(e, opcode - 1)
    BY <2>1 DEF LoopInv
  <2> QED BY <2>2 DEF Proper
<1> QED BY <1>1, LoopInit, LoopStep, PTL DEF Spec

(***************************************************************************)
(* No entry is left over from an earlier pass of the loop.                 *)
(***************************************************************************)
THEOREM EntriesOwnOpcode == Spec => []EntryIsForItsOpcode
<1>1. LoopInv => EntryIsForItsOpcode
  BY DEF LoopInv, EntryIsForItsOpcode, Proper
<1> QED BY <1>1, LoopInit, LoopStep, PTL DEF Spec
-----------------------------------------------------------------------------
(* Bitwise and with the nibbles of the masks that tell rows apart.         *)
LEMMA NibbleBits ==
  ASSUME NEW x \in 0 .. 15
  PROVE  /\ Part(x, 0, 1) = x % 2 /\ Part(x, 1, 1) = (x \div 2) % 2
         /\ Part(x, 2, 1) = (x \div 4) % 2 /\ Part(x, 3, 1) = (x \div 8) % 2
  BY DEF Part

(* The table entry, bit by bit.                                            *)
LEMMA AndSum ==
  ASSUME NEW x \in 0 .. 15, NEW m \in 0 .. 15
  PROVE  AndNibble[x][m] = Part(x, 0, 1) * Part(m, 0, 1) + 2 * Part(x, 1, 1) * Part(m, 1, 1)
           + 4 * Part(x, 2, 1) * Part(m, 2, 1) + 8 * Part(x, 3, 1) * Part(m, 3, 1)
  BY DEF AndNibble

(* What the nibbles of the masks keep.                                     *)
LEMMA AndMasks ==
  ASSUME NEW x \in 0 .. 15
  PROVE  /\ AndNibble[x][15] = x
         /\ AndNibble[x][1] = x % 2
         /\ AndNibble[x][12] = x - (x % 4)
<1>1. AndNibble[x][15] = x
  <2>1. Part(15, 0, 1) = 1 /\ Part(15, 1, 1) = 1 /\ Part(15, 2, 1) = 1 /\ Part(15, 3, 1) = 1
    BY NibbleBits
  <2>2. AndNibble[x][15] = (x % 2) + 2 * ((x \div 2) % 2) + 4 * ((x \div 4) % 2) + 8 * ((x \div 8) % 2)
    BY <2>1, AndSum, NibbleBits
  <2> QED BY <2>2
<1>2. AndNibble[x][1] = x % 2
  <2>1. Part(1, 0, 1) = 1 /\ Part(1, 1, 1) = 0 /\ Part(1, 2, 1) = 0 /\ Part(1, 3, 1) = 0
    BY NibbleBits
  <2> QED BY <2>1, AndSum, NibbleBits
<1>3. AndNibble[x][12] = x - (x % 4)
  <2>1. Part(12, 0, 1) = 0 /\ Part(12, 1, 1) = 0 /\ Part(12, 2, 1) = 1 /\ Part(12, 3, 1) = 1
    BY NibbleBits
  <2>2. AndNibble[x][12] = 4 * ((x \div 4) % 2) + 8 * ((x \div 8) % 2)
    BY <2>1, AndSum, NibbleBits
  <2> QED BY <2>2
<1> QED BY <1>1, <1>2, <1>3

(* Every mask fixes the top nibble.                                        *)
LEMMA TopNibble ==
  ASSUME NEW op \in Nat, NEW k \in Rows(op)
  PROVE  Part(op, 12, 4) = Part(opcode_mask_table[k][2], 12, 4)
<1> DEFINE h == Part(op, 12, 4)
           row == opcode_mask_table[k]
<1>1. h \in 0 .. 15
  BY DEF Part
<1>2. k \in Line[h] /\ k \in 1 .. 62
  BY RowsInTable DEF Rows
<1>3. NibbleMatches(h * 4096, row, 12)
  BY <1>1, <1>2 DEF Line
<1>4. Part(h * 4096, 12, 4) = h
  BY <1>1 DEF Part
<1>5. Part(row[1], 12, 4) = 15
  BY <1>2 DEF opcode_mask_table, Part
<1> HIDE DEF h, row
<1>6. h = Part(row[2], 12, 4)
  BY <1>1, <1>3, <1>4, <1>5, AndMasks DEF NibbleMatches
<1> QED BY <1>6 DEF h, row

(* The line a row stands in: the top nibble of its value.                  *)
LineOf(k) ==
  IF k \in {7, 8, 9, 10, 18, 19, 20, 21, 22, 23, 30, 31, 32, 33} THEN 0 ELSE
  IF k = 58 THEN 1 ELSE
  IF k \in {35, 57} THEN 2 ELSE
  IF k \in {34, 56} THEN 3 ELSE
  IF k \in {1, 2, 3, 4, 5, 6, 11, 12, 13, 24, 25, 26, 36} THEN 4 ELSE
  IF k \in {45, 51, 52} THEN 5 ELSE
  IF k \in {27, 28, 59} THEN 6 ELSE
  IF k = 53 THEN 7 ELSE
  IF k \in {37, 38, 60} THEN 8 ELSE
  IF k \in {39, 46, 61} THEN 9 ELSE
  IF k \in {29, 54, 55} THEN 11 ELSE
  IF k \in {40, 41, 42} THEN 12 ELSE
  IF k \in {43, 44, 62} THEN 13 ELSE 14

(* The top nibble of every row.                                            *)
LEMMA TableLines ==
  ASSUME NEW k \in 1 .. 62
  PROVE  Part(opcode_mask_table[k][2], 12, 4) = LineOf(k)
  BY DEF opcode_mask_table, Part, LineOf

(* Masks that fix the third nibble.                                        *)
LEMMA ThirdNibble ==
  ASSUME NEW op \in Nat, NEW k \in Rows(op)
  PROVE  LET a == Part(op, 8, 4)
             m == Part(opcode_mask_table[k][1], 8, 4)
             v == Part(opcode_mask_table[k][2], 8, 4)
         IN  /\ a \in 0 .. 15 
             /\ m = 15 => a = v
             /\ m = 1 => a % 2 = v
<1> DEFINE a == Part(op, 8, 4)
           row == opcode_mask_table[k]
<1>1. a \in 0 .. 15
  BY DEF Part
<1>2. AndNibble[a][Part(row[1], 8, 4)] = Part(row[2], 8, 4)
  BY DEF Rows, NibbleMatches
<1> HIDE DEF a, row
<1>3. /\ a \in 0 .. 15 
      /\ Part(row[1], 8, 4) = 15 => a = Part(row[2], 8, 4)
      /\ Part(row[1], 8, 4) = 1 => a % 2 = Part(row[2], 8, 4)
  BY <1>1, <1>2, AndMasks
<1> QED BY <1>3 DEF a, row

(* Masks that fix the second nibble.                                       *)
LEMMA SecondNibble ==
  ASSUME NEW op \in Nat, NEW k \in Rows(op), Part(opcode_mask_table[k][1], 4, 4) = 12
  PROVE  LET b == Part(op, 4, 4)
         IN  b \in 0 .. 15 /\ b - (b % 4) = Part(opcode_mask_table[k][2], 4, 4)
<1> DEFINE b == Part(op, 4, 4)
           row == opcode_mask_table[k]
<1>1. b \in 0 .. 15
  BY DEF Part
<1>2. AndNibble[b][Part(row[1], 4, 4)] = Part(row[2], 4, 4)
  BY DEF Rows, NibbleMatches
<1> HIDE DEF b, row
<1>3. b \in 0 .. 15 /\ b - (b % 4) = Part(row[2], 4, 4)
  BY <1>1, <1>2, AndMasks DEF row
<1> QED BY <1>3 DEF b, row

(* A nibble of the mask and of the value of a row.                         *)
Nibble(k, lo, m, v) ==
  Part(opcode_mask_table[k][1], lo, 4) = m /\ Part(opcode_mask_table[k][2], lo, 4) = v

(* The bits that tell the rows of a line apart.                            *)
LEMMA RowBits ==
  /\ \A k \in {7, 8, 9, 10, 11} : Nibble(k, 8, 15, 8)
  /\ \A k \in {12, 13} : Nibble(k, 8, 15, 14)
  /\ Nibble(12, 4, 12, 8) /\ Nibble(13, 4, 12, 12)
  /\ Nibble(18, 8, 15, 0) /\ Nibble(19, 8, 15, 2) /\ Nibble(20, 8, 15, 4)
  /\ Nibble(21, 8, 15, 6) /\ Nibble(22, 8, 15, 10) /\ Nibble(23, 8, 15, 12)
  /\ Nibble(24, 8, 15, 2) /\ Nibble(25, 8, 15, 4) /\ Nibble(26, 8, 15, 10)
  /\ \A k \in {30, 31, 32, 33, 36, 52, 54} : Nibble(k, 8, 1, 1)
  /\ \A k \in {51, 55} : Nibble(k, 8, 1, 0)
  /\ Nibble(45, 4, 12, 12)
<1>1. \A k \in {7, 8, 9, 10, 11} : Nibble(k, 8, 15, 8)
  BY DEF Nibble, opcode_mask_table, Part
<1>2. \A k \in {12, 13} : Nibble(k, 8, 15, 14)
  BY DEF Nibble, opcode_mask_table, Part
<1>3. Nibble(12, 4, 12, 8) /\ Nibble(13, 4, 12, 12) /\ Nibble(45, 4, 12, 12)
  BY DEF Nibble, opcode_mask_table, Part
<1>4. Nibble(18, 8, 15, 0) /\ Nibble(19, 8, 15, 2) /\ Nibble(20, 8, 15, 4)
  BY DEF Nibble, opcode_mask_table, Part
<1>5. Nibble(21, 8, 15, 6) /\ Nibble(22, 8, 15, 10) /\ Nibble(23, 8, 15, 12)
  BY DEF Nibble, opcode_mask_table, Part
<1>6. Nibble(24, 8, 15, 2) /\ Nibble(25, 8, 15, 4) /\ Nibble(26, 8, 15, 10)
  BY DEF Nibble, opcode_mask_table, Part
<1>7. \A k \in {30, 31, 32, 33, 36, 52, 54} : Nibble(k, 8, 1, 1)
  BY DEF Nibble, opcode_mask_table, Part
<1>8. \A k \in {51, 55} : Nibble(k, 8, 1, 0)
  BY DEF Nibble, opcode_mask_table, Part
<1> QED BY <1>1, <1>2, <1>3, <1>4, <1>5, <1>6, <1>7, <1>8

(* A row with a nibble of the mask 15, 1 or 12 fixes bits of the opcode.   *)
LEMMA RowFixes ==
  ASSUME NEW op \in Nat, NEW k \in Rows(op), NEW v \in 0 .. 15
  PROVE  /\ Part(op, 8, 4) \in 0 .. 15 /\ Part(op, 4, 4) \in 0 .. 15
         /\ Nibble(k, 8, 15, v) => Part(op, 8, 4) = v
         /\ Nibble(k, 8, 1, v) => Part(op, 8, 4) % 2 = v
         /\ Nibble(k, 4, 12, v) => Part(op, 4, 4) - (Part(op, 4, 4) % 4) = v
<1>1. Part(op, 4, 4) \in 0 .. 15
  BY DEF Part
<1> QED BY <1>1, ThirdNibble, SecondNibble DEF Nibble

(* The classes whose constructor never clears is_valid.                    *)
AlwaysValid == {"Illegal", "Nop", "Rts", "Link", "Unlk", "Ext", "Bcc", "Mul", "Div",
                "Adda", "Suba", "Cmpa", "Moveq"}

ClassAt(k) == opcode_mask_table[k][3]

(* Two rows of different classes that match the same opcode.               *)
Overlaps == {<<"Addx", "Add">>, <<"Subx", "Sub">>, <<"Scc", "Addq">>, <<"Scc", "Subq">>}

(* The classes of the rows that share a line.                              *)
LEMMA ClassLines ==
  /\ \A k \in {7, 8, 9, 10, 30, 31, 32, 33} : ClassAt(k) = "BitManip"
  /\ \A k \in {34, 35, 56, 57} : ClassAt(k) = "Move"
  /\ \A k \in {1, 2, 3, 4, 5, 6, 27, 28, 59, 53, 37, 38, 39, 29, 40, 41, 43} : ClassAt(k) \in AlwaysValid
  /\ ClassAt(45) = "Scc" /\ ClassAt(51) = "Addq" /\ ClassAt(52) = "Subq"
  /\ ClassAt(46) = "Subx" /\ ClassAt(61) = "Sub" /\ ClassAt(44) = "Addx" /\ ClassAt(62) = "Add"
  /\ \A k \in {14, 15, 16, 17, 47, 48, 49, 50} : ClassAt(k) = "BitShift"
<1>1. \A k \in {7, 8, 9, 10, 30, 31, 32, 33} : ClassAt(k) = "BitManip"
  BY DEF ClassAt, opcode_mask_table
<1>2. \A k \in {34, 35, 56, 57} : ClassAt(k) = "Move"
  BY DEF ClassAt, opcode_mask_table
<1>3. \A k \in {1, 2, 3, 4, 5, 6, 27, 28, 59, 53, 37, 38, 39, 29, 40, 41, 43} : ClassAt(k) \in AlwaysValid
  BY DEF ClassAt, opcode_mask_table, AlwaysValid
<1>4. ClassAt(45) = "Scc" /\ ClassAt(51) = "Addq" /\ ClassAt(52) = "Subq"
  BY DEF ClassAt, opcode_mask_table
<1>5. ClassAt(46) = "Subx" /\ ClassAt(61) = "Sub" /\ ClassAt(44) = "Addx" /\ ClassAt(62) = "Add"
  BY DEF ClassAt, opcode_mask_table
<1>6. \A k \in {14, 15, 16, 17, 47, 48, 49, 50} : ClassAt(k) = "BitShift"
  BY DEF ClassAt, opcode_mask_table
<1> QED BY <1>1, <1>2, <1>3, <1>4, <1>5, <1>6

(* Two rows that match one opcode.                                         *)
LEMMA RowPairs ==
  ASSUME NEW op \in Nat, NEW j \in Rows(op), NEW k \in Rows(op), j <= k
  PROVE  \/ ClassAt(j) = ClassAt(k)
         \/ ClassAt(j) \in AlwaysValid
         \/ <<ClassAt(j), ClassAt(k)>> \in Overlaps
<1>1. j \in 1 .. 62 /\ k \in 1 .. 62
  BY RowsInTable
<1>2. LineOf(j) = LineOf(k)
  BY <1>1, TopNibble, TableLines
<1> DEFINE a == Part(op, 8, 4)
           b == Part(op, 4, 4)
<1>4. /\ a \in 0 .. 15 /\ b \in 0 .. 15
      /\ \A r \in {j, k} : \A v \in 0 .. 15 : 
           /\ Nibble(r, 8, 15, v) => a = v
           /\ Nibble(r, 8, 1, v) => a % 2 = v
           /\ Nibble(r, 4, 12, v) => b - (b % 4) = v
  BY RowFixes
<1> HIDE DEF a, b
<1>5. CASE LineOf(j) = 0
  <2>1. \A r \in {j, k} : /\ r \in {7, 8, 9, 10} => a = 8
                          /\ r = 18 => a = 0
                          /\ r = 19 => a = 2
                          /\ r = 20 => a = 4
                          /\ r = 21 => a = 6
                          /\ r = 22 => a = 10
                          /\ r = 23 => a = 12
                          /\ r \in {30, 31, 32, 33} => a % 2 = 1
    BY <1>4, RowBits
  <2>2. /\ j \in {7, 8, 9, 10, 18, 19, 20, 21, 22, 23, 30, 31, 32, 33}
        /\ k \in {7, 8, 9, 10, 18, 19, 20, 21, 22, 23, 30, 31, 32, 33}
    BY <1>1, <1>2, <1>5 DEF LineOf
  <2>3. j = k \/ (j \in {7, 8, 9, 10, 30, 31, 32, 33} /\ k \in {7, 8, 9, 10, 30, 31, 32, 33})
    BY <1>4, <2>1, <2>2
  <2> QED BY <2>3, ClassLines
<1>6. CASE LineOf(j) = 4
  <2>1. \A r \in {j, k} : /\ r = 11 => a = 8
                          /\ r \in {12, 13} => a = 14
                          /\ r = 12 => b - (b % 4) = 8
                          /\ r = 13 => b - (b % 4) = 12
                          /\ r = 24 => a = 2
                          /\ r = 25 => a = 4
                          /\ r = 26 => a = 10
                          /\ r = 36 => a % 2 = 1
    BY <1>4, RowBits
  <2>2. /\ j \in {1, 2, 3, 4, 5, 6, 11, 12, 13, 24, 25, 26, 36}
        /\ k \in {1, 2, 3, 4, 5, 6, 11, 12, 13, 24, 25, 26, 36}
    BY <1>1, <1>2, <1>6 DEF LineOf
  <2>3. j = k \/ j \in {1, 2, 3, 4, 5, 6}
    BY <1>4, <2>1, <2>2
  <2> QED BY <2>3, ClassLines
<1>7. CASE LineOf(j) = 5
  <2>1. \A r \in {j, k} : (r = 51 => a % 2 = 0) /\ (r = 52 => a % 2 = 1)
    BY <1>4, RowBits
  <2>2. j \in {45, 51, 52} /\ k \in {45, 51, 52}
    BY <1>1, <1>2, <1>7 DEF LineOf
  <2>3. j = k \/ (j = 45 /\ k \in {51, 52})
    BY <1>4, <2>1, <2>2
  <2> QED BY <2>3, ClassLines DEF Overlaps
<1>8. CASE LineOf(j) = 11
  <2>1. \A r \in {j, k} : (r = 54 => a % 2 = 1) /\ (r = 55 => a % 2 = 0)
    BY <1>4, RowBits
  <2>2. j \in {29, 54, 55} /\ k \in {29, 54, 55}
    BY <1>1, <1>2, <1>8 DEF LineOf
  <2>3. j = k \/ j = 29
    BY <1>4, <2>1, <2>2
  <2> QED BY <2>3, ClassLines
<1>9. CASE LineOf(j) \in {1, 2, 3, 14}
  <2>1. \/ j = k
        \/ j \in {34, 35, 56, 57} /\ k \in {34, 35, 56, 57}
        \/ j \in {14, 15, 16, 17, 47, 48, 49, 50} /\ k \in {14, 15, 16, 17, 47, 48, 49, 50}
    BY <1>1, <1>2, <1>9 DEF LineOf
  <2> QED BY <2>1, ClassLines
<1>10. CASE LineOf(j) \in {6, 7, 8, 9, 12, 13}
  <2>1. \/ j = k
        \/ j \in {27, 28, 59, 53, 37, 38, 39, 40, 41, 43}
        \/ j = 46 /\ k = 61
        \/ j = 44 /\ k = 62
    BY <1>1, <1>2, <1>10 DEF LineOf
  <2> QED BY <2>1, ClassLines DEF Overlaps
<1>11. LineOf(j) \in {0, 1, 2, 3, 4, 5, 6, 7, 8, 9, 11, 12, 13, 14}
  BY <1>1 DEF LineOf
<1> QED BY <1>5, <1>6, <1>7, <1>8, <1>9, <1>10, <1>11

(* A constructor that never clears is_valid.                               *)
LEMMA AlwaysValidMade ==
  ASSUME NEW op, NEW class \in AlwaysValid
  PROVE  Create(class, op).is_valid
  BY DEF Create, AlwaysValid, IllegalCreate, NopCreate, RtsCreate, LinkCreate, UnlkCreate,
     ExtCreate, BccCreate, MulCreate, DivCreate, AddaCreate, SubaCreate, CmpaCreate,
     MoveqCreate, Made, WithKind, WithImm, Frame, MulDiv, ToAddress

(* A size of 3 is what makes addx and subx invalid, and add and sub too.   *)
LEMMA ExtendedOverlap ==
  ASSUME NEW op, NEW pair \in {<<"Addx", "Add">>, <<"Subx", "Sub">>},
         ~Create(pair[1], op).is_valid
  PROVE  ~Create(pair[2], op).is_valid
<1>1. \A class : Extended(class, op).is_valid = SizeValid(op)
  BY DEF Extended, Made
<1>2. ~SizeValid(op) => \A class : ~DataAndEa(class, op).is_valid
  BY DEF DataAndEa, Made
<1>3. /\ Create("Addx", op) = Extended("Addx", op) /\ Create("Subx", op) = Extended("Subx", op)
      /\ Create("Add", op) = DataAndEa("Add", op) /\ Create("Sub", op) = DataAndEa("Sub", op)
  BY DEF Create, AddxCreate, SubxCreate, AddCreate, SubCreate
<1>4. CASE pair = <<"Addx", "Add">>
  BY <1>1, <1>2, <1>3, <1>4
<1>5. CASE pair = <<"Subx", "Sub">>
  BY <1>1, <1>2, <1>3, <1>5
<1> QED BY <1>4, <1>5

(* The row of scc fixes the size bits that addq and subq reject.           *)
LEMMA QuickOverlap ==
  ASSUME NEW op \in Nat, NEW j \in Rows(op), ClassAt(j) = "Scc", NEW class \in {"Addq", "Subq"}
  PROVE  ~Create(class, op).is_valid
<1>1. j = 45
  BY RowsInTable DEF ClassAt, opcode_mask_table
<1>2. Part(op, 4, 4) \in 0 .. 15 /\ Part(op, 4, 4) - (Part(op, 4, 4) % 4) = 12
  BY <1>1, RowBits, RowFixes
<1>3. Part(op, 6, 2) = 3
  BY <1>2 DEF Part
<1>4. ~Quick(class, op).is_valid
  BY <1>3 DEF Quick, AlterEa, Made, WithImm, SizeValid
<1> QED BY <1>4 DEF Create, AddqCreate, SubqCreate

(***************************************************************************)
(* The first match ends the search whatever it makes: for every opcode     *)
(* whose first row is rejected by its constructor, the constructors of the *)
(* other rows that match reject it too.                                    *)
(***************************************************************************)
THEOREM NothingShadowed == Spec => []NoShadowedEncoding
<1>1. LoopInv => NoShadowedEncoding
  <2> SUFFICES ASSUME LoopInv, Rows(opcode) # {},
                      ~CandidateOf(First(Rows(opcode)), opcode).is_valid, NEW k \in Rows(opcode)
               PROVE  ~CandidateOf(k, opcode).is_valid
    BY DEF NoShadowedEncoding
  <2> DEFINE j == First(Rows(opcode))
  <2>1. opcode \in Nat
    BY OpcodeAssumption DEF LoopInv
  <2>2. j \in Rows(opcode) /\ j <= k
    BY <2>1, RowsInTable, FirstIn
  <2> HIDE DEF j
  <2>3. ~Create(ClassAt(j), opcode).is_valid
    BY DEF j, ClassAt, CandidateOf
  <2>4. \/ ClassAt(j) = ClassAt(k)
        \/ ClassAt(j) \in AlwaysValid
        \/ <<ClassAt(j), ClassAt(k)>> \in Overlaps
    BY <2>1, <2>2, RowPairs
  <2>5. ClassAt(j) \notin AlwaysValid
    BY <2>3, AlwaysValidMade
  <2>6. ~Create(ClassAt(k), opcode).is_valid
    <3>1. CASE <<ClassAt(j), ClassAt(k)>> \in {<<"Addx", "Add">>, <<"Subx", "Sub">>}
      BY <2>3, <3>1, ExtendedOverlap
    <3>2. CASE ClassAt(j) = "Scc" /\ ClassAt(k) \in {"Addq", "Subq"}
      BY <2>1, <2>2, <3>2, QuickOverlap
    <3> QED BY <2>3, <2>4, <2>5, <3>1, <3>2 DEF Overlaps
  <2> QED BY <2>6 DEF ClassAt, CandidateOf
<1> QED BY <1>1, LoopInit, LoopStep, PTL DEF Spec
=============================================================================
