------------------------------ MODULE Decoder ------------------------------
(***************************************************************************)
(* InstructionDecoder (src/instruction_decoder.cpp): generateOpcodeTable() *)
(* walks over all 16-bit opcodes, takes the first row of the mask table    *)
(* that matches, runs that row's constructor and pushes the instruction it *)
(* makes, or an Illegal one when the constructor cleared is_valid.         *)
(*                                                                         *)
(* Opcodes, masks and rows are the real ones.                              *)
(***************************************************************************)
EXTENDS Defines, Sequences

CONSTANTS
  FirstOpcode,   \* the loop starts here (0 in the code)
  LastOpcode     \* and ends here (0xffff)

ASSUME OpcodeAssumption ==
  FirstOpcode \in Nat /\ LastOpcode \in FirstOpcode .. 65535

(* (opcode >> lo) & (2^width - 1)                                          *)
Part(opcode, lo, width) == (opcode \div 2 ^ lo) % 2 ^ width

getAddressingMode(part_mode, part_reg) ==
  IF part_mode < 7
  THEN << DIRECT_DATA, DIRECT_ADDR, INDIRECT, POSTINCREMENT, PREDECREMENT,
          DISPLACEMENT, INDEX >>[part_mode + 1]
  ELSE << ABS_WORD, ABS_LONG, PC_DISPLACEMENT, PC_INDEX, IMMEDIATE, UNKNOWN,
          UNKNOWN, UNKNOWN >>[part_reg + 1]

(* Faulty variant of getRegisterType: mode 1 names a data register.        *)
getRegisterTypeOffByOne(part_mode, part_reg) ==
  IF part_mode <= 1 THEN part_reg ELSE part_reg + 8

getRegisterType(part_mode, part_reg) ==
  IF part_mode = 0 THEN part_reg ELSE part_reg + 8

getCondition(cond_part) == cond_part % 16

(***************************************************************************)
(* Operands, as <<mode, register>>, and the two ways to encode a size.     *)
(***************************************************************************)
Ea(mode, reg) == <<getAddressingMode(mode, reg), getRegisterType(mode, reg)>>
EaPart(opcode) == Ea(Part(opcode, 3, 3), Part(opcode, 0, 3))
DataPart(opcode) == <<DIRECT_DATA, Part(opcode, 9, 3)>>
AddrPart(opcode) == <<DIRECT_ADDR, Part(opcode, 9, 3) + 8>>
NoOperand == <<DIRECT_DATA, REG_D0>>

SizePart(opcode) == <<SIZE_BYTE, SIZE_WORD, SIZE_LONG, SIZE_WORD>>[Part(opcode, 6, 2) + 1]
SizeValid(opcode) == Part(opcode, 6, 2) # 3
WordOrLong(bit) == IF bit = 0 THEN SIZE_WORD ELSE SIZE_LONG

(* What a constructor leaves: the instruction and its is_valid.            *)
Made(class, opcode, size, src, dest, valid) ==
  [ opcode |-> opcode, is_valid |-> valid,
    ins |-> [ class |-> class, data_size |-> size, kind |-> 0, imm |-> 0,
              src_mode |-> src[1], src_reg |-> src[2],
              dest_mode |-> dest[1], dest_reg |-> dest[2], left |-> FALSE ] ]

WithKind(made, kind) == [made EXCEPT !.ins.kind = kind]
WithImm(made, imm) == [made EXCEPT !.ins.imm = imm]

(***************************************************************************)
(* The constructors.  Five shapes are shared by several of them.           *)
(***************************************************************************)
DataAndEa(class, opcode) ==      \* bit 8: Dn op <ea> -> <ea>, else <ea> op Dn -> Dn
  IF Part(opcode, 8, 1) = 1
  THEN Made(class, opcode, SizePart(opcode), DataPart(opcode), EaPart(opcode),
            SizeValid(opcode) /\ IS_MEMORY_ALTERABLE(EaPart(opcode)[1]))
  ELSE Made(class, opcode, SizePart(opcode), EaPart(opcode), DataPart(opcode),
            SizeValid(opcode))

AlterEa(class, opcode) ==        \* one alterable operand
  Made(class, opcode, SizePart(opcode), NoOperand, EaPart(opcode),
       SizeValid(opcode) /\ IS_MEMORY_ALTERABLE(EaPart(opcode)[1]))

Quick(class, opcode) ==          \* the same with 1 .. 8 in the opcode
  LET n == Part(opcode, 9, 3) IN WithImm(AlterEa(class, opcode), IF n = 0 THEN 8 ELSE n)

ToAddress(class, opcode) ==      \* <ea> op An -> An
  Made(class, opcode, WordOrLong(Part(opcode, 8, 1)), EaPart(opcode),
       AddrPart(opcode), TRUE)

(* Faulty variant of Extended: the memory form is rejected.                *)
ExtendedRegistersOnly(class, opcode) ==
  Made(class, opcode, SizePart(opcode), <<DIRECT_DATA, Part(opcode, 0, 3)>>,
       <<DIRECT_DATA, Part(opcode, 9, 3)>>,
       SizeValid(opcode) /\ Part(opcode, 3, 1) = 0)

Extended(class, opcode) ==       \* Dy op Dx, or -(Ay) op -(Ax)
  LET bit  == Part(opcode, 3, 1)
      x(r) == << IF bit = 0 THEN DIRECT_DATA ELSE PREDECREMENT, getRegisterType(bit, r) >>
  IN  Made(class, opcode, SizePart(opcode), x(Part(opcode, 0, 3)),
           x(Part(opcode, 9, 3)), SizeValid(opcode))

MulDiv(class, opcode) ==         \* <ea> op Dn -> Dn, bit 8 is is_signed
  WithKind(Made(class, opcode, SIZE_WORD, EaPart(opcode), DataPart(opcode), TRUE),
           Part(opcode, 8, 1))

Control(class, opcode) ==        \* jump to an address
  Made(class, opcode, SIZE_LONG, NoOperand, EaPart(opcode),
       IS_CONTROL_ADDR(EaPart(opcode)[1]))

Frame(class, opcode) ==          \* an address register in bits 0 .. 2
  Made(class, opcode, SIZE_WORD, NoOperand,
       <<DIRECT_ADDR, getRegisterType(1, Part(opcode, 0, 3))>>, TRUE)
-----------------------------------------------------------------------------
AddCreate(opcode) == DataAndEa("Add", opcode)
SubCreate(opcode) == DataAndEa("Sub", opcode)
AndCreate(opcode) == DataAndEa("And", opcode)
OrCreate(opcode) == DataAndEa("Or", opcode)

(* Without bit 8 the operands stay unset, and the instruction is invalid.  *)
EorCreate(opcode) ==
  LET made == DataAndEa("Eor", opcode)
  IN  [made EXCEPT !.is_valid = @ /\ Part(opcode, 8, 1) = 1]

AddiCreate(opcode) == AlterEa("Addi", opcode)
SubiCreate(opcode) == AlterEa("Subi", opcode)
AndiCreate(opcode) == AlterEa("Andi", opcode)
OriCreate(opcode) == AlterEa("Ori", opcode)
EoriCreate(opcode) == AlterEa("Eori", opcode)
CmpiCreate(opcode) == AlterEa("Cmpi", opcode)
ClrCreate(opcode) == AlterEa("Clr", opcode)
NegCreate(opcode) == AlterEa("Neg", opcode)
AddqCreate(opcode) == Quick("Addq", opcode)
SubqCreate(opcode) == Quick("Subq", opcode)
AddaCreate(opcode) == ToAddress("Adda", opcode)
SubaCreate(opcode) == ToAddress("Suba", opcode)
CmpaCreate(opcode) == ToAddress("Cmpa", opcode)
AddxCreate(opcode) == Extended("Addx", opcode)
SubxCreate(opcode) == Extended("Subx", opcode)
MulCreate(opcode) == MulDiv("Mul", opcode)
DivCreate(opcode) == MulDiv("Div", opcode)
JmpCreate(opcode) == Control("Jmp", opcode)
JsrCreate(opcode) == Control("Jsr", opcode)
LinkCreate(opcode) == Frame("Link", opcode)
UnlkCreate(opcode) == Frame("Unlk", opcode)

(* The source operand is not checked.                                      *)
CmpCreate(opcode) ==
  Made("Cmp", opcode, SizePart(opcode), EaPart(opcode), DataPart(opcode), SizeValid(opcode))

TstCreate(opcode) ==
  Made("Tst", opcode, SizePart(opcode), EaPart(opcode), NoOperand, SizeValid(opcode))

ExtCreate(opcode) ==
  Made("Ext", opcode, WordOrLong(Part(opcode, 6, 1)), NoOperand,
       <<DIRECT_DATA, Part(opcode, 0, 3)>>, TRUE)

MoveqCreate(opcode) ==
  WithImm(Made("Moveq", opcode, SIZE_LONG, NoOperand, DataPart(opcode), TRUE),
          Part(opcode, 0, 8))

LeaCreate(opcode) ==
  Made("Lea", opcode, SIZE_LONG, EaPart(opcode), AddrPart(opcode),
       IS_CONTROL_ADDR(EaPart(opcode)[1]))

PeaCreate(opcode) ==
  Made("Pea", opcode, SIZE_LONG, EaPart(opcode), NoOperand,
       IS_CONTROL_ADDR(EaPart(opcode)[1]))

(* Destination mode and register are swapped in the opcode.                *)
MoveCreate(opcode) ==
  LET dest == Ea(Part(opcode, 6, 3), Part(opcode, 9, 3))
      src  == EaPart(opcode)
      part == Part(opcode, 12, 2)
      size == <<SIZE_WORD, SIZE_BYTE, SIZE_LONG, SIZE_WORD>>[part + 1]
  IN  Made("Move", opcode, size, src, dest,
           /\ src[1] # UNKNOWN
           /\ IS_MEMORY_ALTERABLE(dest[1])
           /\ part # 0
           /\ ~(dest[1] = DIRECT_ADDR /\ size = SIZE_BYTE))

(* A displacement byte of 0x00 or 0xFF announces an extension.             *)
BccCreate(opcode) ==
  LET byte == Part(opcode, 0, 8)
      size == CASE byte = 0 -> SIZE_WORD [] byte = 255 -> SIZE_LONG [] OTHER -> SIZE_BYTE
  IN  WithKind(WithImm(Made("Bcc", opcode, size, NoOperand, NoOperand, TRUE), byte),
               getCondition(Part(opcode, 8, 4)))

SccCreate(opcode) ==
  WithKind(Made("Scc", opcode, SIZE_BYTE, NoOperand, EaPart(opcode),
                IS_DATA_ALTERABLE(EaPart(opcode)[1])),
           getCondition(Part(opcode, 8, 4)))

BitManipCreate(opcode) ==
  LET dest == EaPart(opcode)
      src  == << IF Part(opcode, 8, 1) = 1 THEN DIRECT_DATA ELSE IMMEDIATE, Part(opcode, 9, 3) >>
  IN  WithKind(Made("BitManip", opcode,
                    IF dest[1] = DIRECT_DATA THEN SIZE_LONG ELSE SIZE_BYTE,
                    src, dest, IS_DATA_ALTERABLE(dest[1])),
               Part(opcode, 6, 2))

(* Size 3 is the memory form.  The type is taken from bits 3 and 4 in the  *)
(* memory form and from bits 9 and 10 in the register form.                *)
BitShiftCreate(opcode) ==
  LET memory == ~SizeValid(opcode)
      imm    == Part(opcode, 5, 1) = 1
      count  == << IF memory \/ imm THEN IMMEDIATE ELSE DIRECT_DATA,
                   IF memory \/ imm THEN REG_D0 ELSE Part(opcode, 9, 3) >>
      dest   == IF memory THEN EaPart(opcode) ELSE <<DIRECT_DATA, Part(opcode, 0, 3)>>
      made   == Made("BitShift", opcode, SizePart(opcode), count, dest,
                     memory => IS_MEMORY_ALTERABLE(dest[1]))
      n      == CASE memory -> 1 [] ~memory /\ imm -> Part(opcode, 9, 3) + 1 [] OTHER -> 0
  IN  [WithKind(WithImm(made, n), Part(opcode, IF memory THEN 3 ELSE 9, 2))
         EXCEPT !.ins.left = (Part(opcode, 8, 1) = 1)]

NopCreate(opcode) == Made("Nop", opcode, SIZE_WORD, NoOperand, NoOperand, TRUE)
RtsCreate(opcode) == Made("Rts", opcode, SIZE_WORD, NoOperand, NoOperand, TRUE)
IllegalCreate(opcode) == Made("Illegal", opcode, SIZE_WORD, NoOperand, NoOperand, TRUE)
-----------------------------------------------------------------------------
(* create_function of a row, by the class it names.                        *)
Create(class, opcode) ==
  CASE class = "Add" -> AddCreate(opcode)
    [] class = "Adda" -> AddaCreate(opcode)
    [] class = "Addi" -> AddiCreate(opcode)
    [] class = "Addq" -> AddqCreate(opcode)
    [] class = "Addx" -> AddxCreate(opcode)
    [] class = "And" -> AndCreate(opcode)
    [] class = "Andi" -> AndiCreate(opcode)
    [] class = "Bcc" -> BccCreate(opcode)
    [] class = "BitManip" -> BitManipCreate(opcode)
    [] class = "BitShift" -> BitShiftCreate(opcode)
    [] class = "Clr" -> ClrCreate(opcode)
    [] class = "Cmp" -> CmpCreate(opcode)
    [] class = "Cmpa" -> CmpaCreate(opcode)
    [] class = "Cmpi" -> CmpiCreate(opcode)
    [] class = "Div" -> DivCreate(opcode)
    [] class = "Eor" -> EorCreate(opcode)
    [] class = "Eori" -> EoriCreate(opcode)
    [] class = "Ext" -> ExtCreate(opcode)
    [] class = "Illegal" -> IllegalCreate(opcode)
    [] class = "Jmp" -> JmpCreate(opcode)
    [] class = "Jsr" -> JsrCreate(opcode)
    [] class = "Lea" -> LeaCreate(opcode)
    [] class = "Link" -> LinkCreate(opcode)
    [] class = "Move" -> MoveCreate(opcode)
    [] class = "Moveq" -> MoveqCreate(opcode)
    [] class = "Mul" -> MulCreate(opcode)
    [] class = "Neg" -> NegCreate(opcode)
    [] class = "Nop" -> NopCreate(opcode)
    [] class = "Or" -> OrCreate(opcode)
    [] class = "Ori" -> OriCreate(opcode)
    [] class = "Pea" -> PeaCreate(opcode)
    [] class = "Rts" -> RtsCreate(opcode)
    [] class = "Scc" -> SccCreate(opcode)
    [] class = "Sub" -> SubCreate(opcode)
    [] class = "Suba" -> SubaCreate(opcode)
    [] class = "Subi" -> SubiCreate(opcode)
    [] class = "Subq" -> SubqCreate(opcode)
    [] class = "Subx" -> SubxCreate(opcode)
    [] class = "Tst" -> TstCreate(opcode)
    [] class = "Unlk" -> UnlkCreate(opcode)

(***************************************************************************)
(* opcode_mask_table: mask, value, class, and the name in the row comment. *)
(***************************************************************************)
opcode_mask_table ==
  << <<\hFFFF, \h4AFC, "Illegal", "Illegal">>,
     <<\hFFFF, \h4E71, "Nop", "Nop">>,
     <<\hFFFF, \h4E75, "Rts", "Rts">>,
     <<\hFFF8, \h4E50, "Link", "Link">>,
     <<\hFFF8, \h4E58, "Unlk", "Unlk">>,
     <<\hFFB8, \h4880, "Ext", "Ext">>,
     <<\hFFC0, \h0800, "BitManip", "Btst">>,
     <<\hFFC0, \h0840, "BitManip", "Bchg">>,
     <<\hFFC0, \h0880, "BitManip", "Bclr">>,
     <<\hFFC0, \h08C0, "BitManip", "Bset">>,
     <<\hFFC0, \h4840, "Pea", "Pea">>,
     <<\hFFC0, \h4E80, "Jsr", "Jsr">>,
     <<\hFFC0, \h4EC0, "Jmp", "Jmp">>,
     <<\hFEC0, \hE0C0, "BitShift", "Asd">>,
     <<\hFEC0, \hE2C0, "BitShift", "Lsd">>,
     <<\hFEC0, \hE4C0, "BitShift", "Roxd">>,
     <<\hFEC0, \hE6C0, "BitShift", "Rod">>,
     <<\hFF00, \h0000, "Ori", "Ori">>,
     <<\hFF00, \h0200, "Andi", "Andi">>,
     <<\hFF00, \h0400, "Subi", "Subi">>,
     <<\hFF00, \h0600, "Addi", "Addi">>,
     <<\hFF00, \h0A00, "Eori", "Eori">>,
     <<\hFF00, \h0C00, "Cmpi", "Cmpi">>,
     <<\hFF00, \h4200, "Clr", "Clr">>,
     <<\hFF00, \h4400, "Neg", "Neg">>,
     <<\hFF00, \h4A00, "Tst", "Tst">>,
     <<\hFF00, \h6000, "Bcc", "Bra">>,
     <<\hFF00, \h6100, "Bcc", "Bsr">>,
     <<\hF0C0, \hB0C0, "Cmpa", "Cmpa">>,
     <<\hF1C0, \h0100, "BitManip", "Btst">>,
     <<\hF1C0, \h0140, "BitManip", "Bchg">>,
     <<\hF1C0, \h0180, "BitManip", "Bclr">>,
     <<\hF1C0, \h01C0, "BitManip", "Bset">>,
     <<\hF1C0, \h3040, "Move", "Moveaw">>,
     <<\hF1C0, \h2040, "Move", "Moveal">>,
     <<\hF1C0, \h41C0, "Lea", "Lea">>,
     <<\hF1C0, \h80C0, "Div", "Divu">>,
     <<\hF1C0, \h81C0, "Div", "Divs">>,
     <<\hF0C0, \h90C0, "Suba", "Suba">>,
     <<\hF1C0, \hC0C0, "Mul", "Mulu">>,
     <<\hF1C0, \hC1C0, "Mul", "Muls">>,
     <<\hF000, \hC000, "And", "And">>,
     <<\hF0C0, \hD0C0, "Adda", "Adda">>,
     <<\hF130, \hD100, "Addx", "Addx">>,
     <<\hF0C0, \h50C0, "Scc", "Scc">>,
     <<\hF130, \h9100, "Subx", "Subx">>,
     <<\hF018, \hE000, "BitShift", "Asd">>,
     <<\hF018, \hE008, "BitShift", "Lsd">>,
     <<\hF018, \hE010, "BitShift", "Roxd">>,
     <<\hF018, \hE018, "BitShift", "Rod">>,
     <<\hF100, \h5000, "Addq", "Addq">>,
     <<\hF100, \h5100, "Subq", "Subq">>,
     <<\hF100, \h7000, "Moveq", "Moveq">>,
     <<\hF100, \hB100, "Eor", "Eor">>,
     <<\hF100, \hB000, "Cmp", "Cmp">>,
     <<\hF000, \h3000, "Move", "Movew">>,
     <<\hF000, \h2000, "Move", "Movel">>,
     <<\hF000, \h1000, "Move", "Moveb">>,
     <<\hF000, \h6000, "Bcc", "Bcc">>,
     <<\hF000, \h8000, "Or", "Or">>,
     <<\hF000, \h9000, "Sub", "Sub">>,
     <<\hF000, \hD000, "Add", "Add">> >>

(* Bitwise and of two nibbles, tabulated.                                  *)
AndNibble ==
  LET bit(v, k) == Part(v, k, 1)
  IN  [a \in 0 .. 15 |-> [b \in 0 .. 15 |->
         bit(a, 0) * bit(b, 0) + 2 * bit(a, 1) * bit(b, 1)
           + 4 * bit(a, 2) * bit(b, 2) + 8 * bit(a, 3) * bit(b, 3)]]

(* (opcode & mask) == value, on one nibble.                                *)
NibbleMatches(opcode, row, lo) ==
  AndNibble[Part(opcode, lo, 4)][Part(row[1], lo, 4)] = Part(row[2], lo, 4)

(* The rows by the top nibble of the opcodes they match.                   *)
Line ==
  [h \in 0 .. 15 |-> {k \in DOMAIN opcode_mask_table :
                        NibbleMatches(h * 4096, opcode_mask_table[k], 12)}]

(* The rows that match.                                                    *)
Rows(opcode) ==
  {k \in Line[Part(opcode, 12, 4)] :
     \A lo \in {0, 4, 8} : NibbleMatches(opcode, opcode_mask_table[k], lo)}

CandidateOf(k, opcode) == Create(opcode_mask_table[k][3], opcode)

First(S) == CHOOSE k \in S : \A j \in S : k <= j

(* The inner loop: the first matching row ends it, whatever it makes.      *)
Candidate(opcode) ==
  LET S == Rows(opcode)
  IN  IF S = {} THEN {} ELSE {c \in {CandidateOf(First(S), opcode)} : c.is_valid}
-----------------------------------------------------------------------------
VARIABLES
  opcode,        \* the loop variable, a uint32_t
  instruction,   \* the local unique_ptr: a set of at most one instruction
  pushed         \* opcode_table.back(), as a set of at most one instruction

vars == <<opcode, instruction, pushed>>

Init ==
  /\ opcode = FirstOpcode
  /\ instruction = {}
  /\ pushed = {}

(* The control of the outer for loop; a uint32_t does not wrap here.       *)
LoopTest == opcode <= LastOpcode

(* Faulty variant of Advance: the loop variable is a uint16_t.             *)
AdvanceShort == LoopTest /\ opcode' = (opcode + 1) % 65536

Advance == LoopTest /\ opcode' = opcode + 1

(* Faulty variant of AfterMove: the pointer is copied, not moved.          *)
AfterCopy(ins) == ins

(* push_back(std::move(instruction)) leaves the local empty.               *)
AfterMove(ins) == {}

(* One pass of the outer loop.  A candidate that is valid replaces what    *)
(* the local holds; what is then still missing becomes Illegal.            *)
Entry(op) ==
  LET held == Candidate(op) \cup {i \in instruction : Candidate(op) = {}}
  IN  IF held = {} THEN {IllegalCreate(op)} ELSE held

Iterate ==
  /\ Advance
  /\ \E entry \in {Entry(opcode)} : pushed' = entry /\ instruction' = AfterMove(entry)

Return == ~LoopTest /\ UNCHANGED vars

Next == Iterate \/ Return

(* The constructor of InstructionDecoder runs the loop on one thread and   *)
(* does nothing else: the loop is not preempted for ever.  (Advance holds  *)
(* of exactly the Iterate steps.)                                          *)
Spec == Init /\ [][Next]_vars /\ WF_opcode(Advance)
-----------------------------------------------------------------------------
(***************************************************************************)
(* Every entry of the table is a valid instruction that keeps the promises *)
(* execute() relies on: the assumption OpcodeTable of module CPU, for the  *)
(* real opcodes and an eight-bit byte.                                     *)
(***************************************************************************)
EntriesWellFormed ==
  \A e \in pushed : e.is_valid /\ e.ins \in InstructionsWith(0 .. 255)

(***************************************************************************)
(* The entry pushed for an opcode was made for that opcode: no valid       *)
(* candidate of an earlier pass is left over in the local when the row of  *)
(* a later opcode is missing or not valid.                                 *)
(***************************************************************************)
EntryIsForItsOpcode ==
  opcode > FirstOpcode => \E e \in pushed : e.opcode = opcode - 1 /\ pushed = {e}

(***************************************************************************)
(* The first match ends the search even when it is not valid.  No opcode   *)
(* becomes Illegal that way although a later row would have decoded it.    *)
(***************************************************************************)
NoShadowedEncoding ==
  LET S == Rows(opcode)
  IN  (opcode <= LastOpcode /\ S # {} /\ ~CandidateOf(First(S), opcode).is_valid)
        => \A k \in S : ~CandidateOf(k, opcode).is_valid

(* The table is complete in the end: the constructor returns.              *)
TableCompleted == <>(opcode > LastOpcode)

(***************************************************************************)
(* The row comments name the shift: "Asd", "Lsd", "Roxd" and "Rod" are the *)
(* types AS, LS, ROX and RO of the instruction such a row decodes.         *)
(***************************************************************************)
ShiftTypeIsTheRows ==
  LET S == Rows(opcode)
      name == opcode_mask_table[First(S)][4]
      c == CandidateOf(First(S), opcode)
  IN  (opcode <= LastOpcode /\ S # {} /\ c.ins.class = "BitShift" /\ c.is_valid)
        => name = <<"Asd", "Lsd", "Roxd", "Rod">>[c.ins.kind + 1]
=============================================================================
