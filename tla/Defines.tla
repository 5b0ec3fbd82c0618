------------------------------ MODULE Defines ------------------------------
(***************************************************************************)
(* The enumerations of include/defines.hpp and include/registers.hpp, the  *)
(* mode predicates of include/helpers.hpp and the members of a decoded     *)
(* instruction.  Nothing here depends on the width of a byte.              *)
(***************************************************************************)
EXTENDS Integers

(***************************************************************************)
(* enum DataSize: the values are the numbers of bytes, as in the code.     *)
(***************************************************************************)
SIZE_BYTE == 1
SIZE_WORD == 2
SIZE_LONG == 4
DataSize == {SIZE_BYTE, SIZE_WORD, SIZE_LONG}

(***************************************************************************)
(* enum AddressingMode.                                                    *)
(***************************************************************************)
DIRECT_DATA == "direct_data"
DIRECT_ADDR == "direct_addr"
INDIRECT == "indirect"
POSTINCREMENT == "indirect_postincrement"
PREDECREMENT == "indirect_predecrement"
DISPLACEMENT == "indirect_displacement"
INDEX == "indirect_index"
PC_DISPLACEMENT == "pc_displacement"
PC_INDEX == "pc_index"
ABS_WORD == "abs_word"
ABS_LONG == "abs_long"
IMMEDIATE == "immediate"
UNKNOWN == "unknown"

AddressingMode ==
  { DIRECT_DATA, DIRECT_ADDR, INDIRECT, POSTINCREMENT, PREDECREMENT,
    DISPLACEMENT, INDEX, PC_DISPLACEMENT, PC_INDEX, ABS_WORD, ABS_LONG,
    IMMEDIATE, UNKNOWN }

IS_MEMORY_ALTERABLE(mode) ==
  mode \notin {UNKNOWN, PC_DISPLACEMENT, PC_INDEX, IMMEDIATE}

IS_DATA_ALTERABLE(mode) ==
  mode \notin {UNKNOWN, DIRECT_ADDR, PC_DISPLACEMENT, PC_INDEX, IMMEDIATE}

IS_CONTROL_ADDR(mode) ==
  mode \notin {UNKNOWN, DIRECT_DATA, DIRECT_ADDR, POSTINCREMENT,
               PREDECREMENT, IMMEDIATE}

(***************************************************************************)
(* enum RegisterType: the registers an instruction can name.               *)
(***************************************************************************)
REG_D0 == 0
REG_A0 == 8
REG_A7 == 15          \* = REG_USP
REG_USP == 15
REG_SSP == 16
REG_PC == 17

DataReg == 0 .. 7
AddrReg == 8 .. 15
-----------------------------------------------------------------------------
Classes ==
  { "Add", "Adda", "Addi", "Addq", "Addx", "And", "Andi", "Bcc", "BitManip",
    "BitShift", "Clr", "Cmp", "Cmpa", "Cmpi", "Div", "Eor", "Eori", "Ext",
    "Illegal", "Jmp", "Jsr", "Lea", "Link", "Move", "Moveq", "Mul", "Neg",
    "Nop", "Or", "Ori", "Pea", "Rts", "Scc", "Sub", "Suba", "Subi", "Subq",
    "Subx", "Tst", "Unlk" }

(***************************************************************************)
(* A decoded instruction: the members the constructors fill in.  kind is   *)
(* the condition, the bit or shift type or is_signed; imm the immediate in *)
(* the opcode word; left the direction of a shift.                         *)
(***************************************************************************)
InstructionRecord(Imm) ==
  [ class : Classes, data_size : DataSize, kind : 0 .. 15, imm : Imm,
    src_mode : AddressingMode, src_reg : 0 .. 15,
    dest_mode : AddressingMode, dest_reg : 0 .. 15, left : BOOLEAN ]

(* getRegisterType gives an address register to every mode but the first.  *)
EAFormed(mode, r) ==
  /\ mode = DIRECT_DATA => r \in DataReg
  /\ mode \in {DIRECT_ADDR, INDIRECT, POSTINCREMENT, PREDECREMENT,
               DISPLACEMENT, INDEX} => r \in AddrReg

ReadModifyWrite ==
  { "Add", "Addi", "Addq", "Addx", "Adda", "And", "Andi", "BitManip", "Eor",
    "Eori", "Neg", "Or", "Ori", "Sub", "Suba", "Subi", "Subq", "Subx" }

(* What every constructor that leaves is_valid set promises to execute().  *)
WellFormed(i) ==
  /\ EAFormed(i.src_mode, i.src_reg)
  /\ EAFormed(i.dest_mode, i.dest_reg)
  /\ i.class \in ReadModifyWrite \cup {"Clr", "Cmpi", "Move", "BitShift"} =>
       IS_MEMORY_ALTERABLE(i.dest_mode)
  /\ i.class \in {"BitManip", "Scc"} => IS_DATA_ALTERABLE(i.dest_mode)
  /\ i.class \in {"Jmp", "Jsr"} => IS_CONTROL_ADDR(i.dest_mode)
  /\ i.class \in {"Lea", "Pea"} => IS_CONTROL_ADDR(i.src_mode)
  /\ i.class \in {"Lea", "Link", "Unlk"} => i.dest_reg \in AddrReg
  /\ i.class \in {"Mul", "Div", "Ext", "Moveq"} =>
       i.dest_mode = DIRECT_DATA /\ i.dest_reg \in DataReg
  /\ i.class = "Move" => /\ i.src_mode # UNKNOWN
                         /\ i.dest_mode = DIRECT_ADDR => i.data_size # SIZE_BYTE
  /\ i.class = "BitShift" => i.imm <= 8

InstructionsWith(Imm) == {i \in InstructionRecord(Imm) : WellFormed(i)}
=============================================================================
