-------------------------------- MODULE CPU --------------------------------
(***************************************************************************)
(* The CPU (src/cpu.cpp): step() fetches the opcode word at the program    *)
(* counter, looks it up in the decoder's table and executes it.  One       *)
(* action per instruction class; a fetch that throws is an action too.     *)
(*                                                                         *)
(* The caller of step() may catch an exception and call step() again: the  *)
(* machine goes on from whatever the failed step left behind.              *)
(***************************************************************************)
EXTENDS Instructions

CONSTANTS
  OpcodeTable,   \* opcode_table: the instruction of every opcode word
  Boot           \* the machines the host starts from

ASSUME OpcodeTableAssumption == OpcodeTable \in [WordVal -> Instruction]

ASSUME BootAssumption == Boot \subseteq Machine

VARIABLE cpu     \* CPU::state, with the outcome of the last step() in exc

Init == cpu \in Boot

(* step() starts with no exception pending and reads the opcode.           *)
Fetched ==
  LET s == [cpu EXCEPT !.exc = "none"] IN MemGet(s, PC(s), SIZE_WORD)

Decode(opcode) == OpcodeTable[opcode]

Decoded == Decode(Fetched.val)

(* The process still runs.                                                 *)
Alive == cpu.exc # "fatal"

(* step() ends in the opcode fetch.                                        *)
FetchFault ==
  /\ Alive
  /\ ~Ok(Fetched.st)
  /\ cpu' = Fetched.st

Executes(class, result) ==
  /\ Alive
  /\ Ok(Fetched.st)
  /\ Decoded.class = class
  /\ cpu' = result
Add == Executes("Add", AddExecute(Fetched.st, Decoded))
Adda == Executes("Adda", AddaExecute(Fetched.st, Decoded))
Addi == Executes("Addi", AddiExecute(Fetched.st, Decoded))
Addq == Executes("Addq", AddqExecute(Fetched.st, Decoded))
Addx == Executes("Addx", AddxExecute(Fetched.st, Decoded))
And == Executes("And", AndExecute(Fetched.st, Decoded))
Andi == Executes("Andi", AndiExecute(Fetched.st, Decoded))
Bcc == Executes("Bcc", BccExecute(Fetched.st, Decoded))
BitManip == Executes("BitManip", BitManipExecute(Fetched.st, Decoded))

BitShift ==
  \E u \in Undefined :
    Executes("BitShift", BitShiftExecute(Fetched.st, Decoded, u))
Clr == Executes("Clr", ClrExecute(Fetched.st, Decoded))
Cmp == Executes("Cmp", CmpExecute(Fetched.st, Decoded))
Cmpa == Executes("Cmpa", CmpaExecute(Fetched.st, Decoded))
Cmpi == Executes("Cmpi", CmpiExecute(Fetched.st, Decoded))

Div ==
  \E u \in Undefined :
    Executes("Div", DivExecute(Fetched.st, Decoded, u))
Eor == Executes("Eor", EorExecute(Fetched.st, Decoded))
Eori == Executes("Eori", EoriExecute(Fetched.st, Decoded))
Ext == Executes("Ext", ExtExecute(Fetched.st, Decoded))
Illegal == Executes("Illegal", IllegalExecute(Fetched.st))
Jmp == Executes("Jmp", JmpExecute(Fetched.st, Decoded))
Jsr == Executes("Jsr", JsrExecute(Fetched.st, Decoded))
Lea == Executes("Lea", LeaExecute(Fetched.st, Decoded))
Link == Executes("Link", LinkExecute(Fetched.st, Decoded))
Move == Executes("Move", MoveExecute(Fetched.st, Decoded))
Moveq == Executes("Moveq", MoveqExecute(Fetched.st, Decoded))

Mul ==
  \E u \in Undefined :
    Executes("Mul", MulExecute(Fetched.st, Decoded, u))
Neg == Executes("Neg", NegExecute(Fetched.st, Decoded))
Nop == Executes("Nop", NopExecute(Fetched.st))
Or == Executes("Or", OrExecute(Fetched.st, Decoded))
Ori == Executes("Ori", OriExecute(Fetched.st, Decoded))
Pea == Executes("Pea", PeaExecute(Fetched.st, Decoded))
Rts == Executes("Rts", RtsExecute(Fetched.st))
Scc == Executes("Scc", SccExecute(Fetched.st, Decoded))
Sub == Executes("Sub", SubExecute(Fetched.st, Decoded))
Suba == Executes("Suba", SubaExecute(Fetched.st, Decoded))
Subi == Executes("Subi", SubiExecute(Fetched.st, Decoded))
Subq == Executes("Subq", SubqExecute(Fetched.st, Decoded))
Subx == Executes("Subx", SubxExecute(Fetched.st, Decoded))
Tst == Executes("Tst", TstExecute(Fetched.st, Decoded))
Unlk == Executes("Unlk", UnlkExecute(Fetched.st, Decoded))

(* The host switches between user and supervisor mode between two steps.   *)
HostMode ==
  /\ Alive
  /\ cpu' = SetSupervisor([cpu EXCEPT !.exc = "none"], ~cpu.sup)

Step ==
  \/ Add        \/ Adda       \/ Addi       \/ Addq       \/ Addx
  \/ And        \/ Andi       \/ Bcc        \/ BitManip   \/ BitShift
  \/ Clr        \/ Cmp        \/ Cmpa       \/ Cmpi       \/ Div
  \/ Eor        \/ Eori       \/ Ext        \/ Illegal    \/ Jmp
  \/ Jsr        \/ Lea        \/ Link       \/ Move       \/ Moveq
  \/ Mul        \/ Neg        \/ Nop        \/ Or         \/ Ori
  \/ Pea        \/ Rts        \/ Scc        \/ Sub        \/ Suba
  \/ Subi       \/ Subq       \/ Subx       \/ Tst        \/ Unlk
  \/ FetchFault

Next == Step \/ HostMode

Spec == Init /\ [][Next]_cpu
-----------------------------------------------------------------------------
(* The registers, the flags, the memory and the reported exception always  *)
(* hold values of their C++ types: no operand width is ever exceeded.      *)
TypeOK == cpu \in Machine

(* Nothing but pointer registers and the program counter differs.          *)
OnlyPointersMoved ==
  /\ cpu'.mem = cpu.mem
  /\ cpu'.ccr = cpu.ccr
  /\ cpu'.sup = cpu.sup
  /\ \A d \in DataReg : cpu'.reg[d] = cpu.reg[d]

(***************************************************************************)
(* A step() that throws has not yet changed memory, a data register or the *)
(* status register: in every execute() all accesses that can throw come    *)
(* before the first such write.  (Address registers, the stack pointer and *)
(* the program counter may have moved.)                                    *)
(***************************************************************************)
FailedStepIsQuiet == [][~Ok(cpu') => OnlyPointersMoved]_cpu

(* The stack pointer that is banked out stays, and a mode switch moves     *)
(* neither registers nor memory.                                           *)
BanksKept ==
  /\ cpu'.reg[BankedOut(cpu)] = cpu.reg[BankedOut(cpu)]
  /\ cpu'.sup # cpu.sup => cpu'.reg = cpu.reg /\ cpu'.mem = cpu.mem

(***************************************************************************)
(* The stack pointer that is banked out by Registers::get and set does not *)
(* change while it is banked out, and only the host changes the mode.      *)
(***************************************************************************)
StackBanksSeparate == [][BanksKept]_cpu

(***************************************************************************)
(* "stack pointer should be aligned to a word boundary" (cpu_state.cpp):   *)
(* whatever an instruction does through A7, failed steps included, an even *)
(* active stack pointer stays even, unless A7 is itself its destination.   *)
(***************************************************************************)
ActiveSP(s) == s.reg[Bank(s, REG_A7)]

LoadsA7(i) ==
  \/ i.class \in {"Link", "Unlk"}
  \/ i.dest_reg = REG_A7 /\ (i.class = "Lea" \/ i.dest_mode = DIRECT_ADDR)

StackStaysAligned ==
  [][ (cpu'.sup = cpu.sup /\ ActiveSP(cpu) % 2 = 0 /\ ~LoadsA7(Decoded))
        => ActiveSP(cpu') % 2 = 0 ]_cpu

(* The classes whose execute() resolves its source, or its destination, by *)
(* an addressing mode; the others leave that member of the record alone.   *)
SourceClasses ==
  { "Add", "Adda", "Addx", "And", "BitManip", "Cmp", "Cmpa", "Div", "Eor", "Lea",
    "Move", "Mul", "Or", "Pea", "Sub", "Suba", "Subx", "Tst" }

DestClasses ==
  ReadModifyWrite \cup { "Clr", "Cmp", "Cmpa", "Cmpi", "Div", "Ext", "Jmp", "Jsr",
                         "Move", "Moveq", "Mul", "Scc" }

(* The immediate operand, or the displacement of link or of a branch.      *)
ImmediateSize(i) ==
  CASE i.class \in {"Addi", "Andi", "Cmpi", "Eori", "Ori", "Subi"} ->
         ExtensionSize(IMMEDIATE, i.data_size)
    [] i.class = "Bcc" /\ i.data_size # SIZE_BYTE ->
         ExtensionSize(IMMEDIATE, i.data_size)
    [] i.class = "Link" -> SIZE_WORD
    [] OTHER -> 0

(***************************************************************************)
(* The bytes of an instruction: the opcode word, an immediate operand or a *)
(* displacement, and the extensions of its operands.                       *)
(***************************************************************************)
Length(i) ==
  SIZE_WORD + ImmediateSize(i)
    + (IF i.class \in SourceClasses THEN ExtensionSize(i.src_mode, i.data_size) ELSE 0)
    + (IF i.class \in DestClasses THEN ExtensionSize(i.dest_mode, i.data_size) ELSE 0)

(***************************************************************************)
(* Silent and consuming operand accesses add up: an instruction that does  *)
(* not branch and does not throw leaves the program counter right behind   *)
(* its last extension word, neither in the middle of it nor beyond.  (The  *)
(* shifts are left out: their memory form never skips its extension.)      *)
(***************************************************************************)
PcPassesInstruction ==
  [][ (/\ Ok(Fetched.st) /\ Ok(cpu') /\ cpu'.sup = cpu.sup
       /\ Decoded.class \notin {"Bcc", "Jmp", "Jsr", "Rts", "BitShift"})
        => PC(cpu') = MASK(PC(cpu) + Length(Decoded), SIZE_LONG) ]_cpu

(***************************************************************************)
(* Read-modify-write: getDataSilent computes the operand address on its    *)
(* own, before setData does.  When the silent read went through, the write *)
(* goes through too, and to the same place: reading the operand again, as  *)
(* the registers were, gives the value just stored.  (The extension words  *)
(* must still be there: an instruction may overwrite them.)                *)
(***************************************************************************)
Operand(s, i) ==
  IF i.class \in {"Addi", "Andi", "Eori", "Ori", "Subi"} THEN Immediate(s, i).st
  ELSE IF i.class \in {"Addq", "Subq", "Neg"} THEN Begin(s)
  ELSE Source(s, i).st

ReReads(s, t, i) ==
  LET n == ExtensionSize(i.dest_mode, i.data_size)
      o == IF i.dest_mode \in {DIRECT_DATA, DIRECT_ADDR} THEN t
           ELSE [t EXCEPT !.reg = s.reg]
  IN  Peek(o, n).val = Peek(s, n).val => Dest(o, i).val = MASK(Long - 1, i.data_size)

WriteBackHitsOperand ==
  (Alive /\ Ok(Fetched.st) /\ Decoded.class \in ReadModifyWrite) =>
    LET s == Operand(Fetched.st, Decoded)
        t == Store(s, Decoded, Long - 1)
    IN  Ok(Dest(s, Decoded).st) => Ok(t) /\ ReReads(s, t, Decoded)

(***************************************************************************)
(* "ext.l D1" (test/test_in_ext.cpp): the long has the value of the word,  *)
(* as a signed number.                                                     *)
(***************************************************************************)
ExtLongKeepsWord ==
  [][ (Ok(Fetched.st) /\ Decoded.class = "Ext" /\ Decoded.data_size = SIZE_LONG)
        => cpu'.reg[Decoded.dest_reg] =
             SignExtend(cpu.reg[Decoded.dest_reg], SIZE_WORD) ]_cpu
=============================================================================
