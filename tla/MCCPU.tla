------------------------------- MODULE MCCPU -------------------------------
(***************************************************************************)
(* Instances of CPU for TLC: bytes of three bits, a small memory, and boot *)
(* sets that put every opcode of a table in front of chosen operands.      *)
(***************************************************************************)
EXTENDS CPU, MCBase

ArithSeq ==
  << Op2("Add", 1, D0, IncSP), Op2("Add", 2, Inc, D1), Op2("Add", 4, D1, Disp),
     Op2("Sub", 1, D0, DecSP), Op2("Sub", 2, AbsW, D1), Op2("Sub", 4, D1, Dec),
     Op2("Addi", 1, D0, AbsW), Op2("Addi", 4, D0, D1), Op2("Subi", 2, D0, Idx),
     Op1("Addq", 1, DecSP), Op1("Addq", 4, A0), Op1("Addq", 2, AbsL),
     Op1("Subq", 1, Idx), Op1("Subq", 2, A7), Op1("Subq", 4, IncSP),
     Op2("Addx", 1, Dec, Dec), Op2("Subx", 1, D0, D1), Op2("Addx", 1, DecSP, Dec),
     Op2("Subx", 2, DecSP, DecSP), Op2("Adda", 4, IncSP, A7), Op2("Suba", 4, PcIdx, A0),
     Op2("Suba", 2, Imm, A7), Op1("Neg", 1, Inc),
     Op2("Cmp", 1, IncSP, D0), Op2("Cmp", 4, PcDisp, D0), Op2("Cmpa", 2, AbsL, A0),
     Op2("Cmpi", 1, D0, DecSP), Op2("Cmpi", 4, D0, Disp) >>

DataSeq ==
  << Op2("And", 1, D0, IncSP), Op2("And", 4, Idx, D1), Op2("Or", 2, D0, Ind),
     Op2("Eor", 4, D1, Dec), Op2("Eor", 1, D0, AbsL),
     Op2("Andi", 2, D0, AbsW), Op2("Ori", 1, D0, DecSP), Op2("Eori", 4, D0, Ind),
     I("BitManip", 1, Imm, IncSP, 2, 0, FALSE),
     I("BitManip", 1, D0, Disp, 3, 0, FALSE), I("BitManip", 1, D0, Dec, 0, 0, FALSE),
     Op1("Clr", 1, DecSP), Op1("Clr", 4, AbsW), Op2("Move", 1, IncSP, Dec),
     Op2("Move", 4, Inc, DecSP), Op2("Move", 2, AbsW, Disp), Op2("Move", 2, D0, A7),
     Op2("Move", 4, PcDisp, AbsL), Op2("Move", 1, Imm, Idx), Op1("Moveq", 4, D0),
     Op1("Ext", 2, D0), Op1("Ext", 4, D1), I("Mul", 2, Inc, D0, 0, 0, FALSE),
     I("Mul", 2, D0, D1, 1, 0, FALSE), I("Div", 2, Ind, D1, 0, 0, FALSE),
     I("Div", 2, D0, D1, 1, 0, FALSE), Op2("Tst", 1, IncSP, D0),
     Op2("Tst", 4, Dec, D0), Op2("Tst", 2, <<UNKNOWN, 13>>, D0),
     I("BitShift", 1, D0, D1, 0, 0, FALSE), I("BitShift", 2, D0, D1, 1, 0, TRUE),
     I("BitShift", 2, Imm, Inc, 2, 1, TRUE), I("BitShift", 4, D0, D1, 2, 0, FALSE),
     I("BitShift", 1, D0, D1, 3, 0, TRUE),
     I("BitShift", 4, D0, D1, 1, 0, FALSE) >>

FlowSeq ==
  << Op1("Jmp", 4, Disp), Op1("Jmp", 4, AbsW), Op1("Jsr", 4, Ind), Op1("Jsr", 4, AbsL),
     Op1("Jsr", 4, PcIdx), Op1("Rts", 4, D0), I("Bcc", 1, D0, D0, 0, 2, FALSE),
     I("Bcc", 1, D0, D0, 1, 4, FALSE), I("Bcc", 2, D0, D0, 7, 0, FALSE),
     I("Bcc", 2, D0, D0, 1, 0, FALSE), I("Bcc", 4, D0, D0, 14, 7, FALSE),
     I("Scc", 1, D0, DecSP, 5, 0, FALSE), I("Scc", 1, D0, AbsW, 13, 0, FALSE),
     Op2("Lea", 4, Disp, A0), Op2("Lea", 4, PcIdx, A7), Op2("Pea", 4, AbsL, D0),
     Op2("Pea", 4, Idx, D0), Op2("Link", 2, D0, A0), Op2("Link", 2, D0, A7),
     Op2("Unlk", 4, D0, A0), Op2("Unlk", 4, D0, A7), Op1("Nop", 2, D0),
     Op2("Move", 4, IncSP, D1) >>

OperandSeq == ArithSeq \o DataSeq

OperandTable == TableOf(OperandSeq)
FlowTable == TableOf(FlowSeq)

(* One instruction at address 0, its extension words e, some data.         *)
BootWith(seq, E, D, sp) ==
  { MachineOf(<<op, e[1], e[2], 44, 63, 8>>, d0, a0, sp, x) :
      op \in DOMAIN seq, e \in E, d0 \in D, a0 \in {6, 9}, x \in BOOLEAN }

Extensions == {<<10, 8>>, <<0, 14>>, <<63, 40>>}

OperandBoot == BootWith(OperandSeq, Extensions, {0, 4093, 36}, 10)
               \cup BootWith(OperandSeq, {<<13, 3>>}, {36}, 14)
FlowBoot == BootWith(FlowSeq, Extensions, {2}, 14)

AddressesNear == NearMemory(cpu)
=============================================================================
