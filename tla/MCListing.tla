----------------------------- MODULE MCListing -----------------------------
(***************************************************************************)
(* Instances of Disassembly for TLC: instructions of every class, every    *)
(* addressing mode as a source and as a destination.                       *)
(***************************************************************************)
EXTENDS Disassembly, MCBase

OperandSeq ==
  << Op2("Add", 2, Disp, D1), Op2("Adda", 4, Imm, A0), Op2("Addx", 1, Dec, Dec),
     Op2("And", 4, AbsL, D1), Op2("Cmp", 1, Imm, D0), Op2("Cmpa", 2, AbsW, A0),
     I("Div", 2, PcDisp, D1, 0, 0, FALSE), Op2("Eor", 1, D0, Idx),
     I("Mul", 2, PcIdx, D0, 0, 0, FALSE), Op2("Or", 2, D0, AbsW),
     Op2("Sub", 1, D1, AbsL), Op2("Suba", 2, Inc, A0), Op2("Subx", 2, D0, D1),
     Op2("Move", 2, Disp, Disp), Op2("Move", 1, Imm, DecSP), Op2("Move", 4, Inc, Dec),
     I("BitManip", 1, Imm, Idx, 2, 0, FALSE), I("BitManip", 4, Imm, D1, 1, 0, FALSE),
     Op2("Addi", 4, D0, D1), Op2("Andi", 1, D0, AbsW), Op2("Cmpi", 2, D0, Disp),
     Op2("Eori", 2, D0, Ind), Op2("Ori", 1, D0, Idx), Op2("Subi", 1, D0, Dec) >>

ControlSeq ==
  << Op1("Addq", 2, Disp), Op1("Clr", 1, Inc), Op1("Ext", 2, D0), Op1("Jmp", 4, PcDisp),
     Op1("Jmp", 4, Idx), Op1("Jsr", 4, AbsW), Op1("Jsr", 4, PcIdx), Op1("Moveq", 4, D1),
     Op1("Neg", 1, AbsW), Op1("Subq", 4, D0), Op2("Lea", 4, PcIdx, A0),
     Op2("Lea", 4, Disp, A7), Op2("Pea", 4, AbsW, D0), Op2("Pea", 4, Ind, D0),
     Op2("Tst", 1, IncSP, D0), Op1("Nop", 2, D0), Op1("Rts", 4, D0),
     Op2("Unlk", 4, D0, A0), Op2("Link", 2, D0, A0), I("Scc", 1, D0, AbsL, 5, 0, FALSE),
     I("BitShift", 2, Imm, Inc, 1, 1, TRUE), I("BitShift", 2, D0, D1, 0, 0, FALSE),
     I("Bcc", 1, D0, D0, 0, 2, FALSE), I("Bcc", 2, D0, D0, 7, 0, FALSE),
     I("Bcc", 4, D0, D0, 6, 0, FALSE), I("Bcc", 1, D0, D0, 1, 6, FALSE) >>

ListSeq == OperandSeq \o ControlSeq

ListTable == TableOf(ListSeq)

(* The instruction op, two extension words, and a second instruction.      *)
ListBoot ==
  { MachineOf(<<op, e[1], e[2], then, 40, e[1]>>, 2, a0, 12, FALSE) :
      op \in DOMAIN ListSeq, then \in {1, 3, 14, 28, 43, 48},
      e \in {<<0, 10>>, <<4, 2>>, <<63, 62>>, <<24, 40>>}, a0 \in {6, 9} }

ListNear == NearMemory(cpu)
=============================================================================
