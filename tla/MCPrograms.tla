----------------------------- MODULE MCPrograms -----------------------------
(***************************************************************************)
(* Programs of two instructions at address 0, over all values of the       *)
(* registers they use.                                                     *)
(***************************************************************************)
EXTENDS Programs, MCBase

(* The values around the changes of sign and the wrap.                     *)
Edge(n) == {0, 1, n \div 2 - 1, n \div 2, n - 1}

(* Extension words: small, odd, in the upper half.                         *)
ExtWords == {0, 17, 20, 24, 40}

D2 == <<DIRECT_DATA, 2>>
D3 == <<DIRECT_DATA, 3>>

LimbSeq(size) ==
  << Op2("Add", size, D0, D1), Op2("Addx", size, D2, D3),
     Op2("Sub", size, D0, D1), Op2("Subx", size, D2, D3) >>

(* Two comparisons, and scc on six conditions.                             *)
CompareSeq(conds) ==
  << Op2("Cmp", 1, D0, D1), Op2("Cmp", 2, D0, D1) >> \o
  [k \in 1 .. 6 |-> I("Scc", 1, D0, D2, conds[k], 0, FALSE)]

Unsigned == << 2, 3, 4, 5, 6, 7 >>
SignedConds == << 12, 13, 14, 15, 6, 7 >>

(* Stores through seven modes, and the load that goes back through each.   *)
StoreModes == << Ind, Disp, Idx, AbsW, AbsL, DecSP, Inc >>
LoadModes == << Ind, Disp, Idx, AbsW, AbsL, IncSP, Dec >>

MoveSeq(size) ==
  [k \in 1 .. 14 |-> IF k <= 7 THEN Op2("Move", size, D0, StoreModes[k])
                     ELSE Op2("Move", size, LoadModes[k - 7], D1)]

(* Unsigned, then signed: divu.w and mulu.w, divs.w and muls.w.            *)
DivideSeq ==
  << I("Div", 2, D0, D1, 0, 0, FALSE), I("Mul", 2, D0, D1, 0, 0, FALSE),
     I("Div", 2, D0, D1, 1, 0, FALSE), I("Mul", 2, D0, D1, 1, 0, FALSE) >>

(* Opcodes 1 to 8, 9 to 16, 17 to 58 and 59 to 62.                         *)
ProgramSeq ==
  LimbSeq(1) \o LimbSeq(2) \o CompareSeq(Unsigned)
  \o MoveSeq(1) \o MoveSeq(2) \o MoveSeq(4) \o DivideSeq

SignedSeq == CompareSeq(SignedConds)

ProgramTable == TableOf(ProgramSeq)
SignedTable == TableOf(SignedSeq)

With4(words, d0, d1, d2, d3, x) ==
  [MachineOf(words, d0, 8, MemSize, x) EXCEPT
     !.reg = [@ EXCEPT ![1] = d1, ![2] = d2, ![3] = d3]]

LimbBoot(ops, D) ==
  { With4(<<op, op + 1>>, d0, d1, d2, d3, x) :
      op \in ops, d0 \in D, d1 \in D, d2 \in D, d3 \in D, x \in BOOLEAN }

CompareBoot(op, scc, D) ==
  { With4(<<op, scc + k>>, d0, d1, 0, 0, x) :
      k \in 0 .. 5, d0 \in D, d1 \in D, x \in BOOLEAN }

(* The store of mode k at address 0, its extension, the load behind it,    *)
(* the same extension.                                                     *)
MoveWords(size, k, e) ==
  LET st == 16 + 14 * (IF size = 1 THEN 0 ELSE IF size = 2 THEN 1 ELSE 2) + k
      n  == ExtensionSize(StoreModes[k][1], size)
      x  == SubSeq(e, 1, n \div 2)
  IN  << st >> \o x \o << st + 7 >> \o x

MoveBoot ==
  { With4(MoveWords(size, k, e), d0, d1, 0, 0, FALSE) :
      size \in DataSize, k \in 1 .. 7,
      e \in ExtWords \X ExtWords, d0 \in {0, Word + 6, Long - 2}, d1 \in {0, 2} }

(* The dividend is a word of a long.                                       *)
DivideBoot ==
  { With4(<<op, op + 1>>, d0, d1, 0, 0, FALSE) :
      op \in {59, 61}, d0 \in Edge(Word) \cup 2 .. Byte \cup Word - Byte .. Word - 2,
      d1 \in WordVal \cup {3 * Word + e : e \in Edge(Word)} }

ProgramBoot ==
  LimbBoot({1, 3}, Edge(Byte)) \cup LimbBoot({5, 7}, Edge(Word)) \cup MoveBoot
  \cup CompareBoot(9, 11, ByteVal) \cup CompareBoot(10, 11, Edge(Word) \cup ByteVal)
  \cup DivideBoot

SignedBoot == CompareBoot(1, 3, ByteVal) \cup CompareBoot(2, 3, Edge(Word))
=============================================================================
