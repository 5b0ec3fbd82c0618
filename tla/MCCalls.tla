------------------------------ MODULE MCCalls ------------------------------
(***************************************************************************)
(* Every program of ProgramLength words over a small instruction set of    *)
(* calls, returns and frames, run until it leaves the memory.              *)
(***************************************************************************)
EXTENDS Calls, MCBase

CONSTANT ProgramLength    \* words of program, from address 0 on

ASSUME ProgramLengthAssumption == ProgramLength \in Nat

CallSeq ==
  << Op1("Jsr", 4, Ind), Op1("Jsr", 4, PcDisp), Op1("Rts", 4, D0),
     I("Bcc", 1, D0, D0, 1, 2, FALSE), Op2("Link", 2, D0, A0),
     Op2("Unlk", 4, D0, A0), Op2("Link", 2, D0, A7),
     Op2("Unlk", 4, D0, A7), Op2("Pea", 4, Ind, D0) >>

(* A bsr with a displacement word.                                         *)
WideSeq == << I("Bcc", 2, D0, D0, 1, 0, FALSE), Op1("Rts", 4, D0) >>

CallTable == TableOf(CallSeq)
WideTable == TableOf(WideSeq)

Programs(seq) ==
  { MachineOf(words, 0, 4, MemSize, FALSE) :
      words \in [1 .. ProgramLength -> {0} \cup DOMAIN seq] }

CallBoot == Programs(CallSeq)
WideBoot == Programs(WideSeq)

CallsNear == NearMemory(cpu)
=============================================================================
