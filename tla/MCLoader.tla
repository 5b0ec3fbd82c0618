------------------------------ MODULE MCLoader ------------------------------
(***************************************************************************)
(* Loads of files that are refused, overlap, wrap, end outside the memory  *)
(* or have nothing to load, in any order, with programs run in between.    *)
(***************************************************************************)
EXTENDS Loader, MCBase

Sec(progbits, alloc, address, data) ==
  [progbits |-> progbits, alloc |-> alloc, address |-> address, data |-> data]

FileOf(readable, exec, entry, sections) ==
  [ readable |-> readable, class32 |-> TRUE, msb |-> TRUE, exec |-> exec,
    m68k |-> TRUE, entry |-> entry, sections |-> sections ]

Code(address, words) == Sec(TRUE, TRUE, address, words)
Note == Sec(TRUE, FALSE, 4, <<3, 3>>)
Bss == Sec(FALSE, TRUE, 6, <<3>>)

MCFiles ==
  { FileOf(FALSE, TRUE, 0, << Code(0, <<1>>) >>),
    FileOf(TRUE, FALSE, 0, << Code(0, <<1>>) >>),
    FileOf(TRUE, TRUE, 2, << Note, Code(2, <<0, 1, 0, 2>>), Bss, Code(4, <<0, 3>>) >>),
    FileOf(TRUE, TRUE, 0, << Code(0, <<0, 2>>), Code(MemSize - 1, <<1, 2>>), Code(2, <<3>>) >>),
    FileOf(TRUE, TRUE, 0, << Code(AddrSpace - 1, <<1>>) >>),
    FileOf(TRUE, TRUE, Long - 2, << Code(Long - 1, <<1, 0, 2>>), Code(6, <<>>) >>),
    FileOf(TRUE, TRUE, 4, << >>) }

LoadTable == TableOf(<< Op1("Nop", 2, D0), Op2("Pea", 4, Ind, D0), Op1("Rts", 4, D0) >>)

(* Neither stack pointer has room for a push.                              *)
LoadBoot ==
  { [MachineOf(<<2, 3, 1>>, 0, 4, 0, FALSE) EXCEPT !.reg = [@ EXCEPT ![REG_SSP] = 2]] }

LoadNear == NearMemory(cpu)
=============================================================================
