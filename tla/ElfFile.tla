------------------------------ MODULE ElfFile ------------------------------
(***************************************************************************)
(* What load_elf (src/cpu.cpp) takes from an ELF file: whether the reader  *)
(* (ELFIO, a library) can load it, the four header fields it tests, the    *)
(* entry address and the sections in the order of the section table.       *)
(***************************************************************************)
EXTENDS CPU, Sequences

CONSTANT Files      \* the files a host may name

Section ==
  [ progbits : BOOLEAN,     \* get_type() == PT_LOAD, which is SHT_PROGBITS
    alloc : BOOLEAN,        \* get_flags() & SHF_ALLOC
    address : LongVal,
    data : Seq(ByteVal) ]

ElfFiles ==
  [ readable : BOOLEAN,     \* elf_reader.load(file_name)
    class32 : BOOLEAN, msb : BOOLEAN, exec : BOOLEAN, m68k : BOOLEAN,
    entry : LongVal,
    sections : Seq(Section) ]

ASSUME FilesAssumption == Files \subseteq ElfFiles

Accepted(f) == f.readable /\ f.class32 /\ f.msb /\ f.exec /\ f.m68k

Loadable(c) == c.progbits /\ c.alloc

(* The stores a load makes: byte i of section k is the pair <<k, i>>.      *)
Writes(f) ==
  { w \in UNION {{k} \X (1 .. Len(f.sections[k].data)) : k \in 1 .. Len(f.sections)} :
      Loadable(f.sections[w[1]]) }

(* ... in the order of the section table, from the first byte on.          *)
Earlier(v, w) == v[1] < w[1] \/ (v[1] = w[1] /\ v[2] < w[2])

(* The address is computed in 32 bits, and masked by the memory.           *)
ByteAddress(c, i) == (c.address + i - 1) % Long

Place(f, w) == MASK_ADDR(ByteAddress(f.sections[w[1]], w[2]))

Content(f, w) == f.sections[w[1]].data[w[2]]

Fits(f, w) == Place(f, w) < MemSize

(* Faulty variant of Started: the user stack pointer is set in any mode.   *)
StartedOnUserStack(s, entry) ==
  SetPC([s EXCEPT !.reg = [s.reg EXCEPT ![REG_USP] = MemSize]], entry)

(* The stack pointer of the current mode gets MEMORY_SIZE, which is the    *)
(* size of the memory, and the program counter the entry address.          *)
Started(s, entry) == SetPC(set(s, REG_USP, SIZE_LONG, MemSize), entry)
=============================================================================
