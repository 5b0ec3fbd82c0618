------------------------- MODULE DisassemblyProofs -------------------------
(***************************************************************************)
(* Listing a program: what disassembly() does to the machine it reads.     *)
(***************************************************************************)
EXTENDS Disassembly, OperandProofs

(* Nothing but the program counter and the exception differs.              *)
OnlyPC(s, t) ==
  /\ t \in Machine
  /\ t.mem = s.mem /\ t.ccr = s.ccr /\ t.sup = s.sup
  /\ \A r \in RegisterType \ {REG_PC} : t.reg[r] = s.reg[r]

(* ... and the counter moved by n, if no exception stopped the way to t.   *)
Walks(s, t, n) == OnlyPC(s, t) /\ Moves(s, t, n)

(* Standing still.                                                         *)
LEMMA WalksSame ==
  ASSUME NEW s \in Machine
  PROVE  Walks(s, s, 0)
<1>1. Passes(s, s, 0, FALSE)
  BY PassesSame
<1> QED
  BY <1>1 DEF Walks, OnlyPC, Passes

(* Two ways in a row.                                                      *)
LEMMA WalksTrans ==
  ASSUME NEW s \in Machine, NEW t, NEW u, NEW n \in Int, NEW m \in Int,
         Walks(s, t, n), Walks(t, u, m)
  PROVE  Walks(s, u, n + m)
<1>1. Passes(s, t, n, FALSE) /\ Passes(t, u, m, FALSE)
  BY DEF Walks, OnlyPC, Passes
<1>2. Passes(s, u, n + m, FALSE)
  BY <1>1, PassesTrans
<1> QED
  BY <1>2 DEF Walks, OnlyPC, Passes

(* Moving the program counter.                                             *)
LEMMA WalksPC ==
  ASSUME NEW s \in Machine, NEW t, NEW n \in Int, Walks(s, t, 0)
  PROVE  Walks(s, SetPC(t, PC(s) + n), n)
<1>1. t \in Machine /\ Passes(s, t, 0, FALSE) /\ PC(s) + n \in Int
  BY Pointers DEF Walks, OnlyPC, Passes
<1>2. Passes(s, SetPC(t, PC(s) + n), n, FALSE)
  BY <1>1, PassesBy
<1>3. REG_PC \in Named /\ SIZE_LONG \in DataSize /\ Bank(t, REG_PC) = REG_PC
  BY DEF Named, DataSize, Bank, REG_PC, REG_A7
<1>4. OnlyPC(t, SetPC(t, PC(s) + n))
  BY <1>1, <1>3, SetFacts DEF SetPC, OnlyPC
<1> QED
  BY <1>2, <1>4 DEF Walks, OnlyPC, Passes

(* A read of memory.                                                       *)
LEMMA WalksGet ==
  ASSUME NEW s \in Machine, NEW address \in Int, NEW size \in DataSize
  PROVE  Walks(s, MemGet(s, address, size).st, 0)
<1> DEFINE t == MemGet(s, address, size).st
<1>1. Passes(s, t, 0, FALSE)
  BY PassesGet
<1>2. t.reg = s.reg /\ t.mem = s.mem /\ t.ccr = s.ccr /\ t.sup = s.sup
  BY DEF MemGet, Result, Throw, Machine
<1> HIDE DEF t
<1>3. Walks(s, t, 0)
  BY <1>1, <1>2 DEF Walks, OnlyPC, Passes
<1> QED
  BY <1>3 DEF t

(* Reading extension words, and passing them.                              *)
LEMMA WalksFetch ==
  ASSUME NEW s \in Machine, NEW n \in {0} \cup DataSize
  PROVE  Walks(s, Fetch(s, n).st, n) /\ n \in Int
<1>1. n \in Int
  BY DEF DataSize, SIZE_BYTE, SIZE_WORD, SIZE_LONG
<1>2. CASE n = 0
  <2>1. Fetch(s, n).st = s
    BY <1>2 DEF Fetch, Consume, Peek, Result
  <2> QED
    BY <1>2, <2>1, WalksSame
<1>3. CASE n # 0
  <2>1. Fetch(s, n).st = SetPC(MemGet(s, PC(s), n).st, PC(s) + n)
    BY <1>3 DEF Fetch, Consume, Peek, Result
  <2>2. Walks(s, MemGet(s, PC(s), n).st, 0)
    BY <1>3, WalksGet, Pointers
  <2> QED
    BY <1>1, <2>1, <2>2, WalksPC
<1> QED
  BY <1>1, <1>2, <1>3

(* The opening of every disassembly() passes the opcode word.              *)
LEMMA WalksBegin ==
  ASSUME NEW s \in Machine
  PROVE  Walks(s, Begin(s), SIZE_WORD) /\ Begin(s) \in Machine /\ SIZE_WORD \in Int
<1>1. SIZE_WORD \in Int
  BY DEF SIZE_WORD
<1> QED
  BY <1>1, WalksSame, WalksPC DEF Begin, Walks, OnlyPC

(* The text of an operand passes its extension words.                      *)
LEMMA WalksText ==
  ASSUME NEW s \in Machine, NEW mode \in AddressingMode, NEW r, NEW size \in DataSize
  PROVE  /\ Walks(s, effectiveAddress(s, mode, r, size).st, ExtensionSize(mode, size))
         /\ ExtensionSize(mode, size) \in Int
         /\ effectiveAddress(s, mode, r, size).st \in Machine
<1> DEFINE n == ExtensionSize(mode, size)
<1>1. n \in {0} \cup DataSize
  BY ExtensionRange DEF DataSize
<1>2. effectiveAddress(s, mode, r, size).st = Fetch(s, n).st
  BY DEF effectiveAddress, ShownFrom, Result
<1> HIDE DEF n
<1>3. Walks(s, Fetch(s, n).st, n) /\ n \in Int
  BY <1>1, WalksFetch
<1> QED
  BY <1>2, <1>3 DEF n, Walks, OnlyPC

(* The texts of two operands, in either order, pass both.                  *)
LEMMA WalksBoth ==
  ASSUME NEW s \in Machine, NEW i \in Instruction, NEW order, NEW mode \in AddressingMode, NEW r
  PROVE  Walks(s, WithDest(Begin(s), i, order, mode, r).st,
               SIZE_WORD + ExtensionSize(mode, i.data_size) + DestBytes(i))
<1> DEFINE b == Begin(s)
           n == ExtensionSize(mode, i.data_size)
           a == effectiveAddress(b, mode, r, i.data_size)
           d == DestText(b, i)
<1>1. i.data_size \in DataSize /\ i.dest_mode \in AddressingMode
  BY Members DEF Operands
<1>2. Walks(s, b, SIZE_WORD) /\ b \in Machine /\ SIZE_WORD \in Int
  BY WalksBegin
<1>3. n \in Int /\ DestBytes(i) \in Int
  BY <1>1, <1>2, WalksText, BytesInt
<1> HIDE DEF b
<1>4. CASE order = "left"
  <2>1. Walks(b, a.st, n) /\ a.st \in Machine
    BY <1>1, <1>2, WalksText
  <2>2. WithDest(b, i, order, mode, r).st = DestText(a.st, i).st
    BY <1>4 DEF WithDest, Result
  <2> HIDE DEF a, n
  <2>3. Walks(a.st, DestText(a.st, i).st, DestBytes(i))
    BY <1>1, <2>1, WalksText DEF DestText, DestBytes
  <2>4. Walks(s, a.st, SIZE_WORD + n) /\ SIZE_WORD + n \in Int
    BY <1>2, <1>3, <2>1, WalksTrans
  <2> QED
    BY <1>3, <2>2, <2>3, <2>4, WalksTrans DEF b, n
<1>5. CASE order # "left"
  <2>1. Walks(b, d.st, DestBytes(i)) /\ d.st \in Machine
    BY <1>1, <1>2, WalksText DEF DestText, DestBytes
  <2>2. WithDest(b, i, order, mode, r).st = effectiveAddress(d.st, mode, r, i.data_size).st
    BY <1>5 DEF WithDest, Result
  <2> HIDE DEF d
  <2>3. Walks(d.st, effectiveAddress(d.st, mode, r, i.data_size).st, n)
    BY <1>1, <2>1, WalksText
  <2> HIDE DEF n
  <2>4. Walks(s, d.st, SIZE_WORD + DestBytes(i)) /\ SIZE_WORD + DestBytes(i) \in Int
    BY <1>2, <1>3, <2>1, WalksTrans
  <2>5. SIZE_WORD + DestBytes(i) + n = SIZE_WORD + n + DestBytes(i)
    BY <1>2, <1>3
  <2>6. Walks(s, WithDest(b, i, order, mode, r).st, SIZE_WORD + DestBytes(i) + n)
    BY <1>3, <2>2, <2>3, <2>4, WalksTrans
  <2> QED
    BY <2>5, <2>6 DEF b, n
<1> QED
  BY <1>4, <1>5

(* Bytes a disassembly() passes.                                           *)
TextBytes(i) ==
  CASE i.class \in { "Add", "Adda", "Addx", "And", "BitManip", "Cmp", "Cmpa", "Div", "Eor",
                     "Move", "Mul", "Or", "Sub", "Suba", "Subx" } ->
         SIZE_WORD + SourceBytes(i) + DestBytes(i)
    [] i.class \in {"Addi", "Andi", "Cmpi", "Eori", "Ori", "Subi"} ->
         SIZE_WORD + ImmediateBytes(i) + DestBytes(i)
    [] i.class \in {"Lea", "Pea", "Tst"} -> SIZE_WORD + SourceBytes(i)
    [] i.class \in {"Illegal", "Nop", "Rts", "Unlk"} -> SIZE_WORD
    [] i.class = "Scc" -> SIZE_WORD + ExtensionSize(i.dest_mode, SIZE_BYTE)
    [] i.class = "Bcc" ->
         SIZE_WORD + (IF i.data_size = SIZE_BYTE THEN 0 ELSE ImmediateBytes(i))
    [] i.class = "Link" -> 2 * SIZE_WORD
    [] OTHER -> SIZE_WORD + DestBytes(i)

(* One operand.                                                            *)
LEMMA WalksOne ==
  ASSUME NEW s \in Machine, NEW mode \in AddressingMode, NEW r, NEW size \in DataSize
  PROVE  Walks(s, effectiveAddress(Begin(s), mode, r, size).st,
               SIZE_WORD + ExtensionSize(mode, size))
<1> DEFINE b == Begin(s)
<1>1. Walks(s, b, SIZE_WORD) /\ b \in Machine /\ SIZE_WORD \in Int
  BY WalksBegin
<1> HIDE DEF b
<1>2. /\ Walks(b, effectiveAddress(b, mode, r, size).st, ExtensionSize(mode, size))
      /\ ExtensionSize(mode, size) \in Int
  BY <1>1, WalksText
<1>3. Walks(s, effectiveAddress(b, mode, r, size).st, SIZE_WORD + ExtensionSize(mode, size))
  BY <1>1, <1>2, WalksTrans
<1> QED
  BY <1>3 DEF b

(* The displacement of a branch is read as an operand, and passed.         *)
LEMMA WalksBranch ==
  ASSUME NEW s \in Machine, NEW i \in Instruction
  PROVE  Walks(s, BccDisassembly(s, i).st,
               SIZE_WORD + (IF i.data_size = SIZE_BYTE THEN 0 ELSE ImmediateBytes(i)))
<1>1. Walks(s, Begin(s), SIZE_WORD) /\ Begin(s) \in Machine /\ SIZE_WORD \in Int
  BY WalksBegin
<1>2. CASE i.data_size = SIZE_BYTE
  <2>1. BccDisassembly(s, i).st = Begin(s)
    BY <1>2 DEF BccDisassembly, Target, Result
  <2>2. SIZE_WORD + 0 = SIZE_WORD
    BY <1>1
  <2> QED
    BY <1>1, <1>2, <2>1, <2>2
<1>3. CASE i.data_size # SIZE_BYTE
  <2> DEFINE b == Begin(s)
             n == ImmediateBytes(i)
  <2>1. BccDisassembly(s, i).st = Fetch(b, n).st
    <3>1. Immediate(s, i).st = Fetch(b, n).st
      BY DEF Immediate, getData, getDataWith, Accessed, Result, ImmediateBytes, DIRECT_DATA,
             DIRECT_ADDR, IMMEDIATE, UNKNOWN
    <3> QED
      BY <1>3, <3>1 DEF BccDisassembly, Target, Result
  <2>2. n \in {0} \cup DataSize
    <3>1. i.data_size \in DataSize /\ IMMEDIATE \in AddressingMode
      BY Members DEF AddressingMode
    <3> QED
      BY <3>1, ExtensionRange DEF ImmediateBytes, DataSize
  <2>3. b \in Machine /\ Walks(s, b, SIZE_WORD)
    BY <1>1
  <2> HIDE DEF b, n
  <2>4. Walks(b, Fetch(b, n).st, n) /\ n \in Int
    BY <2>2, <2>3, WalksFetch
  <2>5. Walks(s, Fetch(b, n).st, SIZE_WORD + n)
    BY <1>1, <2>3, <2>4, WalksTrans
  <2> QED
    BY <1>3, <2>1, <2>5 DEF n
<1> QED
  BY <1>2, <1>3

(* link reads its displacement on its own.                                 *)
LEMMA WalksLink ==
  ASSUME NEW s \in Machine, NEW i
  PROVE  Walks(s, LinkDisassembly(s, i).st, 2 * SIZE_WORD)
<1> DEFINE t == MemGet(s, PC(s) + SIZE_WORD, SIZE_WORD).st
           n == 2 * SIZE_WORD
<1>1. LinkDisassembly(s, i).st = SetPC(t, PC(s) + n)
  BY DEF LinkDisassembly, Result
<1>2. PC(s) + SIZE_WORD \in Int /\ n \in Int /\ SIZE_WORD \in DataSize
  BY Pointers DEF SIZE_WORD, DataSize
<1>3. Walks(s, t, 0)
  BY <1>2, WalksGet
<1> HIDE DEF t, n
<1>4. Walks(s, SetPC(t, PC(s) + n), n)
  BY <1>2, <1>3, WalksPC
<1> QED
  BY <1>1, <1>4 DEF n

(* Every disassembly() passes the instruction and changes nothing else.    *)
LEMMA WalksDisassembly ==
  ASSUME NEW s \in Machine, NEW i \in Instruction, NEW order
  PROVE  Walks(s, disassembly(s, i, order).st, TextBytes(i))
<1> DEFINE t == disassembly(s, i, order).st
<1>1. /\ i.data_size \in DataSize /\ i.src_mode \in AddressingMode
      /\ i.dest_mode \in AddressingMode
      /\ IMMEDIATE \in AddressingMode /\ SIZE_BYTE \in DataSize
  BY Members DEF Operands, AddressingMode, DataSize
<1>2. CASE i.class \in { "Add", "Adda", "Addx", "And", "BitManip", "Cmp", "Cmpa", "Div", "Eor",
                         "Move", "Mul", "Or", "Sub", "Suba", "Subx" }
  <2>1. t = WithDest(Begin(s), i, order, i.src_mode, i.src_reg).st
    BY <1>2 DEF disassembly, SrcAndDest, AddDisassembly, AddaDisassembly, AddxDisassembly,
       AndDisassembly, BitManipDisassembly, CmpDisassembly, CmpaDisassembly, DivDisassembly,
       EorDisassembly, MoveDisassembly, MulDisassembly, OrDisassembly, SubDisassembly,
       SubaDisassembly, SubxDisassembly
  <2>2. TextBytes(i) = SIZE_WORD + ExtensionSize(i.src_mode, i.data_size) + DestBytes(i)
    BY <1>2 DEF TextBytes, SourceBytes
  <2> QED
    BY <1>1, <2>1, <2>2, WalksBoth
<1>3. CASE i.class \in {"Addi", "Andi", "Cmpi", "Eori", "Ori", "Subi"}
  <2>1. t = WithDest(Begin(s), i, order, IMMEDIATE, REG_D0).st
    BY <1>3 DEF disassembly, ImmediateAndDest, AddiDisassembly, AndiDisassembly,
       CmpiDisassembly, EoriDisassembly, OriDisassembly, SubiDisassembly
  <2>2. TextBytes(i) = SIZE_WORD + ExtensionSize(IMMEDIATE, i.data_size) + DestBytes(i)
    BY <1>3 DEF TextBytes, ImmediateBytes
  <2> QED
    BY <1>1, <2>1, <2>2, WalksBoth
<1>4. CASE i.class \in { "Addq", "Clr", "Ext", "Jmp", "Jsr", "Moveq", "Neg", "Subq", "BitShift" }
  <2>1. t = effectiveAddress(Begin(s), i.dest_mode, i.dest_reg, i.data_size).st
    BY <1>4 DEF disassembly, DestText, AddqDisassembly, ClrDisassembly, ExtDisassembly,
       JmpDisassembly, JsrDisassembly, MoveqDisassembly, NegDisassembly, SubqDisassembly,
       BitShiftDisassembly
  <2>2. TextBytes(i) = SIZE_WORD + ExtensionSize(i.dest_mode, i.data_size)
    BY <1>4 DEF TextBytes, DestBytes
  <2> QED
    BY <1>1, <2>1, <2>2, WalksOne
<1>5. CASE i.class \in {"Lea", "Pea", "Tst"}
  <2>1. t = effectiveAddress(Begin(s), i.src_mode, i.src_reg, i.data_size).st
    BY <1>5 DEF disassembly, SrcText, LeaDisassembly, PeaDisassembly, TstDisassembly
  <2>2. TextBytes(i) = SIZE_WORD + ExtensionSize(i.src_mode, i.data_size)
    BY <1>5 DEF TextBytes, SourceBytes
  <2> QED
    BY <1>1, <2>1, <2>2, WalksOne
<1>6. CASE i.class = "Scc"
  <2>1. t = effectiveAddress(Begin(s), i.dest_mode, i.dest_reg, SIZE_BYTE).st
    BY <1>6 DEF disassembly, SccDisassembly
  <2>2. TextBytes(i) = SIZE_WORD + ExtensionSize(i.dest_mode, SIZE_BYTE)
    BY <1>6 DEF TextBytes
  <2> QED
    BY <1>1, <2>1, <2>2, WalksOne
<1>7. CASE i.class \in {"Illegal", "Nop", "Rts", "Unlk"}
  <2>1. t = Begin(s)
    BY <1>7 DEF disassembly, NameOnly, IllegalDisassembly, NopDisassembly, RtsDisassembly,
       UnlkDisassembly, Result
  <2>2. TextBytes(i) = SIZE_WORD
    BY <1>7 DEF TextBytes
  <2> QED
    BY <2>1, <2>2, WalksBegin
<1>8. CASE i.class = "Bcc"
  <2>1. t = BccDisassembly(s, i).st
    BY <1>8 DEF disassembly
  <2>2. TextBytes(i) = SIZE_WORD + (IF i.data_size = SIZE_BYTE THEN 0 ELSE ImmediateBytes(i))
    BY <1>8 DEF TextBytes
  <2> QED
    BY <2>1, <2>2, WalksBranch
<1>9. CASE i.class = "Link"
  <2>1. t = LinkDisassembly(s, i).st
    BY <1>9 DEF disassembly
  <2>2. TextBytes(i) = 2 * SIZE_WORD
    BY <1>9 DEF TextBytes
  <2> QED
    BY <2>1, <2>2, WalksLink
<1>10. i.class \in Classes
  BY DEF Instruction, InstructionsWith, InstructionRecord
<1> QED
  BY <1>2, <1>3, <1>4, <1>5, <1>6, <1>7, <1>8, <1>9, <1>10 DEF Classes
-----------------------------------------------------------------------------
(* What the listing needs of the machine: every line has an address.       *)
ListInv == TypeOK /\ \A l \in listing : l.at \in Int

(* Reading the opcode moves nothing.                                       *)
LEMMA FetchStays ==
  ASSUME TypeOK
  PROVE  OnlyPC(cpu, Fetched.st)
<1>1. /\ Ready \in Machine /\ Ready.reg = cpu.reg /\ Ready.mem = cpu.mem
      /\ Ready.ccr = cpu.ccr /\ Ready.sup = cpu.sup
  BY ReadyFacts
<1>2. PC(Ready) \in Int /\ SIZE_WORD \in DataSize
  BY <1>1, Pointers DEF DataSize
<1>3. Fetched = MemGet(Ready, PC(Ready), SIZE_WORD)
  BY DEF Fetched, Ready
<1>4. OnlyPC(Ready, Fetched.st)
  BY <1>1, <1>2, <1>3, WalksGet DEF Walks
<1> QED
  BY <1>1, <1>4 DEF OnlyPC

(* A line listed moves the program counter only.                           *)
LEMMA ListLineKeeps ==
  ASSUME ListInv, ListLine
  PROVE  ListInv' /\ OnlyPC(cpu, cpu')
<1>1. OnlyPC(cpu, Fetched.st) /\ Fetched.st \in Machine /\ Decoded \in Instruction /\ TypeOK
  BY FetchStays, FetchedFacts DEF ListInv
<1>2. CASE Ok(Fetched.st)
  <2>1. PICK order \in Orders :
          /\ cpu' = Listed(order).st
          /\ listing' = listing \cup (IF Ok(Listed(order).st) THEN {NewLine(Listed(order))} ELSE {})
    BY <1>2 DEF ListLine
  <2>2. OnlyPC(Fetched.st, cpu')
    BY <1>1, <2>1, WalksDisassembly DEF Listed, Walks
  <2>3. OnlyPC(cpu, cpu')
    BY <1>1, <2>2 DEF OnlyPC
  <2>4. PC(cpu) \in Int
    BY <1>1, Pointers DEF TypeOK
  <2>5. \A l \in listing' : l.at \in Int
    BY <2>1, <2>4 DEF NewLine, ListInv
  <2> QED
    BY <2>3, <2>5 DEF ListInv, TypeOK, OnlyPC
<1>3. CASE ~Ok(Fetched.st)
  <2>1. cpu' = Fetched.st /\ listing' = listing
    BY <1>3 DEF ListLine
  <2> QED
    BY <1>1, <2>1 DEF ListInv, TypeOK, OnlyPC
<1> QED
  BY <1>2, <1>3

(* So does setting the counter back.                                       *)
LEMMA RewindKeeps ==
  ASSUME ListInv, Rewind
  PROVE  ListInv' /\ OnlyPC(cpu, cpu')
<1>1. PICK l \in listing : cpu' = SetPC(Ready, l.at)
  BY DEF Rewind, Ready
<1>2. /\ Ready \in Machine /\ Ready.reg = cpu.reg /\ Ready.mem = cpu.mem
      /\ Ready.ccr = cpu.ccr /\ Ready.sup = cpu.sup
  BY ReadyFacts DEF ListInv
<1>3. l.at \in Int /\ REG_PC \in Named /\ SIZE_LONG \in DataSize /\ Bank(Ready, REG_PC) = REG_PC
  BY <1>1 DEF ListInv, Named, DataSize, Bank, REG_PC, REG_A7
<1>4. OnlyPC(Ready, cpu')
  BY <1>1, <1>2, <1>3, SetFacts DEF SetPC, OnlyPC
<1> QED
  BY <1>2, <1>4 DEF OnlyPC, ListInv, TypeOK, Rewind

(***************************************************************************)
(* A debugger may list the code of a running program: for every table,     *)
(* memory and order of evaluation, disassembly() changes nothing but the   *)
(* program counter, also when an extension word ends in an exception.      *)
(***************************************************************************)
THEOREM ListingIsQuiet == ListSpec => ListingMovesOnlyPC
<1>1. ListInit => ListInv
  BY BootAssumption DEF ListInit, ListInv, Init, TypeOK
<1>2. ListInv /\ [ListNext]_listVars => ListInv'
  <2> SUFFICES ASSUME ListInv, [ListNext]_listVars PROVE ListInv'
    OBVIOUS
  <2>1. CASE ListLine \/ Rewind
    BY <2>1, ListLineKeeps, RewindKeeps
  <2>2. CASE RunStep
    <3>1. cpu' \in Machine
      BY <2>2, StepSafe DEF RunStep, ListInv, Safe
    <3> QED
      BY <2>2, <3>1 DEF RunStep, ListInv, TypeOK
  <2>3. CASE UNCHANGED listVars
    BY <2>3 DEF listVars, ListInv, TypeOK
  <2> QED
    BY <2>1, <2>2, <2>3 DEF ListNext
<1>3. ListInv /\ [ListNext]_listVars =>
        [ ~running =>
            /\ cpu'.mem = cpu.mem /\ cpu'.ccr = cpu.ccr /\ cpu'.sup = cpu.sup
            /\ \A r \in RegisterType \ {REG_PC} : cpu'.reg[r] = cpu.reg[r] ]_listVars
  BY ListLineKeeps, RewindKeeps DEF ListNext, RunStep, OnlyPC
<1> QED
  BY <1>1, <1>2, <1>3, PTL DEF ListSpec, ListingMovesOnlyPC
-----------------------------------------------------------------------------
(* n bytes of memory m from address a on, and the instruction decoded at a. *)
ReadAt(m, a, n) == IF n = 0 THEN 0 ELSE read_real_mem(m, MASK_ADDR(a), n)

InstructionAt(m, a) == Decode(ReadAt(m, a, SIZE_WORD))

(* n bytes can be read at address a.                                       *)
Readable(a, n) == n = 0 \/ AccessError(a, n) = "none"

(* The operand a text of one operand shows, by its mode.                   *)
TextMode(i) == IF i.class \in {"Lea", "Pea"} THEN i.src_mode ELSE i.dest_mode

(* A branch's displacement: in the opcode, or in the words after it.       *)
BranchBytes(i) == IF i.data_size = SIZE_BYTE THEN 0 ELSE ImmediateBytes(i)

BranchValue(m, a, i) ==
  IF i.data_size = SIZE_BYTE THEN i.imm
  ELSE MASK(ReadAt(m, a + SIZE_WORD, ImmediateBytes(i)), i.data_size)

(***************************************************************************)
(* Line l still says what the bytes of memory m say: the part of the text  *)
(* that Follows refers to, and where the line ends.                        *)
(***************************************************************************)
Shows(m, l) ==
  LET i == InstructionAt(m, l.at)
      n == ExtensionSize(TextMode(i), i.data_size)
  IN  /\ l.at \in LongVal /\ Readable(l.at, SIZE_WORD)
      /\ l.next = (l.at + TextBytes(i)) % Long
      /\ i.class \in {"Jmp", "Jsr", "Lea", "Pea"} =>
           /\ Readable(l.at + SIZE_WORD, n)
           /\ l.text = Shown(TextMode(i), i.data_size, ReadAt(m, l.at + SIZE_WORD, n))
      /\ i.class = "Bcc" =>
           /\ Readable(l.at + SIZE_WORD, BranchBytes(i))
           /\ l.text.num = (l.at + SIZE_WORD
                              + SignExtend(BranchValue(m, l.at, i), i.data_size)) % Long

(* Long has room for any instruction.                                      *)
LEMMA LongRoom == Long >= 16
<1>1. \E g \in Nat \ {0} : Byte = 2 * g
  <2> DEFINE g == Pow2[Bits - 1]
  <2>1. Bits - 1 \in 0 .. 8 * Bits - 1 /\ Bits - 1 \in 0 .. 8 * Bits /\ (Bits - 1) + 1 = Bits
    BY BitsAssumption
  <2>2. g \in Nat \ {0} /\ Pow2[(Bits - 1) + 1] = 2 * g
    BY <2>1, Pow2Assumption
  <2> QED
    BY <2>1, <2>2 DEF Byte
<1>2. \A x, y \in Nat : x >= 2 /\ y >= 2 => x * y >= 4 /\ x * y \in Nat
  OBVIOUS
<1>3. \A x, y \in Nat : x >= 4 /\ y >= 4 => x * y >= 16
  OBVIOUS
<1>4. Byte \in Nat /\ Byte >= 2
  BY <1>1
<1>5. Word \in Nat /\ Word >= 4
  BY <1>2, <1>4 DEF Word
<1> QED
  BY <1>3, <1>5 DEF Long

(* The sizes of extensions.                                                *)
LEMMA ExtensionSizes ==
  ASSUME NEW i \in Instruction
  PROVE  /\ SourceBytes(i) \in {0, 2, 4} /\ DestBytes(i) \in {0, 2, 4}
         /\ ImmediateBytes(i) \in {2, 4}
         /\ ExtensionSize(i.dest_mode, SIZE_BYTE) \in {0, 2, 4}
<1>1. /\ i.data_size \in DataSize /\ i.src_mode \in AddressingMode
      /\ i.dest_mode \in AddressingMode /\ SIZE_BYTE \in DataSize
  BY Members DEF Operands, DataSize
<1>2. \A mode \in AddressingMode, size \in DataSize : ExtensionSize(mode, size) \in {0, 2, 4}
  BY ExtensionRange DEF SIZE_WORD, SIZE_LONG
<1>3. ImmediateBytes(i) \in {2, 4}
  BY DEF ImmediateBytes, ExtensionSize, SIZE_WORD, SIZE_LONG, DISPLACEMENT, INDEX,
     PC_DISPLACEMENT, PC_INDEX, ABS_WORD, ABS_LONG, IMMEDIATE
<1> QED
  BY <1>1, <1>2, <1>3 DEF SourceBytes, DestBytes

(* The bytes of a text, and of the operand it shows.                       *)
LEMMA TextRoom ==
  ASSUME NEW i \in Instruction
  PROVE  /\ TextBytes(i) \in 2 .. 10
         /\ i.class \in {"Jmp", "Jsr", "Lea", "Pea"} =>
              TextBytes(i) = SIZE_WORD + ExtensionSize(TextMode(i), i.data_size)
         /\ i.class = "Bcc" => TextBytes(i) = SIZE_WORD + BranchBytes(i)
         /\ ExtensionSize(TextMode(i), i.data_size) \in {0, 2, 4}
         /\ BranchBytes(i) \in {0, 2, 4}
<1>1. TextBytes(i) \in 2 .. 10
  BY ExtensionSizes DEF TextBytes, SIZE_WORD
<1>2. i.class \in {"Jmp", "Jsr", "Lea", "Pea"} =>
        TextBytes(i) = SIZE_WORD + ExtensionSize(TextMode(i), i.data_size)
  BY DEF TextBytes, TextMode, SourceBytes, DestBytes
<1>3. i.class = "Bcc" => TextBytes(i) = SIZE_WORD + BranchBytes(i)
  BY DEF TextBytes, BranchBytes
<1>4. ExtensionSize(TextMode(i), i.data_size) \in {0, 2, 4}
  BY ExtensionSizes DEF TextMode, SourceBytes, DestBytes
<1>5. BranchBytes(i) \in {0, 2, 4}
  BY ExtensionSizes DEF BranchBytes
<1> QED
  BY <1>1, <1>2, <1>3, <1>4, <1>5

(* A line of n bytes holds the addresses of its n bytes.                   *)
LEMMA LineBytes ==
  ASSUME NEW l, l.at \in LongVal, NEW n \in 2 .. 10, l.next = (l.at + n) % Long,
         NEW k \in 0 .. n - 1
  PROVE  MASK_ADDR(l.at + k) \in BytesOf(l)
<1>1. Long \in Nat \ {0} /\ l.at \in Int /\ n \in Int /\ n \in 0 .. Long - 1 /\ k \in Int
  BY Positive, LongRoom DEF LongVal
<1>2. (l.next - l.at) % Long = n
  <2>0. l.at + n \in Int /\ -l.at \in Int
    BY <1>1
  <2>1. (((l.at + n) % Long) + (-l.at)) % Long = (l.at + n + (-l.at)) % Long
    BY <1>1, <2>0, ModPlus
  <2>2. (l.at + n) % Long \in Int
    <3>1. (l.at + n) % Long \in 0 .. Long - 1
      BY <1>1, <2>0, ModRange
    <3> QED
      BY <1>1, <3>1
  <2>3. l.next - l.at = ((l.at + n) % Long) + (-l.at) /\ l.at + n + (-l.at) = n
    BY <1>1, <2>2
  <2>4. n % Long = n
    BY <1>1, ModSmall
  <2> QED
    BY <2>1, <2>3, <2>4
<1> QED
  BY <1>1, <1>2 DEF BytesOf

(* What can be read at once lies at consecutive addresses.                 *)
LEMMA Consecutive ==
  ASSUME NEW a \in Int, NEW n \in {2, 4}, AccessError(a, n) = "none", NEW j \in 0 .. n - 1
  PROVE  MASK_ADDR(a + j) = MASK_ADDR(a) + j
<1>1. n \in DataSize
  BY DEF DataSize, SIZE_BYTE, SIZE_WORD, SIZE_LONG
<1>2. MASK_ADDR(a) \in Address /\ MASK_ADDR(a) + n <= MemSize
  BY <1>1, AccessInside
<1>3. /\ MASK_ADDR(a) \in Int /\ MemSize \in Int /\ MemSize <= AddrSpace /\ AddrSpace \in Nat \ {0}
      /\ MASK_ADDR(a) >= 0
  BY <1>2, MemSizeAssumption, Positive DEF Address
<1>4. MASK_ADDR(a) + j \in 0 .. AddrSpace - 1
  BY <1>2, <1>3
<1>5. ((a % AddrSpace) + j) % AddrSpace = (a + j) % AddrSpace
  <2>1. j \in Int
    OBVIOUS
  <2> QED
    BY <1>3, <2>1, ModPlus
<1> QED
  BY <1>3, <1>4, <1>5, ModSmall DEF MASK_ADDR

(* Reads from a line whose bytes are the same give the same.               *)
LEMMA LineReads ==
  ASSUME NEW l, l.at \in LongVal, NEW n \in 2 .. 10, l.next = (l.at + n) % Long,
         NEW m, NEW w, \A a \in BytesOf(l) : w[a] = m[a],
         NEW k \in {0, 2}, NEW size \in {0, 2, 4}, k + size <= n, Readable(l.at + k, size)
  PROVE  ReadAt(w, l.at + k, size) = ReadAt(m, l.at + k, size)
<1>1. CASE size = 0
  BY <1>1 DEF ReadAt
<1>2. CASE size # 0
  <2> DEFINE b == MASK_ADDR(l.at + k)
  <2>1. AccessError(l.at + k, size) = "none" /\ l.at + k \in Int /\ l.at \in Int
    BY <1>2, Positive DEF Readable, LongVal
  <2>2. ASSUME NEW j \in 0 .. size - 1 PROVE w[b + j] = m[b + j]
    <3>1. MASK_ADDR(l.at + k + j) = b + j
      BY <1>2, <2>1, Consecutive
    <3>2. k + j \in 0 .. n - 1 /\ l.at + (k + j) = l.at + k + j
      BY <2>1
    <3>3. MASK_ADDR(l.at + (k + j)) \in BytesOf(l)
      BY <3>2, LineBytes
    <3> QED
      BY <3>1, <3>2, <3>3
  <2>3. b \in Int
    <3>1. AddrSpace \in Nat \ {0}
      BY Positive
    <3>2. (l.at + k) % AddrSpace \in 0 .. AddrSpace - 1
      BY <2>1, <3>1, ModRange
    <3> QED
      BY <3>1, <3>2 DEF MASK_ADDR
  <2> HIDE DEF b
  <2>4. w[b] = m[b] /\ w[b + 1] = m[b + 1]
    <3>1. b + 0 = b /\ 0 \in 0 .. size - 1 /\ 1 \in 0 .. size - 1
      BY <1>2, <2>3
    <3> QED
      BY <2>2, <3>1
  <2>5. size = 4 => w[b + 2] = m[b + 2] /\ w[b + 3] = m[b + 3]
    BY <2>2
  <2>6. read_real_mem(w, b, size) = read_real_mem(m, b, size)
    BY <1>2, <2>4, <2>5 DEF read_real_mem, SIZE_BYTE, SIZE_WORD
  <2> QED
    BY <1>2, <2>6 DEF ReadAt, b
<1> QED
  BY <1>1, <1>2

(* A line stays true while its bytes stay.                                 *)
LEMMA ShowsStays ==
  ASSUME NEW l, NEW m \in [Address -> ByteVal], NEW w, \A a \in BytesOf(l) : w[a] = m[a],
         Shows(m, l), InstructionAt(m, l.at) \in Instruction
  PROVE  Shows(w, l)
<1> DEFINE i == InstructionAt(m, l.at)
           n == ExtensionSize(TextMode(i), i.data_size)
<1>1. l.at \in LongVal /\ Readable(l.at, SIZE_WORD) /\ l.next = (l.at + TextBytes(i)) % Long
  BY DEF Shows
<1>2. TextBytes(i) \in 2 .. 10
  BY TextRoom
<1>3. l.at \in Int /\ l.at + 0 = l.at /\ SIZE_WORD = 2
  BY <1>1, Positive DEF LongVal, SIZE_WORD
<1>4. InstructionAt(w, l.at) = i
  <2>1. ReadAt(w, l.at + 0, 2) = ReadAt(m, l.at + 0, 2)
    BY <1>1, <1>2, <1>3, LineReads
  <2> QED
    BY <1>3, <2>1 DEF InstructionAt
<1> HIDE DEF i
<1>5. ASSUME i.class \in {"Jmp", "Jsr", "Lea", "Pea"}
      PROVE  /\ Readable(l.at + SIZE_WORD, n)
             /\ l.text = Shown(TextMode(i), i.data_size, ReadAt(w, l.at + SIZE_WORD, n))
  <2>1. /\ Readable(l.at + SIZE_WORD, n)
        /\ l.text = Shown(TextMode(i), i.data_size, ReadAt(m, l.at + SIZE_WORD, n))
    BY <1>5 DEF Shows, i
  <2>2. n \in {0, 2, 4} /\ TextBytes(i) = 2 + n
    BY <1>3, <1>5, TextRoom DEF i
  <2> HIDE DEF n
  <2>3. ReadAt(w, l.at + 2, n) = ReadAt(m, l.at + 2, n)
    BY <1>1, <1>2, <1>3, <2>1, <2>2, LineReads
  <2> QED
    BY <1>3, <2>1, <2>3
<1>6. ASSUME i.class = "Bcc"
      PROVE  /\ Readable(l.at + SIZE_WORD, BranchBytes(i))
             /\ l.text.num = (l.at + SIZE_WORD
                                + SignExtend(BranchValue(w, l.at, i), i.data_size)) % Long
  <2>1. /\ Readable(l.at + SIZE_WORD, BranchBytes(i))
        /\ l.text.num = (l.at + SIZE_WORD
                           + SignExtend(BranchValue(m, l.at, i), i.data_size)) % Long
    BY <1>6 DEF Shows, i
  <2>2. BranchBytes(i) \in {0, 2, 4} /\ TextBytes(i) = 2 + BranchBytes(i)
    BY <1>3, <1>6, TextRoom DEF i
  <2>3. ReadAt(w, l.at + 2, BranchBytes(i)) = ReadAt(m, l.at + 2, BranchBytes(i))
    BY <1>1, <1>2, <1>3, <2>1, <2>2, LineReads
  <2>4. BranchValue(w, l.at, i) = BranchValue(m, l.at, i)
    BY <1>3, <2>3 DEF BranchValue, BranchBytes
  <2> QED
    BY <2>1, <2>4
<1> QED
  BY <1>1, <1>4, <1>5, <1>6 DEF Shows

(* An address is read modulo the address space, so modulo Long too.        *)
LEMMA ReadableLong ==
  ASSUME NEW a \in Int, NEW n
  PROVE  /\ Readable(a % Long, n) <=> Readable(a, n)
         /\ \A m : ReadAt(m, a % Long, n) = ReadAt(m, a, n)
  BY AddressOfLong DEF Readable, ReadAt, AccessError

(* Reading n bytes at the program counter.                                 *)
LEMMA FetchReadable ==
  ASSUME NEW s \in Machine, NEW n \in {0} \cup DataSize
  PROVE  /\ Ok(Fetch(s, n).st) <=> Ok(s) /\ Readable(PC(s), n)
         /\ Ok(Peek(s, n).st) <=> Ok(s) /\ Readable(PC(s), n)
         /\ Ok(s) /\ Readable(PC(s), n) => Fetch(s, n).val = ReadAt(s.mem, PC(s), n)
<1>1. CASE n = 0
  BY <1>1 DEF Fetch, Consume, Peek, Result, Readable, ReadAt
<1>2. CASE n # 0
  <2> DEFINE g == MemGet(s, PC(s), n)
  <2>1. Fetch(s, n).st = SetPC(g.st, PC(s) + n) /\ Fetch(s, n).val = g.val /\ Peek(s, n) = g
    BY <1>2 DEF Fetch, Consume, Peek, Result
  <2>2. PC(s) \in Int /\ PC(s) + n \in Int /\ n \in DataSize
    BY <1>2, Pointers DEF DataSize, SIZE_BYTE, SIZE_WORD, SIZE_LONG
  <2>3. g.st \in Machine
    BY <2>2, PassesGet DEF Passes
  <2>4. Ok(SetPC(g.st, PC(s) + n)) <=> Ok(g.st)
    BY <2>2, <2>3, PassesPC DEF Ok
  <2>5. Ok(g.st) => Ok(s) /\ AccessError(PC(s), n) = "none"
    BY <2>2, GetThrough
  <2>6. Ok(s) /\ AccessError(PC(s), n) = "none" =>
          g = Result(s, read_real_mem(s.mem, MASK_ADDR(PC(s)), n))
    BY DEF MemGet
  <2>7. Ok(s) /\ AccessError(PC(s), n) = "none" =>
          Ok(g.st) /\ g.val = read_real_mem(s.mem, MASK_ADDR(PC(s)), n)
    BY <2>6 DEF Result
  <2> HIDE DEF g
  <2> QED
    BY <1>2, <2>1, <2>4, <2>5, <2>7 DEF Readable, ReadAt
<1> QED
  BY <1>1, <1>2

(* Passing the opcode.                                                     *)
LEMMA BeginFacts ==
  ASSUME NEW s \in Machine
  PROVE  /\ Begin(s) \in Machine /\ Begin(s).mem = s.mem /\ Begin(s).sup = s.sup
         /\ Ok(Begin(s)) <=> Ok(s)
         /\ Ok(s) => PC(Begin(s)) = (PC(s) + SIZE_WORD) % Long
         /\ \A q \in RegisterType \ {REG_PC} : Begin(s).reg[q] = s.reg[q]
<1>1. PC(s) + SIZE_WORD \in Int
  BY Pointers DEF SIZE_WORD
<1>2. Walks(s, Begin(s), SIZE_WORD)
  BY WalksBegin
<1> QED
  BY <1>1, <1>2, PassesPC DEF Begin, Walks, OnlyPC, Ok

(* Extension words behind the opcode.                                      *)
LEMMA ExtensionReadable ==
  ASSUME NEW s \in Machine, Ok(s), NEW n \in {0} \cup DataSize
  PROVE  LET e == Fetch(Begin(s), n)
         IN  /\ Ok(e.st) <=> Readable(PC(s) + SIZE_WORD, n)
             /\ Ok(e.st) => e.val = ReadAt(s.mem, PC(s) + SIZE_WORD, n)
<1> DEFINE b == Begin(s)
<1>1. b \in Machine /\ b.mem = s.mem /\ Ok(b) /\ PC(b) = (PC(s) + SIZE_WORD) % Long
  BY BeginFacts
<1>2. PC(s) + SIZE_WORD \in Int
  BY Pointers DEF SIZE_WORD
<1> HIDE DEF b
<1>3. /\ Ok(Fetch(b, n).st) <=> Readable(PC(b), n)
      /\ Readable(PC(b), n) => Fetch(b, n).val = ReadAt(s.mem, PC(b), n)
  BY <1>1, FetchReadable
<1>4. /\ Readable(PC(b), n) <=> Readable(PC(s) + SIZE_WORD, n)
      /\ ReadAt(s.mem, PC(b), n) = ReadAt(s.mem, PC(s) + SIZE_WORD, n)
  BY <1>1, <1>2, ReadableLong
<1> QED
  BY <1>3, <1>4 DEF b

(* The instruction at the program counter is the one decoded.              *)
LEMMA DecodedAt ==
  ASSUME TypeOK, Ok(Fetched.st)
  PROVE  /\ Fetched.st = Ready
         /\ PC(Ready) = PC(cpu) /\ PC(cpu) \in LongVal /\ Readable(PC(cpu), SIZE_WORD)
         /\ InstructionAt(cpu.mem, PC(cpu)) = Decoded /\ Decoded \in Instruction
<1>1. Ready \in Machine /\ Ready.reg = cpu.reg /\ Ready.mem = cpu.mem /\ Ready.sup = cpu.sup
  BY ReadyFacts
<1>2. Fetched = MemGet(Ready, PC(Ready), SIZE_WORD) /\ SIZE_WORD \in DataSize
  BY DEF Fetched, Ready, DataSize
<1>3. PC(Ready) = PC(cpu) /\ PC(Ready) \in LongVal /\ PC(Ready) \in Int
  BY <1>1, Pointers DEF PC, get, Bank, LongVal
<1>4. /\ AccessError(PC(Ready), SIZE_WORD) = "none"
      /\ Fetched.st = Ready
      /\ Fetched.val = read_real_mem(Ready.mem, MASK_ADDR(PC(Ready)), SIZE_WORD)
  BY <1>1, <1>2, <1>3, GetThrough
<1>5. ReadAt(cpu.mem, PC(cpu), SIZE_WORD) = Fetched.val
  BY <1>1, <1>3, <1>4 DEF ReadAt, SIZE_WORD
<1> QED
  BY <1>1, <1>3, <1>4, <1>5, FetchedFacts DEF Readable, InstructionAt, Decoded

(* The displacement of a branch.                                           *)
Displacement(s, i) ==
  IF i.data_size = SIZE_BYTE THEN Result(Begin(s), i.imm) ELSE Immediate(s, i)

(* It is what the bytes behind the opcode hold, and is passed.             *)
LEMMA BranchReads ==
  ASSUME NEW s \in Machine, Ok(s), NEW i \in Instruction
  PROVE  LET e == Displacement(s, i)
         IN  /\ e.st \in Machine /\ e.val \in Int
             /\ Ok(e.st) => PC(e.st) = (PC(s) + (SIZE_WORD + BranchBytes(i))) % Long
             /\ Ok(e.st) <=> Readable(PC(s) + SIZE_WORD, BranchBytes(i))
             /\ Ok(e.st) => e.val = BranchValue(s.mem, PC(s), i)
<1> DEFINE e == Displacement(s, i)
<1>1. CASE i.data_size = SIZE_BYTE
  <2>1. e.st = Begin(s) /\ e.val = i.imm
    BY <1>1 DEF Displacement, Result
  <2>2. SIZE_WORD + 0 = SIZE_WORD
    BY DEF SIZE_WORD
  <2> HIDE DEF e
  <2> QED
    BY <1>1, <2>1, <2>2, BeginFacts, Members DEF Readable, BranchBytes, BranchValue, e
<1>2. CASE i.data_size # SIZE_BYTE
  <2> DEFINE k == ImmediateBytes(i)
             f == Fetch(Begin(s), k)
  <2>1. e = Immediate(s, i)
    BY <1>2 DEF Displacement
  <2>2. Immediate(s, i) = Result(f.st, MASK(f.val, i.data_size))
    BY DEF Immediate, getData, getDataWith, Accessed, ImmediateBytes, DIRECT_DATA,
           DIRECT_ADDR, IMMEDIATE, UNKNOWN
  <2>3. k \in {0} \cup DataSize
    BY ExtensionSizes DEF DataSize, SIZE_BYTE, SIZE_WORD, SIZE_LONG
  <2>4. BranchBytes(i) = k
    BY <1>2 DEF BranchBytes
  <2> HIDE DEF e, k
  <2>5. e.st = f.st /\ e.val = MASK(f.val, i.data_size)
    BY <2>1, <2>2 DEF Result
  <2>6. /\ Ok(f.st) <=> Readable(PC(s) + SIZE_WORD, k)
        /\ Ok(f.st) => f.val = ReadAt(s.mem, PC(s) + SIZE_WORD, k)
    BY <2>3, ExtensionReadable
  <2>7. e.val \in Int
    BY <2>1, SourceReads DEF Reads
  <2>8. Passes(s, e.st, SIZE_WORD + k, TRUE)
    BY <2>1, PassesSource DEF k
  <2> HIDE DEF f
  <2>9. Ok(f.st) => e.val = BranchValue(s.mem, PC(s), i)
    BY <1>2, <2>5, <2>6 DEF BranchValue, k
  <2> QED
    BY <2>4, <2>5, <2>6, <2>7, <2>8, <2>9 DEF Passes, Moves, e
<1> QED
  BY <1>1, <1>2

(* A line just listed says what the bytes of memory say.                   *)
LEMMA NewLineShows ==
  ASSUME TypeOK, Ok(Fetched.st), NEW order, Ok(Listed(order).st)
  PROVE  Shows(cpu.mem, NewLine(Listed(order)))
<1> DEFINE s == Fetched.st
           i == Decoded
           r == Listed(order)
           l == NewLine(r)
           n == ExtensionSize(TextMode(i), i.data_size)
<1>1. /\ s = Ready /\ PC(s) = PC(cpu) /\ PC(cpu) \in LongVal /\ Readable(PC(cpu), SIZE_WORD)
      /\ InstructionAt(cpu.mem, PC(cpu)) = i /\ i \in Instruction
  BY DecodedAt
<1>2. s \in Machine /\ s.mem = cpu.mem /\ Ok(s)
  BY <1>1, ReadyFacts
<1>3. r = disassembly(s, i, order) /\ l.at = PC(cpu) /\ l.next = PC(r.st) /\ l.text = r.val
  BY DEF Listed, NewLine
<1>4. l.next = (l.at + TextBytes(i)) % Long
  BY <1>1, <1>2, <1>3, WalksDisassembly DEF Walks, Moves
<1> HIDE DEF s, i
<1>5. ASSUME i.class \in {"Jmp", "Jsr", "Lea", "Pea"}
      PROVE  /\ Readable(l.at + SIZE_WORD, n)
             /\ l.text = Shown(TextMode(i), i.data_size, ReadAt(cpu.mem, l.at + SIZE_WORD, n))
  <2>1. r = ShownFrom(TextMode(i), i.data_size, Fetch(Begin(s), n))
    BY <1>3, <1>5 DEF disassembly, JmpDisassembly, JsrDisassembly, LeaDisassembly, PeaDisassembly,
       SrcText, DestText, effectiveAddress, TextMode
  <2> HIDE DEF r, l
  <2>2. n \in {0} \cup DataSize
    BY <1>1, TextRoom DEF DataSize, SIZE_BYTE, SIZE_WORD, SIZE_LONG
  <2> HIDE DEF n
  <2> DEFINE e == Fetch(Begin(s), n)
  <2>3. r.st = e.st /\ r.val = Shown(TextMode(i), i.data_size, e.val)
    BY <2>1 DEF ShownFrom, Result
  <2>4. /\ Ok(e.st) <=> Readable(PC(s) + SIZE_WORD, n)
        /\ Ok(e.st) => e.val = ReadAt(s.mem, PC(s) + SIZE_WORD, n)
    BY <1>2, <2>2, ExtensionReadable
  <2>5. Ok(e.st)
    BY <2>3 DEF r
  <2> QED
    BY <1>1, <1>2, <1>3, <2>3, <2>4, <2>5
<1>6. ASSUME i.class = "Bcc"
      PROVE  /\ Readable(l.at + SIZE_WORD, BranchBytes(i))
             /\ l.text.num = (l.at + SIZE_WORD
                                + SignExtend(BranchValue(cpu.mem, l.at, i), i.data_size)) % Long
  <2>1. r = BccDisassembly(s, i)
    BY <1>3, <1>6 DEF disassembly
  <2> DEFINE e == Displacement(s, i)
  <2>2. r.st = e.st /\ r.val.num = (PC(s) + SIZE_WORD + SignExtend(e.val, i.data_size)) % Long
    BY <2>1 DEF BccDisassembly, Displacement, Target, Result, Text
  <2> HIDE DEF e
  <2>3. Ok(e.st)
    BY <2>2
  <2> HIDE DEF r, l
  <2>4. Readable(PC(s) + SIZE_WORD, BranchBytes(i)) /\ e.val = BranchValue(s.mem, PC(s), i)
    BY <1>1, <1>2, <2>3, BranchReads DEF e
  <2> QED
    BY <1>1, <1>2, <1>3, <2>2, <2>4
<1> HIDE DEF l
<1> QED
  BY <1>1, <1>3, <1>4, <1>5, <1>6 DEF Shows, l

(* What the bytes at a readable address decode to.                         *)
LEMMA InstructionInTable ==
  ASSUME NEW m \in [Address -> ByteVal], NEW a \in Int, Readable(a, SIZE_WORD)
  PROVE  InstructionAt(m, a) \in Instruction
<1>1. SIZE_WORD \in DataSize /\ SIZE_WORD # 0
  BY DEF DataSize, SIZE_WORD
<1>2. MASK_ADDR(a) \in Address /\ MASK_ADDR(a) + SIZE_WORD <= MemSize
  BY <1>1, AccessInside DEF Readable
<1>3. ReadAt(m, a, SIZE_WORD) \in WordVal
  BY <1>1, <1>2, ReadRange DEF ReadAt
<1> QED
  BY <1>3, OpcodeTableAssumption DEF InstructionAt, Decode

(***************************************************************************)
(* The inductive invariant of the listing: every line of it still says     *)
(* what the bytes of memory say.                                           *)
(***************************************************************************)
LinesHold == ListInv /\ \A l \in listing : Shows(cpu.mem, l)

(* Nothing is listed at first.                                             *)
LEMMA LinesStart == ListInit => LinesHold
  BY BootAssumption DEF ListInit, ListInv, Init, TypeOK, LinesHold

(* A line is added as it is listed, and dropped when its bytes change.     *)
LEMMA LinesStay == LinesHold /\ [ListNext]_listVars => LinesHold'
<1> SUFFICES ASSUME LinesHold, [ListNext]_listVars PROVE LinesHold'
  OBVIOUS
<1>0. ListInv /\ TypeOK
  BY DEF LinesHold, ListInv
<1>1. CASE ListLine
  <2>1. ListInv' /\ cpu'.mem = cpu.mem
    BY <1>0, <1>1, ListLineKeeps DEF OnlyPC
  <2>2. \A l \in listing' : l \in listing \/ Shows(cpu.mem, l)
    BY <1>0, <1>1, NewLineShows DEF ListLine
  <2>3. \A l \in listing' : Shows(cpu.mem, l)
    BY <2>2 DEF LinesHold
  <2> QED
    BY <2>1, <2>3 DEF LinesHold
<1>2. CASE Rewind
  <2>1. ListInv' /\ cpu'.mem = cpu.mem /\ listing' = listing
    BY <1>0, <1>2, RewindKeeps DEF OnlyPC, Rewind
  <2> QED
    BY <2>1 DEF LinesHold
<1>3. CASE RunStep
  <2>1. cpu' \in Machine /\ cpu.mem \in [Address -> ByteVal]
    BY <1>0, <1>3, StepSafe DEF RunStep, Safe, TypeOK, Machine
  <2>2. ListInv'
    BY <1>0, <1>3, <2>1 DEF RunStep, ListInv, TypeOK
  <2>3. ASSUME NEW l \in listing' PROVE Shows(cpu'.mem, l)
    <3>1. l \in listing /\ \A a \in BytesOf(l) : cpu'.mem[a] = cpu.mem[a]
      BY <1>3, <2>3 DEF RunStep
    <3>2. Shows(cpu.mem, l)
      BY <3>1 DEF LinesHold
    <3>3. l.at \in Int /\ Readable(l.at, SIZE_WORD)
      BY <1>0, <3>1, <3>2 DEF Shows, ListInv
    <3>4. InstructionAt(cpu.mem, l.at) \in Instruction
      BY <2>1, <3>3, InstructionInTable
    <3> QED
      BY <2>1, <3>1, <3>2, <3>4, ShowsStays
  <2> QED
    BY <2>2, <2>3 DEF LinesHold
<1>4. CASE UNCHANGED listVars
  <2>1. cpu' = cpu /\ listing' = listing
    BY <1>4 DEF listVars
  <2> QED
    BY <2>1 DEF LinesHold, ListInv, TypeOK
<1> QED
  BY <1>1, <1>2, <1>3, <1>4 DEF ListNext
-----------------------------------------------------------------------------
(* Sums modulo Long.                                                       *)
LEMMA LongSum ==
  ASSUME NEW a \in Int, NEW b \in Int
  PROVE  /\ (a + (b % Long)) % Long = (a + b) % Long
         /\ ((a % Long) + b) % Long = (a + b) % Long
         /\ (a % Long) % Long = a % Long
         /\ a % Long \in 0 .. Long - 1 /\ a % Long \in Int
<1>1. Long \in Nat \ {0}
  BY Positive
<1>2. a % Long \in 0 .. Long - 1 /\ b % Long \in 0 .. Long - 1
  BY <1>1, ModRange
<1>3. a % Long \in Int /\ b % Long \in Int
  BY <1>1, <1>2
<1>4. ((a % Long) + b) % Long = (a + b) % Long /\ ((b % Long) + a) % Long = (b + a) % Long
  BY <1>1, ModPlus
<1>5. a + (b % Long) = (b % Long) + a /\ a + b = b + a
  BY <1>3
<1>6. (a % Long) % Long = a % Long
  BY <1>1, <1>2, ModSmall
<1> QED
  BY <1>2, <1>3, <1>4, <1>5, <1>6

(* A register the opcode passed over has the value it had.                 *)
LEMMA BeginRegisters ==
  ASSUME TypeOK, NEW r \in 0 .. 15, NEW size
  PROVE  get(Begin(Ready), r, size) = get(cpu, r, size)
<1>1. Ready \in Machine /\ Ready.reg = cpu.reg /\ Ready.sup = cpu.sup
  BY ReadyFacts
<1>2. /\ Begin(Ready).sup = Ready.sup
      /\ \A q \in RegisterType \ {REG_PC} : Begin(Ready).reg[q] = Ready.reg[q]
  BY <1>1, BeginFacts
<1>3. Bank(Begin(Ready), r) = Bank(cpu, r) /\ Bank(cpu, r) \in RegisterType \ {REG_PC}
  BY <1>1, <1>2 DEF Bank, RegisterType, REG_PC, REG_A7, REG_SSP
<1> QED
  BY <1>1, <1>2, <1>3 DEF get

(* The address a line names, before it is reduced: what execute() adds up. *)
LEMMA IndexNamed ==
  ASSUME TypeOK, NEW f \in [reg : 0 .. 15, size : {SIZE_WORD, SIZE_LONG}]
  PROVE  LET x == SignExtend(get(Begin(Ready), f.reg, f.size), f.size)
         IN  /\ x \in Int
             /\ x \in {get(cpu, f.reg, SIZE_LONG),
                       SignExtend(get(cpu, f.reg, SIZE_WORD), SIZE_WORD)}
<1> DEFINE v == get(cpu, f.reg, f.size)
<1>1. f.reg \in 0 .. 15 /\ f.size \in DataSize /\ f.reg \in Named /\ f.size \in {SIZE_WORD, SIZE_LONG}
  BY DEF DataSize, Named, DataReg, AddrReg
<1>2. v \in Nat /\ v \in Int /\ get(Begin(Ready), f.reg, f.size) = v
  BY <1>1, BeginRegisters, GetInt DEF TypeOK
<1>3. SignExtend(v, f.size) \in Int
  BY <1>1, <1>2, MaskInt
<1>4. CASE f.size = SIZE_WORD
  BY <1>2, <1>3, <1>4
<1>5. CASE f.size = SIZE_LONG
  <2>1. v = cpu.reg[Bank(cpu, f.reg)] /\ v \in 0 .. Long - 1
    <3>1. v = cpu.reg[Bank(cpu, f.reg)] /\ Bank(cpu, f.reg) \in RegisterType
      BY <1>1, <1>5, LongRegister, BankSeparate DEF TypeOK
    <3> QED
      BY <3>1 DEF TypeOK, Machine, LongVal
  <2>2. Modulus(SIZE_LONG) = Long /\ Long \in Nat \ {0}
    BY Positive DEF Modulus, SIZE_LONG, SIZE_BYTE, SIZE_WORD
  <2>3. v % Long = v /\ (v + Long * (-1)) % Long = v
    <3>1. -1 \in Int
      OBVIOUS
    <3>2. v % Long = v
      BY <2>1, <2>2, ModSmall
    <3>3. (v + Long * (-1)) % Long = v % Long
      BY <1>2, <2>2, <3>1, ModShift, Zenon
    <3> QED
      BY <3>2, <3>3
  <2>4. v + Long * (-1) = v - Long
    BY <1>2, <2>2
  <2>5. Signed(v, SIZE_LONG) \in {v, v - Long}
    BY <1>2, <2>2, <2>3 DEF Signed, MASK
  <2>6. SignExtend(v, SIZE_LONG) = v
    BY <2>3, <2>4, <2>5 DEF SignExtend
  <2> QED
    BY <1>2, <1>5, <2>6
<1> QED
  BY <1>1, <1>4, <1>5

(* An absolute address is read at the program counter.                     *)
LEMMA AbsoluteControl ==
  ASSUME NEW b, NEW mode \in {ABS_WORD, ABS_LONG}, NEW r
  PROVE  LET n == ExtensionSize(mode, SIZE_LONG)
         IN  getControlAddress(b, mode, r) = MemGet(SetPC(b, PC(b) + n), PC(b), n)
<1>1. mode \notin {INDIRECT, DISPLACEMENT, INDEX, PC_DISPLACEMENT, PC_INDEX}
  BY DEF INDIRECT, DISPLACEMENT, INDEX, PC_DISPLACEMENT, PC_INDEX, ABS_WORD, ABS_LONG
<1> QED
  BY <1>1 DEF getControlAddress

(* A resolved address reads the extension, and moves past it.              *)
LEMMA ControlReadable ==
  ASSUME NEW s \in Machine, Ok(s), NEW mode \in AddressingMode, IS_CONTROL_ADDR(mode),
         NEW r \in 0 .. 15, NEW size \in DataSize,
         Ok(getControlAddress(Begin(s), mode, r).st)
  PROVE  LET n == ExtensionSize(mode, size)
             ext == ReadAt(s.mem, PC(s) + SIZE_WORD, n)
         IN  /\ Readable(PC(s) + SIZE_WORD, n)
             /\ ext \in Int
             /\ getControlAddress(Begin(s), mode, r).val =
                  IF mode \in {ABS_WORD, ABS_LONG} THEN ext
                  ELSE EffectiveAddress(Begin(s), mode, r, SIZE_LONG, ext)
<1> DEFINE n == ExtensionSize(mode, SIZE_LONG)
           b == Begin(s)
           a == getControlAddress(b, mode, r)
           e == Fetch(b, n)
<1>1. ExtensionSize(mode, size) = n
  BY DEF ExtensionSize, IS_CONTROL_ADDR, IMMEDIATE
<1>2. n \in {0} \cup DataSize /\ n \in Int
  BY ExtensionRange DEF DataSize, SIZE_BYTE, SIZE_WORD, SIZE_LONG
<1>3. b \in Machine /\ b.mem = s.mem /\ Ok(b) /\ PC(b) = (PC(s) + SIZE_WORD) % Long /\ PC(b) \in Int
  BY BeginFacts, Pointers
<1>4. /\ Ok(e.st) <=> Readable(PC(s) + SIZE_WORD, n)
      /\ Ok(e.st) => e.val = ReadAt(s.mem, PC(s) + SIZE_WORD, n)
  BY <1>2, ExtensionReadable
<1>5. e.val \in Int
  BY <1>2, <1>3, FetchReads DEF Reads
<1>6. CASE mode \in {ABS_WORD, ABS_LONG}
  <2> DEFINE u == SetPC(b, PC(b) + n)
             g == MemGet(u, PC(b), n)
  <2>0. n = IF mode = ABS_WORD THEN SIZE_WORD ELSE SIZE_LONG
    BY <1>6 DEF ExtensionSize, ABS_WORD, ABS_LONG, DISPLACEMENT, INDEX,
       PC_DISPLACEMENT, PC_INDEX, IMMEDIATE
  <2>1. a = g /\ n \in DataSize
    <3>1. n \in DataSize
      BY <2>0 DEF DataSize
    <3>2. a = g
      BY <1>6, AbsoluteControl
    <3> QED
      BY <3>1, <3>2
  <2> HIDE DEF n
  <2>2. PC(b) + n \in Int /\ n # 0
    BY <1>2, <1>3, <2>1 DEF DataSize, SIZE_BYTE, SIZE_WORD, SIZE_LONG
  <2>3. u \in Machine /\ u.mem = b.mem
    <3>1. REG_PC \in Named /\ SIZE_LONG \in DataSize
      BY DEF Named, DataSize
    <3> QED
      BY <1>3, <2>2, <3>1, SetFacts DEF SetPC
  <2>4. Ok(g.st)
    BY <2>1
  <2> HIDE DEF u
  <2>5. AccessError(PC(b), n) = "none" /\ g.val = read_real_mem(u.mem, MASK_ADDR(PC(b)), n)
    BY <1>3, <2>1, <2>3, <2>4, GetThrough
  <2>6. g.val \in Int
    BY <1>3, <2>1, <2>3, MemGetReads DEF Reads
  <2>7. Readable(PC(b), n) /\ g.val = ReadAt(s.mem, PC(b), n)
    BY <1>3, <2>2, <2>3, <2>5 DEF Readable, ReadAt
  <2>8. PC(s) + SIZE_WORD \in Int
    BY Pointers DEF SIZE_WORD
  <2>9. Readable(PC(s) + SIZE_WORD, n) /\ g.val = ReadAt(s.mem, PC(s) + SIZE_WORD, n)
    BY <1>3, <2>7, <2>8, ReadableLong
  <2> QED
    BY <1>1, <1>6, <2>1, <2>6, <2>9
<1>7. CASE mode \notin {ABS_WORD, ABS_LONG}
  <2>1. mode \in {INDIRECT, DISPLACEMENT, INDEX, PC_DISPLACEMENT, PC_INDEX}
    BY <1>7 DEF AddressingMode, IS_CONTROL_ADDR
  <2>2. a = Resolved(b, mode, r, e)
    BY <1>7, <2>1 DEF getControlAddress
  <2>3. a.st = e.st /\ a.val = EffectiveAddress(b, mode, r, SIZE_LONG, e.val)
    BY <2>2 DEF Resolved, Result
  <2> HIDE DEF e, n
  <2>4. Readable(PC(s) + SIZE_WORD, n) /\ e.val = ReadAt(s.mem, PC(s) + SIZE_WORD, n)
    BY <1>4, <2>3
  <2> QED
    BY <1>1, <1>5, <1>7, <2>3, <2>4
<1> QED
  BY <1>6, <1>7

(* The text of an operand, mode by mode.                                   *)
LEMMA ShownCases ==
  ASSUME NEW size, NEW ext
  PROVE  LET f == IndexField[(ext \div Byte) % Byte]
         IN  /\ Shown(DISPLACEMENT, size, ext) = Text(Signed(ext, SIZE_WORD), NoIndex)
             /\ Shown(PC_DISPLACEMENT, size, ext) = Text(Signed(ext, SIZE_WORD) + 2, NoIndex)
             /\ Shown(INDEX, size, ext) = Text(Signed(ext, SIZE_BYTE), f.reg)
             /\ Shown(PC_INDEX, size, ext) = Text(Signed(ext, SIZE_BYTE) + 2, f.reg)
             /\ \A mode \in {INDIRECT, ABS_WORD, ABS_LONG} : Shown(mode, size, ext) = Text(ext, NoIndex)
<1>1. DISPLACEMENT # PC_DISPLACEMENT /\ DISPLACEMENT # INDEX /\ DISPLACEMENT # PC_INDEX
      /\ PC_DISPLACEMENT # INDEX /\ PC_DISPLACEMENT # PC_INDEX /\ INDEX # PC_INDEX
  BY DEF DISPLACEMENT, INDEX, PC_DISPLACEMENT, PC_INDEX
<1>2. \A mode \in {INDIRECT, ABS_WORD, ABS_LONG} :
        mode \notin {DISPLACEMENT, INDEX, PC_DISPLACEMENT, PC_INDEX, IMMEDIATE}
  BY DEF DISPLACEMENT, INDEX, PC_DISPLACEMENT, PC_INDEX, IMMEDIATE, INDIRECT, ABS_WORD, ABS_LONG
<1>3. IMMEDIATE \notin {DISPLACEMENT, INDEX, PC_DISPLACEMENT, PC_INDEX}
  BY DEF DISPLACEMENT, INDEX, PC_DISPLACEMENT, PC_INDEX, IMMEDIATE
<1>4. Shown(DISPLACEMENT, size, ext) = Text(Signed(ext, SIZE_WORD), NoIndex)
  BY <1>1, <1>3 DEF Shown
<1>5. Shown(PC_DISPLACEMENT, size, ext) = Text(Signed(ext, SIZE_WORD) + 2, NoIndex)
  BY <1>1, <1>3 DEF Shown
<1>6. Shown(INDEX, size, ext) = Text(Signed(ext, SIZE_BYTE), IndexField[(ext \div Byte) % Byte].reg)
  BY <1>1, <1>3 DEF Shown
<1>7. Shown(PC_INDEX, size, ext) = Text(Signed(ext, SIZE_BYTE) + 2, IndexField[(ext \div Byte) % Byte].reg)
  BY <1>1, <1>3 DEF Shown
<1>8. \A mode \in {INDIRECT, ABS_WORD, ABS_LONG} : Shown(mode, size, ext) = Text(ext, NoIndex)
  BY <1>2 DEF Shown
<1> QED
  BY <1>4, <1>5, <1>6, <1>7, <1>8

(* The address jmp, jsr, lea and pea resolve is one the text of the line   *)
(* names.                                                                  *)
LEMMA ControlNamed ==
  ASSUME TypeOK, NEW mode \in AddressingMode, IS_CONTROL_ADDR(mode), NEW r \in 0 .. 15,
         EAFormed(mode, r), NEW size \in DataSize, NEW l, l.at = PC(cpu),
         l.text = Shown(mode, size, ReadAt(cpu.mem, l.at + SIZE_WORD, ExtensionSize(mode, size))),
         Ok(getControlAddress(Begin(Ready), mode, r).st)
  PROVE  /\ getControlAddress(Begin(Ready), mode, r).val \in Int
         /\ getControlAddress(Begin(Ready), mode, r).val % Long \in NamedAddresses(cpu, l, mode, r)
<1> DEFINE s == Ready
           b == Begin(s)
           n == ExtensionSize(mode, size)
           ext == ReadAt(s.mem, PC(s) + SIZE_WORD, n)
           v == getControlAddress(b, mode, r).val
           R == get(cpu, r, SIZE_LONG)
           f == IndexField[(ext \div Byte) % Byte]
           x == SignExtend(get(b, f.reg, f.size), f.size)
<1>1. s \in Machine /\ s.mem = cpu.mem /\ Ok(s) /\ PC(s) = PC(cpu) /\ cpu \in Machine
  <2>1. Ready \in Machine /\ Ready.mem = cpu.mem /\ Ready.reg = cpu.reg /\ cpu \in Machine
    BY ReadyFacts DEF TypeOK
  <2>2. Ok(Ready)
    BY <2>1 DEF Ok, Ready, Machine
  <2> QED
    BY <2>1, <2>2, Pointers
<1>2. /\ ext \in Int
      /\ v = IF mode \in {ABS_WORD, ABS_LONG} THEN ext
             ELSE EffectiveAddress(b, mode, r, SIZE_LONG, ext)
  BY <1>1, ControlReadable
<1>3. l.text = Shown(mode, size, ext) /\ l.at = PC(s) /\ PC(s) \in Int
  BY <1>1, Pointers
<1>4. b \in Machine /\ PC(b) = (PC(s) + 2) % Long
  BY <1>1, BeginFacts DEF SIZE_WORD
<1>5. f \in [reg : 0 .. 15, size : {SIZE_WORD, SIZE_LONG}] /\ f.reg # NoIndex
  <2>1. Byte \in Nat \ {0} /\ ext \div Byte \in Int
    BY <1>2, Positive, DivMod
  <2>2. (ext \div Byte) % Byte \in ByteVal
    BY <2>1, ModRange DEF ByteVal
  <2>3. f \in [reg : 0 .. 15, size : {SIZE_WORD, SIZE_LONG}]
    BY <2>2, IndexFieldAssumption
  <2> HIDE DEF f
  <2>4. f.reg \in 0 .. 15
    BY <2>3
  <2> QED
    BY <2>3, <2>4 DEF NoIndex
<1> HIDE DEF s, ext
<1>6. /\ x \in Int
      /\ x \in {get(cpu, f.reg, SIZE_LONG), SignExtend(get(cpu, f.reg, SIZE_WORD), SIZE_WORD)}
  BY <1>5, IndexNamed DEF s
<1>7. /\ Signed(ext, SIZE_WORD) \in Int /\ Signed(ext, SIZE_BYTE) \in Int
      /\ SIZE_WORD \in DataSize /\ SIZE_LONG \in DataSize
  BY <1>2, MaskInt DEF DataSize
<1>8. mode \in {INDIRECT, DISPLACEMENT, INDEX} => R \in Int /\ get(b, r, SIZE_LONG) = R
  <2> SUFFICES ASSUME mode \in {INDIRECT, DISPLACEMENT, INDEX}
               PROVE  R \in Int /\ get(b, r, SIZE_LONG) = R
    OBVIOUS
  <2>1. r \in Named
    BY DEF Named, DataReg, AddrReg
  <2> QED
    BY <1>1, <1>7, <2>1, BeginRegisters, GetInt DEF s
<1> HIDE DEF b, f, x, R, v
<1>9. mode \in {INDIRECT, DISPLACEMENT, INDEX, PC_DISPLACEMENT, PC_INDEX, ABS_WORD, ABS_LONG}
  BY DEF AddressingMode, IS_CONTROL_ADDR
<1>10. CASE mode \in {ABS_WORD, ABS_LONG}
  <2>1. v = ext /\ l.text = Text(ext, NoIndex)
    BY <1>2, <1>3, <1>10 DEF Shown, ABS_WORD, ABS_LONG, DISPLACEMENT, INDEX, PC_DISPLACEMENT,
       PC_INDEX, IMMEDIATE
  <2>2. l.text.num = ext /\ l.text.idx = NoIndex
    BY <2>1 DEF Text
  <2>3. NamedAddresses(cpu, l, mode, r) = {(0 + ext + 0) % Long}
    BY <1>10, <2>2 DEF NamedAddresses, ABS_WORD, ABS_LONG, PC_DISPLACEMENT, PC_INDEX
  <2>4. 0 + ext + 0 = ext
    BY <1>2
  <2> QED
    BY <1>2, <2>1, <2>3, <2>4 DEF v, b, s
<1>11. CASE mode = INDIRECT
  <2>1. v = (R + 0) % Long
    BY <1>2, <1>8, <1>11 DEF EffectiveAddress, Base, Offset, INDIRECT, ABS_WORD, ABS_LONG, DISPLACEMENT,
       INDEX, PC_DISPLACEMENT, PC_INDEX, PREDECREMENT
  <2>2. ext = 0
    BY <1>11 DEF ext, n, ReadAt, ExtensionSize, INDIRECT, ABS_WORD, ABS_LONG, DISPLACEMENT,
       INDEX, PC_DISPLACEMENT, PC_INDEX, IMMEDIATE
  <2>3. l.text = Text(0, NoIndex)
    BY <1>3, <1>11, <2>2 DEF Shown, INDIRECT, ABS_WORD, ABS_LONG, DISPLACEMENT, INDEX, PC_DISPLACEMENT,
       PC_INDEX, IMMEDIATE
  <2>4. l.text.num = 0 /\ l.text.idx = NoIndex
    BY <2>3 DEF Text
  <2>5. NamedAddresses(cpu, l, mode, r) = {(R + 0 + 0) % Long}
    BY <1>11, <2>4 DEF NamedAddresses, INDIRECT, ABS_WORD, ABS_LONG, PC_DISPLACEMENT, PC_INDEX, R
  <2>6. R + 0 + 0 = R + 0 /\ R + 0 \in Int
    BY <1>8, <1>11
  <2>7. v % Long = v /\ v \in Int
    BY <2>1, <2>6, LongSum
  <2> QED
    BY <2>1, <2>5, <2>6, <2>7 DEF v, b, s
<1>12. CASE mode = DISPLACEMENT
  <2> DEFINE d == Signed(ext, SIZE_WORD)
  <2>1. v = (R + (d % Long)) % Long
    BY <1>2, <1>8, <1>12 DEF EffectiveAddress, Base, Offset, SignExtend, ABS_WORD, ABS_LONG, DISPLACEMENT,
       INDEX, PC_DISPLACEMENT, PC_INDEX, PREDECREMENT
  <2>2. l.text = Text(d, NoIndex)
    BY <1>3, <1>12, ShownCases
  <2> HIDE DEF d
  <2>3. l.text.num = d /\ l.text.idx = NoIndex
    BY <2>2 DEF Text
  <2>4. NamedAddresses(cpu, l, mode, r) = {(R + d + 0) % Long}
    BY <1>12, <2>3 DEF NamedAddresses, DISPLACEMENT, ABS_WORD, ABS_LONG, PC_DISPLACEMENT, PC_INDEX, R
  <2>5. R \in Int /\ d \in Int /\ R + d + 0 = R + d /\ R + d \in Int
    BY <1>7, <1>8, <1>12 DEF d
  <2>6. v = (R + d) % Long
    BY <2>1, <2>5, LongSum
  <2>7. v % Long = v /\ v \in Int
    BY <2>5, <2>6, LongSum
  <2> QED
    BY <2>4, <2>5, <2>6, <2>7 DEF v, b, s
<1>13. CASE mode = PC_DISPLACEMENT
  <2> DEFINE d == Signed(ext, SIZE_WORD)
             p == PC(s)
  <2>1. v = (((p + 2) % Long) + (d % Long)) % Long
    BY <1>2, <1>4, <1>13 DEF EffectiveAddress, Base, Offset, SignExtend, ABS_WORD, ABS_LONG, DISPLACEMENT,
       INDEX, PC_DISPLACEMENT, PC_INDEX, PREDECREMENT
  <2>2. l.text = Text(d + 2, NoIndex)
    BY <1>3, <1>13, ShownCases
  <2>3. l.text.num = d + 2 /\ l.text.idx = NoIndex
    BY <2>2 DEF Text
  <2>4. NamedAddresses(cpu, l, mode, r) = {(p + (d + 2) + 0) % Long}
    BY <1>3, <1>13, <2>3 DEF NamedAddresses, PC_DISPLACEMENT, PC_INDEX, ABS_WORD, ABS_LONG
  <2> HIDE DEF d, p
  <2>5. p \in Int /\ d \in Int /\ p + (d + 2) + 0 = p + 2 + d /\ p + 2 \in Int /\ p + 2 + d \in Int
    BY <1>3, <1>7 DEF d, p
  <2>6. (p + 2) % Long \in Int
    BY <2>5, LongSum
  <2>7. v = (p + 2 + d) % Long
    BY <2>1, <2>5, <2>6, LongSum
  <2>8. v % Long = v /\ v \in Int
    BY <2>5, <2>7, LongSum
  <2> QED
    BY <2>4, <2>5, <2>7, <2>8 DEF v, b, s
<1>14. CASE mode \in {INDEX, PC_INDEX}
  <2> DEFINE d == Signed(ext, SIZE_BYTE)
             p == IF mode = INDEX THEN R ELSE (PC(s) + 2) % Long
             q == IF mode = INDEX THEN R ELSE PC(s) + 2
             num == IF mode = INDEX THEN d ELSE d + 2
             base == IF mode = INDEX THEN R ELSE PC(s)
  <2>1. v = (p + (x + (d % Long))) % Long
    <3>1. Offset(b, mode, r, SIZE_LONG, ext) = x + (d % Long)
      BY <1>14 DEF Offset, IndexOffset, SignExtend, f, x, ABS_WORD, ABS_LONG, DISPLACEMENT,
         INDEX, PC_DISPLACEMENT, PC_INDEX, PREDECREMENT
    <3>2. Base(b, mode, r) = p
      BY <1>4, <1>8, <1>14 DEF Base, INDEX, PC_INDEX, PC_DISPLACEMENT, ABS_WORD, ABS_LONG
    <3> QED
      BY <1>2, <1>14, <3>1, <3>2 DEF EffectiveAddress, INDEX, PC_INDEX, ABS_WORD, ABS_LONG
  <2>2. l.text = Text(num, f.reg)
    BY <1>3, <1>14, ShownCases DEF f, INDEX, PC_INDEX
  <2>3. l.text.num = num /\ l.text.idx = f.reg
    BY <2>2 DEF Text
  <2>4. (base + num + x) % Long \in NamedAddresses(cpu, l, mode, r)
    BY <1>3, <1>5, <1>6, <1>14, <2>3 DEF NamedAddresses, INDEX, PC_INDEX, PC_DISPLACEMENT, ABS_WORD,
       ABS_LONG, R
  <2>5. /\ d \in Int /\ q \in Int /\ base + num + x = q + (x + d) /\ x + d \in Int /\ q + (x + d) \in Int
    BY <1>3, <1>6, <1>7, <1>8, <1>14
  <2> HIDE DEF d
  <2>6. d % Long \in Int /\ (p + (x + (d % Long))) % Long = (q + (x + (d % Long))) % Long
    <3>1. d % Long \in Int
      BY <2>5, LongSum
    <3>2. x + (d % Long) \in Int
      BY <1>6, <3>1
    <3> QED
      BY <2>5, <3>1, <3>2, LongSum
  <2> HIDE DEF q, p, num, base
  <2>7. q + (x + (d % Long)) = (q + x) + (d % Long) /\ q + (x + d) = (q + x) + d /\ q + x \in Int
    BY <1>6, <2>5, <2>6
  <2>8. v = (q + (x + d)) % Long
    BY <2>1, <2>5, <2>6, <2>7, LongSum
  <2>9. v % Long = v /\ v \in Int
    BY <2>5, <2>8, LongSum
  <2> QED
    BY <2>4, <2>5, <2>8, <2>9 DEF v, b, s
<1> QED
  BY <1>9, <1>10, <1>11, <1>12, <1>13, <1>14
-----------------------------------------------------------------------------
(* The text of an instruction passes as many bytes as its execution, where *)
(* the length says how many that is.                                       *)
LEMMA TextLength ==
  ASSUME NEW i \in Instruction, i.class \notin Unmeasured
  PROVE  Length(i) = TextBytes(i)
<1>1. i.class \in Classes /\ WellFormed(i)
  BY DEF Instruction, InstructionsWith, InstructionRecord
<1>2. CASE i.class = "Scc"
  <2>1. i.dest_mode # IMMEDIATE
    BY <1>1, <1>2 DEF WellFormed, IS_DATA_ALTERABLE
  <2>2. DestBytes(i) = ExtensionSize(i.dest_mode, SIZE_BYTE)
    BY <2>1 DEF DestBytes, ExtensionSize
  <2>3. TextBytes(i) = SIZE_WORD + ExtensionSize(i.dest_mode, SIZE_BYTE)
    BY <1>2 DEF TextBytes
  <2> QED
    BY <1>2, <2>2, <2>3, LengthCases
<1>3. CASE i.class = "Link"
  <2>1. SIZE_WORD + SIZE_WORD = 2 * SIZE_WORD
    BY DEF SIZE_WORD
  <2>2. TextBytes(i) = 2 * SIZE_WORD
    BY <1>3 DEF TextBytes
  <2> QED
    BY <1>3, <2>1, <2>2, LengthCases
<1>4. CASE i.class \in {"Add", "Sub", "Adda", "Suba", "Addx", "Subx", "And", "Or", "Eor",
                         "BitManip", "Cmp", "Cmpa", "Move", "Mul", "Div"}
  BY <1>4, LengthCases DEF TextBytes
<1>5. CASE i.class \in {"Addi", "Subi", "Andi", "Ori", "Eori", "Cmpi"}
  BY <1>5, LengthCases DEF TextBytes
<1>6. CASE i.class \in {"Addq", "Subq", "Neg", "Clr", "Moveq", "Ext"}
  BY <1>6, LengthCases DEF TextBytes
<1>7. CASE i.class \in {"Tst", "Lea", "Pea"}
  BY <1>7, LengthCases DEF TextBytes
<1>8. CASE i.class \in {"Nop", "Illegal", "Unlk"}
  BY <1>8, LengthCases DEF TextBytes
<1> QED
  BY <1>1, <1>2, <1>3, <1>4, <1>5, <1>6, <1>7, <1>8 DEF Classes, Unmeasured

(* The instruction about to be executed, and the line that shows it.       *)
Current(l) == /\ TypeOK /\ Ok(Fetched.st) /\ l.at = PC(cpu) /\ Shows(cpu.mem, l)

(* What the line says of the machine and the instruction.                  *)
LEMMA CurrentFacts ==
  ASSUME NEW l, Current(l)
  PROVE  /\ Fetched.st = Ready /\ Ready \in Machine /\ Ok(Ready)
         /\ Ready.mem = cpu.mem /\ Ready.sup = cpu.sup /\ cpu \in Machine
         /\ PC(Ready) = PC(cpu) /\ PC(cpu) \in Int
         /\ Decoded \in Instruction /\ WellFormed(Decoded)
         /\ InstructionAt(cpu.mem, l.at) = Decoded
         /\ l.next = (PC(cpu) + TextBytes(Decoded)) % Long
         /\ TextBytes(Decoded) \in Int
<1>1. TypeOK /\ Ok(Fetched.st) /\ l.at = PC(cpu) /\ Shows(cpu.mem, l)
  BY DEF Current
<1>2. /\ Fetched.st = Ready
      /\ PC(Ready) = PC(cpu)
      /\ InstructionAt(cpu.mem, PC(cpu)) = Decoded /\ Decoded \in Instruction
  BY <1>1, DecodedAt
<1>3. Ready \in Machine /\ Ready.mem = cpu.mem /\ Ready.sup = cpu.sup /\ cpu \in Machine
  BY <1>1, ReadyFacts DEF TypeOK
<1>4. PC(cpu) \in Int
  BY <1>3, Pointers
<1>5. WellFormed(Decoded)
  BY <1>2 DEF Instruction, InstructionsWith
<1>6. TextBytes(Decoded) \in Int
  BY <1>2, TextRoom
<1>7. l.next = (PC(cpu) + TextBytes(Decoded)) % Long
  BY <1>1, <1>2 DEF Shows
<1> QED
  BY <1>1, <1>2, <1>3, <1>4, <1>5, <1>6, <1>7

(* An instruction that does not branch goes on at the next line.           *)
LEMMA MeasuredFollows ==
  ASSUME NEW l, Current(l), Step, Ok(cpu'), Decoded.class \notin Unmeasured
  PROVE  PC(cpu') = l.next
<1>1. Passes(Fetched.st, cpu', Length(Decoded), ~LoadsA7(Decoded))
  BY StepPasses DEF Current
<1>2. PC(cpu') = (PC(Fetched.st) + Length(Decoded)) % Long
  BY <1>1 DEF Passes, Moves
<1>3. Length(Decoded) = TextBytes(Decoded)
  BY CurrentFacts, TextLength
<1> QED
  BY <1>2, <1>3, CurrentFacts

(* The register that goes with the mode of a text of one operand.          *)
TextReg(i) == IF i.class \in {"Lea", "Pea"} THEN i.src_reg ELSE i.dest_reg

(* A control address, resolved for the current instruction.                *)
LEMMA ControlFollows ==
  ASSUME NEW l, Current(l), Decoded.class \in {"Jmp", "Jsr", "Lea", "Pea"}
  PROVE  LET i == Decoded
             a == getControlAddress(Begin(Fetched.st), TextMode(i), TextReg(i))
         IN  /\ a.st \in Machine /\ a.val \in Int
             /\ Ok(a.st) => /\ PC(a.st) = l.next
                            /\ a.val % Long \in NamedAddresses(cpu, l, TextMode(i), TextReg(i))
<1> DEFINE i == Decoded
           s == Ready
           mode == TextMode(i)
           r == TextReg(i)
           a == getControlAddress(Begin(s), mode, r)
<1>1. /\ s \in Machine /\ Fetched.st = s /\ i \in Instruction /\ WellFormed(i) /\ Ok(s)
      /\ s.mem = cpu.mem /\ PC(s) = PC(cpu) /\ InstructionAt(cpu.mem, l.at) = i
      /\ l.next = (PC(cpu) + TextBytes(i)) % Long /\ TypeOK
  BY CurrentFacts DEF Current
<1>2. /\ mode \in AddressingMode /\ r \in 0 .. 15 /\ i.data_size \in DataSize /\ EAFormed(mode, r)
  BY <1>1, Members DEF Operands, TextMode, TextReg
<1>3. IS_CONTROL_ADDR(mode)
  BY <1>1 DEF WellFormed, TextMode
<1>4. /\ l.text = Shown(mode, i.data_size,
                        ReadAt(cpu.mem, l.at + SIZE_WORD, ExtensionSize(mode, i.data_size)))
      /\ l.at = PC(cpu)
  BY <1>1 DEF Shows, Current
<1>5. TextBytes(i) = SIZE_WORD + ExtensionSize(mode, i.data_size)
  BY <1>1, TextRoom
<1>6. a.val \in Int
  BY <1>1, <1>2, BeginFacts, ControlReads DEF Reads
<1> HIDE DEF s, mode, r
<1>7. Passes(s, a.st, SIZE_WORD + ExtensionSize(mode, i.data_size), TRUE)
  BY <1>1, <1>2, <1>3, PassesAddress
<1>8. ASSUME Ok(a.st)
      PROVE  PC(a.st) = l.next /\ a.val % Long \in NamedAddresses(cpu, l, mode, r)
  <2>1. PC(a.st) = l.next
    BY <1>1, <1>5, <1>7, <1>8 DEF Passes, Moves
  <2>2. a.val % Long \in NamedAddresses(cpu, l, mode, r)
    BY <1>1, <1>2, <1>3, <1>4, <1>8, ControlNamed DEF s
  <2> QED
    BY <2>1, <2>2
<1> QED
  BY <1>1, <1>6, <1>7, <1>8 DEF Passes, s, mode, r

(* jmp and jsr go to an address the text names; jsr saves the next line.   *)
LEMMA JumpFollows ==
  ASSUME NEW l, Current(l), Step, Ok(cpu'), Decoded.class \in {"Jmp", "Jsr"}
  PROVE  Follows(cpu, cpu', l, Decoded)
<1> DEFINE i == Decoded
           s == Fetched.st
           a == getControlAddress(Begin(s), i.dest_mode, i.dest_reg)
           named == NamedAddresses(cpu, l, i.dest_mode, i.dest_reg)
<1>1. TextMode(i) = i.dest_mode /\ TextReg(i) = i.dest_reg
  BY DEF TextMode, TextReg
<1>2. /\ a.st \in Machine /\ a.val \in Int
      /\ Ok(a.st) => PC(a.st) = l.next /\ a.val % Long \in named
  BY <1>1, ControlFollows
<1>3. Ok(Fetched.st)
  BY DEF Current
<1>4. CASE i.class = "Jmp"
  <2>1. cpu' = SetPC(a.st, a.val)
    BY <1>3, <1>4, StepExecutes DEF JmpExecute
  <2> HIDE DEF a
  <2>2. Ok(a.st) /\ PC(cpu') = a.val % Long
    BY <1>2, <2>1, PassesPC DEF Ok
  <2> QED
    BY <1>2, <1>4, <2>2 DEF Follows
<1>5. CASE i.class = "Jsr"
  <2>1. cpu' = SetPC(stackPush(a.st, SIZE_LONG, PC(a.st)), a.val)
    BY <1>3, <1>5, StepExecutes DEF JsrExecute
  <2> HIDE DEF a
  <2>2. PC(a.st) \in Int /\ PC(a.st) % Long = PC(a.st)
    BY <1>2, Pointers
  <2>3. /\ Ok(a.st) /\ PC(cpu') = a.val % Long
        /\ TopOfStack(cpu') = PC(a.st) % Long
    BY <1>2, <2>1, <2>2, PushThenJump DEF TopOfStack
  <2> QED
    BY <1>2, <1>5, <2>2, <2>3 DEF Follows
<1> QED
  BY <1>4, <1>5

(* lea and pea give an address the text names.                             *)
LEMMA AddressFollows ==
  ASSUME NEW l, Current(l), Step, Ok(cpu'), Decoded.class \in {"Lea", "Pea"}
  PROVE  Follows(cpu, cpu', l, Decoded)
<1> DEFINE i == Decoded
           s == Fetched.st
           a == getControlAddress(Begin(s), i.src_mode, i.src_reg)
           named == NamedAddresses(cpu, l, i.src_mode, i.src_reg)
<1>1. TextMode(i) = i.src_mode /\ TextReg(i) = i.src_reg
  BY DEF TextMode, TextReg
<1>2. /\ a.st \in Machine /\ a.val \in Int
      /\ Ok(a.st) => a.val % Long \in named
  BY <1>1, ControlFollows
<1>3. Ok(Fetched.st)
  BY DEF Current
<1>4. PC(cpu') = l.next
  BY MeasuredFollows DEF Unmeasured
<1>5. CASE i.class = "Lea"
  <2>1. cpu' = setData(a.st, DIRECT_ADDR, i.dest_reg, SIZE_LONG, a.val)
    BY <1>3, <1>5, StepExecutes DEF LeaExecute
  <2> HIDE DEF a
  <2>2. cpu' = set(a.st, i.dest_reg, SIZE_LONG, a.val)
    BY <2>1 DEF setData, setDataWith, StoreAt, DIRECT_ADDR, DIRECT_DATA, ABS_WORD, PC_DISPLACEMENT,
       PC_INDEX, IMMEDIATE, UNKNOWN
  <2>3. i.dest_reg \in Named /\ SIZE_LONG \in DataSize
    BY <1>5, CurrentFacts DEF WellFormed, Named, DataSize
  <2>4. Ok(a.st)
    BY <1>2, <2>2, <2>3, SetFacts DEF Ok
  <2>5. get(cpu', i.dest_reg, SIZE_LONG) = a.val % Long
    BY <1>2, <2>2, <2>3, <2>4, GetAfterSet, MaskLong
  <2> QED
    BY <1>2, <1>4, <1>5, <2>4, <2>5 DEF Follows
<1>6. CASE i.class = "Pea"
  <2>1. cpu' = stackPush(a.st, SIZE_LONG, a.val)
    BY <1>3, <1>6, StepExecutes DEF PeaExecute
  <2> HIDE DEF a
  <2>2. Ok(a.st) /\ TopOfStack(cpu') = a.val % Long
    BY <1>2, <2>1, PushStores DEF TopOfStack
  <2> QED
    BY <1>2, <1>4, <1>6, <2>2 DEF Follows
<1> QED
  BY <1>5, <1>6

(* A branch goes to the target the text shows; a conditional one may also  *)
(* go on at the next line.                                                 *)
LEMMA BranchFollows ==
  ASSUME NEW l, Current(l), Step, Ok(cpu'), Decoded.class = "Bcc"
  PROVE  Follows(cpu, cpu', l, Decoded)
<1> DEFINE i == Decoded
           s == Ready
           e == Displacement(s, i)
           w == PC(cpu) + SIZE_WORD
           pc == MASK(w, SIZE_LONG)
           d == SignExtend(e.val, i.data_size)
<1>1. /\ Fetched.st = s /\ s \in Machine /\ Ok(s) /\ s.mem = cpu.mem /\ PC(s) = PC(cpu) /\ PC(cpu) \in Int
      /\ i \in Instruction /\ InstructionAt(cpu.mem, l.at) = i
      /\ l.next = (PC(cpu) + TextBytes(i)) % Long
  BY CurrentFacts
<1>2. l.text.num = (w + SignExtend(BranchValue(cpu.mem, PC(cpu), i), i.data_size)) % Long
  BY <1>1 DEF Shows, Current
<1>3. TextBytes(i) = SIZE_WORD + BranchBytes(i)
  BY <1>1, TextRoom
<1>4. cpu' = Branch(e, i, pc)
  <2>1. cpu' = BccExecute(Fetched.st, i)
    BY StepExecutes DEF Current
  <2> QED
    BY <1>1, <2>1 DEF BccExecute, Displacement
<1>5. i.data_size \in DataSize /\ i.kind \in 0 .. 15
  BY <1>1, Members DEF Instruction, InstructionsWith, InstructionRecord
<1> HIDE DEF s, i, e
<1>6. /\ e.st \in Machine /\ e.val \in Int
      /\ Ok(e.st) => PC(e.st) = l.next /\ e.val = BranchValue(cpu.mem, PC(cpu), i)
  BY <1>1, <1>3, BranchReads DEF e
<1>7. w \in Int /\ pc = w % Long
  BY <1>1, MaskLong DEF SIZE_WORD
<1>8. d \in Int
  BY <1>5, <1>6, MaskInt
<1> HIDE DEF w, pc
<1>9. Ok(e.st) => l.text.num = (w + d) % Long
  BY <1>2, <1>6
<1> HIDE DEF d
<1>10. pc \in Int /\ pc + d \in Int /\ (pc + d) % Long = (w + d) % Long
  <2>1. pc \in Int /\ (pc + d) % Long = (w + d) % Long
    BY <1>7, <1>8, LongSum
  <2> QED
    BY <1>8, <2>1
<1>11. ASSUME cpu' = SetPC(e.st, pc + d)
       PROVE  PC(cpu') = l.text.num
  <2>1. Ok(e.st) /\ PC(cpu') = (pc + d) % Long
    BY <1>6, <1>10, <1>11, PassesPC DEF Ok
  <2> QED
    BY <1>9, <1>10, <2>1
<1>12. CASE i.kind = 0
  <2>1. cpu' = SetPC(e.st, pc + d)
    BY <1>4, <1>12 DEF Branch, d
  <2> QED
    BY <1>11, <2>1 DEF Follows, i
<1>13. CASE i.kind = 1
  <2>1. cpu' = SetPC(stackPush(e.st, SIZE_LONG, pc), pc + d)
    BY <1>4, <1>13 DEF Branch, d
  <2>2. Ok(e.st) /\ PC(cpu') = (pc + d) % Long
    BY <1>6, <1>10, <2>1, PushThenJump
  <2> QED
    BY <1>9, <1>10, <2>2 DEF Follows, i
<1>14. CASE i.kind \notin {0, 1}
  <2>1. cpu' = SetPC(e.st, pc + d) \/ cpu' = e.st
    BY <1>4, <1>14 DEF Branch, d
  <2>2. i.kind > 1
    BY <1>5, <1>14
  <2>3. cpu' = e.st => PC(cpu') = l.next
    BY <1>6
  <2> QED
    BY <1>11, <2>1, <2>2, <2>3 DEF Follows, i
<1> QED
  BY <1>12, <1>13, <1>14

(* A shift sets the flags, and nothing else.                               *)
LEMMA ShiftSetsFlags ==
  ASSUME NEW s, NEW i, NEW u
  PROVE  \E f : BitShiftExecute(s, i, u) = SetFlags(Dest(Begin(s), i).st, f)
  BY DEF BitShiftExecute, Shift

(* A shift of an operand without extension words goes on at the next line. *)
LEMMA ShiftFollows ==
  ASSUME NEW l, Current(l), Step, Ok(cpu'), Decoded.class = "BitShift",
         ~ShiftWithExtension(Decoded)
  PROVE  PC(cpu') = l.next
<1> DEFINE i == Decoded
           s == Fetched.st
           d == Dest(Begin(s), i)
<1>1. /\ s \in Machine /\ PC(s) = PC(cpu) /\ i \in Instruction
      /\ l.next = (PC(cpu) + TextBytes(i)) % Long
  BY CurrentFacts
<1>2. DestBytes(i) = 0
  BY <1>1, ExtensionSizes DEF ShiftWithExtension, DestBytes
<1>3. TextBytes(i) = SIZE_WORD
  BY <1>2 DEF TextBytes, SIZE_WORD
<1>4. PICK u \in Undefined : cpu' = BitShiftExecute(s, i, u)
  BY StepExecutes DEF Current
<1>5. \E f : cpu' = SetFlags(d.st, f)
  BY <1>4, ShiftSetsFlags
<1> HIDE DEF s, i
<1>6. Passes(s, d.st, SIZE_WORD, TRUE)
  <2>1. Passes(s, Begin(s), SIZE_WORD, TRUE)
    BY <1>1, PassesBegin
  <2>2. SIZE_WORD \in Int
    BY DEF SIZE_WORD
  <2> QED
    BY <1>1, <2>1, <2>2, PassesDest
<1> HIDE DEF d
<1>7. PICK f : cpu' = SetFlags(d.st, f)
  BY <1>5
<1>8. cpu'.exc = d.st.exc /\ cpu'.reg = d.st.reg
  BY <1>6, <1>7 DEF SetFlags, Passes, Machine
<1>9. Ok(d.st) /\ PC(cpu') = PC(d.st)
  BY <1>8 DEF Ok, PC, get, Bank, REG_PC, REG_A7
<1> QED
  BY <1>1, <1>3, <1>6, <1>9 DEF Passes, Moves

(* A listed instruction that executes follows its line.                    *)
LEMMA LineFollows ==
  ASSUME NEW l, Current(l), Step, Ok(cpu'), ~ShiftWithExtension(Decoded)
  PROVE  Follows(cpu, cpu', l, Decoded)
<1>1. CASE Decoded.class \in {"Jmp", "Jsr"}
  BY <1>1, JumpFollows
<1>2. CASE Decoded.class \in {"Lea", "Pea"}
  BY <1>2, AddressFollows
<1>3. CASE Decoded.class = "Bcc"
  BY <1>3, BranchFollows
<1>4. CASE Decoded.class = "Rts"
  BY <1>4 DEF Follows
<1>5. CASE Decoded.class \notin {"Jmp", "Jsr", "Lea", "Pea", "Bcc", "Rts"}
  <2>1. PC(cpu') = l.next
    BY <1>5, MeasuredFollows, ShiftFollows DEF Unmeasured
  <2> QED
    BY <1>5, <2>1 DEF Follows
<1> QED
  BY <1>1, <1>2, <1>3, <1>4, <1>5
-----------------------------------------------------------------------------
(* After an exception nothing changes any more.                            *)
LEMMA ThrownStays ==
  ASSUME NEW s, ~Ok(s)
  PROVE  /\ \A r, size, v : set(s, r, size, v) = s
         /\ \A v : SetPC(s, v) = s /\ SetFlags(s, v) = s /\ Throw(s, v) = s
         /\ \A a, n : MemGet(s, a, n).st = s
         /\ \A a, n, v : MemSet(s, a, n, v) = s
         /\ \A n : Peek(s, n).st = s /\ Fetch(s, n).st = s
         /\ \A mode, r, a, size : Bump(s, mode, r, a, size) = s
         /\ \A mode, r, size : /\ getData(s, mode, r, size).st = s
                               /\ getDataSilent(s, mode, r, size).st = s
         /\ \A mode, r, size, v : setData(s, mode, r, size, v) = s
         /\ \A n, v : stackPush(s, n, v) = s
<1>1. \A r, size, v : set(s, r, size, v) = s
  BY DEF set
<1>2. \A v : SetPC(s, v) = s /\ SetFlags(s, v) = s /\ Throw(s, v) = s
  BY <1>1 DEF SetPC, SetFlags, Throw
<1>3. \A a, n : MemGet(s, a, n).st = s
  BY DEF MemGet, Result
<1>4. \A a, n, v : MemSet(s, a, n, v) = s
  BY DEF MemSet
<1>5. \A n : Peek(s, n).st = s /\ Fetch(s, n).st = s
  BY <1>2, <1>3 DEF Peek, Fetch, Consume, Result
<1>6. \A mode, r, a, size : Bump(s, mode, r, a, size) = s
  BY <1>1 DEF Bump
<1>7. \A mode, r, size : getData(s, mode, r, size).st = s
  <2> TAKE mode, r, size
  <2> DEFINE e == Fetch(s, ExtensionSize(mode, size))
             a == EffectiveAddress(s, mode, r, size, e.val)
  <2>1. e.st = s
    BY <1>5
  <2> HIDE DEF a
  <2>2. Loaded(e.st, mode, r, a, size).st = s
    BY <1>3, <1>6, <2>1 DEF Loaded, Bumped, Result
  <2> HIDE DEF e
  <2>3. Accessed(s, mode, r, size, e, Loaded(e.st, mode, r, a, size)).st = s
    BY <2>1, <2>2 DEF Accessed, Result
  <2> QED
    BY <2>3 DEF getData, getDataWith, e, a
<1>8. \A mode, r, size : getDataSilent(s, mode, r, size).st = s
  <2> TAKE mode, r, size
  <2> DEFINE e == Peek(s, ExtensionSize(mode, size))
             a == SignedAddress(s, mode, r, size, e)
  <2>1. e.st = s
    BY <1>5
  <2> HIDE DEF a
  <2>2. MemGet(e.st, a, size).st = s
    BY <1>3, <2>1
  <2> HIDE DEF e
  <2>3. Accessed(s, mode, r, size, e, MemGet(e.st, a, size)).st = s
    BY <2>1, <2>2 DEF Accessed, Result
  <2> QED
    BY <2>3 DEF getDataSilent, getDataSilentWith, e, a
<1>9. \A mode, r, size, v : setData(s, mode, r, size, v) = s
  <2> TAKE mode, r, size, v
  <2> DEFINE n == ExtensionSize(mode, size)
             p == Peek(s, n)
             a == SignedAddress(s, mode, r, size, p)
  <2>1. p.st = s /\ Consume(s, n, p).st = s
    BY <1>5 DEF Fetch
  <2> HIDE DEF a, p
  <2>2. StoreAt(s, mode, r, size, v, p, a) = s
    BY <1>1, <1>2, <1>4, <1>6, <2>1 DEF StoreAt
  <2> QED
    BY <2>2 DEF setData, setDataWith, a, p
<1>10. \A n, v : stackPush(s, n, v) = s
  BY <1>1, <1>4 DEF stackPush
<1> QED
  BY <1>1, <1>2, <1>3, <1>4, <1>5, <1>6, <1>7, <1>8, <1>9, <1>10

(* The modes that have an extension.                                       *)
LEMMA ExtendedModes ==
  ASSUME NEW mode \in AddressingMode, NEW size, ExtensionSize(mode, size) # 0
  PROVE  mode \in {DISPLACEMENT, INDEX, PC_DISPLACEMENT, PC_INDEX, ABS_WORD, ABS_LONG, IMMEDIATE}
  BY DEF ExtensionSize

(* An operand that was accessed had its extension read.                    *)
LEMMA OperandReadable ==
  ASSUME NEW s \in Machine, NEW mode \in AddressingMode, NEW r, NEW size \in DataSize
  PROVE  LET n == ExtensionSize(mode, size)
         IN  /\ Ok(getData(s, mode, r, size).st) => Ok(s) /\ Readable(PC(s), n)
             /\ Ok(getDataSilent(s, mode, r, size).st) => Ok(s) /\ Readable(PC(s), n)
             /\ IS_MEMORY_ALTERABLE(mode) =>
                  \A v : Ok(setData(s, mode, r, size, v)) => Ok(s) /\ Readable(PC(s), n)
<1> DEFINE n == ExtensionSize(mode, size)
           p == Peek(s, n)
           e == Fetch(s, n)
<1>1. n \in {0} \cup DataSize
  BY ExtensionRange DEF DataSize, SIZE_BYTE, SIZE_WORD, SIZE_LONG
<1>2. CASE n = 0
  BY <1>2, ThrownStays DEF Readable
<1>3. CASE n # 0
  <2>1. mode \in {DISPLACEMENT, INDEX, PC_DISPLACEMENT, PC_INDEX, ABS_WORD, ABS_LONG, IMMEDIATE}
    BY <1>3, ExtendedModes
  <2>2. mode \notin {DIRECT_DATA, DIRECT_ADDR, UNKNOWN}
    BY <2>1 DEF DISPLACEMENT, INDEX, PC_DISPLACEMENT, PC_INDEX, ABS_WORD, ABS_LONG, IMMEDIATE,
       DIRECT_DATA, DIRECT_ADDR, UNKNOWN
  <2> HIDE DEF n
  <2>3. /\ Ok(e.st) => Ok(s) /\ Readable(PC(s), n)
        /\ Ok(p.st) => Ok(s) /\ Readable(PC(s), n)
    BY <1>1, FetchReadable
  <2>4. getData(s, mode, r, size) = getDataWith(s, mode, r, size, e)
    BY DEF getData, n
  <2>5. getDataSilent(s, mode, r, size) = getDataSilentWith(s, mode, r, size, p)
    BY DEF getDataSilent, n
  <2>6. \A v : setData(s, mode, r, size, v) =
                 StoreAt(s, mode, r, size, v, p, SignedAddress(s, mode, r, size, p))
    BY DEF setData, setDataWith, n
  <2>7. e = Consume(s, n, p)
    BY DEF Fetch
  <2> HIDE DEF e, p
  <2>8. Ok(getData(s, mode, r, size).st) => Ok(e.st)
    <3> DEFINE a == EffectiveAddress(s, mode, r, size, e.val)
    <3>1. getData(s, mode, r, size).st = e.st \/ getData(s, mode, r, size) = Loaded(e.st, mode, r, a, size)
      BY <2>2, <2>4 DEF getDataWith, Accessed, Result
    <3> HIDE DEF a
    <3>2. ~Ok(e.st) => Loaded(e.st, mode, r, a, size).st = e.st
      BY ThrownStays DEF Loaded, Bumped, Result
    <3> QED
      BY <3>1, <3>2
  <2>9. Ok(getDataSilent(s, mode, r, size).st) => Ok(p.st)
    <3> DEFINE a == SignedAddress(s, mode, r, size, p)
    <3>1. \/ getDataSilent(s, mode, r, size).st = p.st
          \/ getDataSilent(s, mode, r, size) = MemGet(p.st, a, size)
      BY <2>2, <2>5 DEF getDataSilentWith, Accessed, Result
    <3> HIDE DEF a
    <3> QED
      BY <3>1, ThrownStays
  <2>10. ASSUME IS_MEMORY_ALTERABLE(mode), NEW v, Ok(setData(s, mode, r, size, v))
         PROVE  Ok(e.st) \/ Ok(p.st)
    <3> DEFINE a == SignedAddress(s, mode, r, size, p)
    <3>1. mode \notin {PC_DISPLACEMENT, PC_INDEX, IMMEDIATE, UNKNOWN}
      BY <2>10 DEF IS_MEMORY_ALTERABLE
    <3>2. CASE mode = ABS_WORD
      <4>1. setData(s, mode, r, size, v) = SetPC(MemSet(p.st, a, size, v), PC(s) + n)
        BY <2>2, <2>6, <3>1, <3>2 DEF StoreAt, n
      <4> HIDE DEF a
      <4> QED
        BY <2>10, <4>1, ThrownStays
    <3>3. CASE mode # ABS_WORD
      <4>1. setData(s, mode, r, size, v) = Bump(MemSet(e.st, a, size, v), mode, r, a, size)
        BY <2>2, <2>6, <2>7, <3>1, <3>3 DEF StoreAt, n
      <4> HIDE DEF a
      <4> QED
        BY <2>10, <4>1, ThrownStays
    <3> QED
      BY <3>2, <3>3
  <2> QED
    BY <2>3, <2>8, <2>9, <2>10 DEF n
<1> QED
  BY <1>2, <1>3

(* The operands the classes start with.                                    *)
LEMMA SourceReadable ==
  ASSUME NEW s \in Machine, Ok(s), NEW i \in Instruction
  PROVE  /\ Source(s, i).st \in Machine /\ Immediate(s, i).st \in Machine
         /\ Ok(Source(s, i).st) =>
              /\ Readable(PC(s) + SIZE_WORD, SourceBytes(i))
              /\ PC(Source(s, i).st) = (PC(s) + (SIZE_WORD + SourceBytes(i))) % Long
         /\ Ok(Immediate(s, i).st) =>
              /\ Readable(PC(s) + SIZE_WORD, ImmediateBytes(i))
              /\ PC(Immediate(s, i).st) = (PC(s) + (SIZE_WORD + ImmediateBytes(i))) % Long
<1> DEFINE b == Begin(s)
<1>1. b \in Machine /\ PC(b) = (PC(s) + SIZE_WORD) % Long /\ PC(s) + SIZE_WORD \in Int
  BY BeginFacts, Pointers DEF SIZE_WORD
<1>2. i.data_size \in DataSize /\ i.src_mode \in AddressingMode /\ IMMEDIATE \in AddressingMode
  BY Members DEF Operands, AddressingMode
<1>3. \A n : Readable(PC(b), n) => Readable(PC(s) + SIZE_WORD, n)
  BY <1>1, ReadableLong
<1>4. /\ Passes(s, Source(s, i).st, SIZE_WORD + SourceBytes(i), TRUE)
      /\ Passes(s, Immediate(s, i).st, SIZE_WORD + ImmediateBytes(i), TRUE)
  BY PassesSource
<1>5. /\ Ok(Source(s, i).st) => Readable(PC(b), SourceBytes(i))
      /\ Ok(Immediate(s, i).st) => Readable(PC(b), ImmediateBytes(i))
  BY <1>1, <1>2, OperandReadable DEF Source, Immediate, SourceBytes, ImmediateBytes
<1> QED
  BY <1>3, <1>4, <1>5 DEF Passes, Moves

(* What follows the reads ends in the same exception.                      *)
LEMMA ThrownOperands ==
  ASSUME NEW o, ~Ok(o.st), NEW i
  PROVE  /\ \A r : Store(o.st, i, r) = o.st /\ StoreLong(o.st, i, r) = o.st
         /\ \A r : Arith(o, i, r) = o.st /\ Logic(o, i, r) = o.st
         /\ \A s, r : ExtendedArith(s, o, i, r) = o.st
         /\ ChangeBit(o, i) = o.st /\ Compared(o, i) = o.st
         /\ \A u : Multiply(o, i, u) = o.st /\ Divide(o, i, u) = o.st
<1>1. \A r : Store(o.st, i, r) = o.st /\ StoreLong(o.st, i, r) = o.st
  BY ThrownStays DEF Store, StoreLong
<1>2. \A f : SetFlags(o.st, f) = o.st /\ Throw(o.st, f) = o.st
  BY ThrownStays
<1>3. \A r : Arith(o, i, r) = o.st /\ Logic(o, i, r) = o.st
  BY <1>1, <1>2 DEF Arith, Logic, Describe
<1>4. \A s, r : ExtendedArith(s, o, i, r) = o.st
  BY <1>1, <1>2 DEF ExtendedArith
<1>5. ChangeBit(o, i) = o.st /\ Compared(o, i) = o.st
  BY <1>1, <1>2 DEF ChangeBit, Compared
<1>6. \A u : Multiply(o, i, u) = o.st
  BY <1>1, <1>2 DEF Multiply
<1>7. \A u : Divide(o, i, u) = o.st
  BY <1>1, <1>2 DEF Divide
<1> QED
  BY <1>1, <1>3, <1>4, <1>5, <1>6, <1>7

(* Reading the destination reads its extension.                            *)
LEMMA SecondReadable ==
  ASSUME NEW a, a.st \in Machine, NEW i \in Instruction
  PROVE  /\ Ok(ReadBoth(a, i).st) => Ok(a.st) /\ Readable(PC(a.st), DestBytes(i))
         /\ Ok(Compare(a, i)) => Ok(a.st) /\ Readable(PC(a.st), DestBytes(i))
<1> DEFINE d == getData(a.st, i.dest_mode, i.dest_reg, i.data_size)
           o == Pair(a, d)
<1>1. i.data_size \in DataSize /\ i.dest_mode \in AddressingMode
  BY Members DEF Operands
<1>2. Ok(ReadBoth(a, i).st) => Ok(a.st) /\ Readable(PC(a.st), DestBytes(i))
  BY <1>1, OperandReadable DEF ReadBoth, Pair, Dest, DestBytes
<1>3. Ok(d.st) => Ok(a.st) /\ Readable(PC(a.st), DestBytes(i))
  BY <1>1, OperandReadable DEF DestBytes
<1>4. o.st = d.st
  BY DEF Pair
<1>5. Compare(a, i) = Compared(o, i)
  BY DEF Compare
<1> HIDE DEF d, o
<1>6. Ok(Compare(a, i)) => Ok(d.st)
  BY <1>4, <1>5, ThrownOperands
<1> QED
  BY <1>2, <1>3, <1>6

(* The classes with a source and a destination, and with an immediate.     *)
TwoOperands ==
  { "Add", "Adda", "Addx", "And", "BitManip", "Cmp", "Cmpa", "Div", "Eor",
    "Move", "Mul", "Or", "Sub", "Suba", "Subx" }

WithImmediate == {"Addi", "Andi", "Cmpi", "Eori", "Ori", "Subi"}

(* They have read both extensions when they succeed.                       *)
LEMMA TwoOperandsRead ==
  ASSUME TypeOK, Step, Ok(Fetched.st), Ok(cpu'), Decoded.class \in TwoOperands
  PROVE  LET a == Source(Fetched.st, Decoded)
         IN  Ok(a.st) /\ Readable(PC(a.st), DestBytes(Decoded))
<1> DEFINE s == Fetched.st
           i == Decoded
           a == Source(s, i)
           o == ReadBoth(a, i)
<1>1. s \in Machine /\ i \in Instruction /\ WellFormed(i)
  BY FetchedFacts DEF Instruction, InstructionsWith
<1>2. o = FromSource(s, i)
  BY DEF FromSource
<1>3. a.st \in Machine
  BY <1>1, SourceReadable
<1>4. CASE i.class \in {"Add", "Adda", "Addx", "And", "BitManip", "Eor", "Or", "Sub", "Suba", "Subx"}
  <2>1. \/ \E r : cpu' = Arith(o, i, r)
        \/ \E r : cpu' = Logic(o, i, r)
        \/ \E r : cpu' = ExtendedArith(s, o, i, r)
        \/ \E r : cpu' = Store(o.st, i, r)
        \/ cpu' = ChangeBit(o, i)
    <3>1. /\ i.class = "Add" => cpu' = Arith(o, i, Sum(o))
          /\ i.class = "Sub" => cpu' = Arith(o, i, Difference(o))
      BY <1>2, StepExecutes DEF AddExecute, SubExecute, AddTo, SubtractFrom
    <3>2. /\ i.class = "Adda" => cpu' = Store(o.st, i, Sum(o))
          /\ i.class = "Suba" => cpu' = Store(o.st, i, Difference(o))
      BY <1>2, StepExecutes DEF AddaExecute, SubaExecute, AddToAddress, SubtractFromAddress
    <3>3. /\ i.class = "Addx" => cpu' = ExtendedArith(s, o, i, (o.src + o.val + Extend(s)) % Long)
          /\ i.class = "Subx" => cpu' = ExtendedArith(s, o, i, (o.val - o.src - Extend(s)) % Long)
      BY <1>2, StepExecutes DEF AddxExecute, SubxExecute, AddExtended, SubtractExtended
    <3>4. /\ i.class = "And" => cpu' = Logic(o, i, Bitwise("and", o.src, o.val))
          /\ i.class = "Or" => cpu' = Logic(o, i, Bitwise("or", o.src, o.val))
          /\ i.class = "Eor" => cpu' = Logic(o, i, Bitwise("eor", o.src, o.val))
      BY <1>2, StepExecutes DEF AndExecute, OrExecute, EorExecute, Combine
    <3>5. i.class = "BitManip" => cpu' = ChangeBit(o, i)
      BY <1>2, StepExecutes DEF BitManipExecute
    <3> HIDE DEF o, i, s
    <3> QED
      BY <1>4, <3>1, <3>2, <3>3, <3>4, <3>5
  <2> HIDE DEF o
  <2>2. Ok(o.st)
    BY <2>1, ThrownOperands
  <2> QED
    BY <1>1, <1>3, <2>2, SecondReadable DEF o
<1>5. CASE i.class \in {"Div", "Mul"}
  <2>1. \E u \in Undefined : cpu' = Multiply(o, i, u) \/ cpu' = Divide(o, i, u)
    BY <1>2, <1>5, StepExecutes DEF MulExecute, DivExecute
  <2> HIDE DEF o
  <2>2. Ok(o.st)
    BY <2>1, ThrownOperands
  <2> QED
    BY <1>1, <1>3, <2>2, SecondReadable DEF o
<1>6. CASE i.class = "Cmp"
  <2>1. cpu' = Compare(a, i)
    BY <1>6, StepExecutes DEF CmpExecute
  <2> QED
    BY <1>1, <1>3, <2>1, SecondReadable
<1>7. CASE i.class = "Cmpa"
  <2> DEFINE w == Widened(a, i.data_size)
  <2>1. cpu' = Compare(w, i)
    BY <1>7, StepExecutes DEF CmpaExecute
  <2>2. w.st = a.st
    BY DEF Widened, Result
  <2> HIDE DEF w, a
  <2>3. Ok(w.st) /\ Readable(PC(w.st), DestBytes(i))
    BY <1>1, <1>3, <2>1, <2>2, SecondReadable
  <2> QED
    BY <2>2, <2>3 DEF a
<1>8. CASE i.class = "Move"
  <2>1. cpu' = MoveTo(a, i)
    BY <1>8, StepExecutes DEF MoveExecute
  <2>2. CASE i.dest_mode = DIRECT_ADDR
    <3>1. DestBytes(i) = 0
      BY <2>2 DEF DestBytes, ExtensionSize, DIRECT_ADDR, DISPLACEMENT, INDEX, PC_DISPLACEMENT,
         PC_INDEX, ABS_WORD, ABS_LONG, IMMEDIATE
    <3> DEFINE v == Widened(a, i.data_size).val
    <3>2. cpu' = StoreLong(a.st, i, v)
      BY <2>1, <2>2 DEF MoveTo
    <3> HIDE DEF a, v
    <3>3. Ok(a.st)
      BY <3>2, ThrownOperands
    <3> QED
      BY <3>1, <3>3 DEF Readable, a
  <2>3. CASE i.dest_mode # DIRECT_ADDR
    <3>1. cpu' = Describe(Store(a.st, i, a.val), i, a.val)
      BY <2>1, <2>3 DEF MoveTo
    <3> HIDE DEF a
    <3>2. Ok(Store(a.st, i, a.val))
      BY <3>1, ThrownStays DEF Describe
    <3>3. IS_MEMORY_ALTERABLE(i.dest_mode) /\ i.data_size \in DataSize /\ i.dest_mode \in AddressingMode
      BY <1>1, <1>8, Members DEF WellFormed, Operands
    <3>4. Ok(a.st) /\ Readable(PC(a.st), DestBytes(i))
      BY <1>3, <3>2, <3>3, OperandReadable DEF Store, DestBytes
    <3> QED
      BY <3>4 DEF a
  <2> QED
    BY <2>2, <2>3
<1> QED
  BY <1>4, <1>5, <1>6, <1>7, <1>8 DEF TwoOperands

(* They have read the immediate and the extension.                         *)
LEMMA WithImmediateRead ==
  ASSUME TypeOK, Step, Ok(Fetched.st), Ok(cpu'), Decoded.class \in WithImmediate
  PROVE  LET a == Immediate(Fetched.st, Decoded)
         IN  Ok(a.st) /\ Readable(PC(a.st), DestBytes(Decoded))
<1> DEFINE s == Fetched.st
           i == Decoded
           a == Immediate(s, i)
           o == ReadBoth(a, i)
<1>1. s \in Machine /\ i \in Instruction
  BY FetchedFacts
<1>2. o = FromImmediate(s, i)
  BY DEF FromImmediate
<1>3. a.st \in Machine
  BY <1>1, SourceReadable
<1>4. CASE i.class # "Cmpi"
  <2>1. \E r : cpu' = Arith(o, i, r) \/ cpu' = Logic(o, i, r)
    <3>1. /\ i.class = "Addi" => cpu' = Arith(o, i, Sum(o))
          /\ i.class = "Subi" => cpu' = Arith(o, i, Difference(o))
      BY <1>2, StepExecutes DEF AddiExecute, SubiExecute, AddTo, SubtractFrom
    <3>2. /\ i.class = "Andi" => cpu' = Logic(o, i, Bitwise("and", o.src, o.val))
          /\ i.class = "Ori" => cpu' = Logic(o, i, Bitwise("or", o.src, o.val))
          /\ i.class = "Eori" => cpu' = Logic(o, i, Bitwise("eor", o.src, o.val))
      BY <1>2, StepExecutes DEF AndiExecute, OriExecute, EoriExecute, Combine
    <3>3. i.class \in WithImmediate
      OBVIOUS
    <3> HIDE DEF o, i, s
    <3> QED
      BY <1>4, <3>1, <3>2, <3>3 DEF WithImmediate
  <2> HIDE DEF o
  <2>2. Ok(o.st)
    BY <2>1, ThrownOperands
  <2> QED
    BY <1>1, <1>3, <2>2, SecondReadable DEF o
<1>5. CASE i.class = "Cmpi"
  <2>1. cpu' = Compare(a, i)
    BY <1>5, StepExecutes DEF CmpiExecute
  <2> QED
    BY <1>1, <1>3, <2>1, SecondReadable
<1> QED
  BY <1>4, <1>5

(* The classes whose text is that of a destination.                        *)
OneOperand == {"Addq", "Subq", "Neg", "Clr", "Moveq", "Ext", "Jmp", "Jsr", "BitShift"}

(* An operand right behind the opcode.                                     *)
LEMMA BehindOpcode ==
  ASSUME NEW s \in Machine, Ok(s), NEW n, Readable(PC(Begin(s)), n)
  PROVE  Readable(PC(s) + SIZE_WORD, n)
<1>1. PC(Begin(s)) = (PC(s) + SIZE_WORD) % Long /\ PC(s) + SIZE_WORD \in Int
  BY BeginFacts, Pointers DEF SIZE_WORD
<1> QED
  BY <1>1, ReadableLong

(* They have read the extension of the destination.                        *)
LEMMA OneOperandReads ==
  ASSUME TypeOK, Step, Ok(Fetched.st), Ok(cpu'), Decoded.class \in OneOperand
  PROVE  Readable(PC(Fetched.st) + SIZE_WORD, DestBytes(Decoded))
<1> DEFINE s == Fetched.st
           i == Decoded
           b == Begin(s)
<1>1. s \in Machine /\ i \in Instruction /\ WellFormed(i) /\ Ok(s)
  BY FetchedFacts DEF Instruction, InstructionsWith
<1>2. b \in Machine /\ i.data_size \in DataSize /\ i.dest_mode \in AddressingMode /\ i.dest_reg \in 0 .. 15
  BY <1>1, BeginFacts, Members DEF Operands
<1>3. Readable(PC(b), DestBytes(i)) => Readable(PC(s) + SIZE_WORD, DestBytes(i))
  BY <1>1, BehindOpcode
<1>4. CASE i.class \in {"Addq", "Subq", "Neg"}
  <2> DEFINE v == IF i.class = "Neg" THEN 0 ELSE i.imm
             a == Result(b, v)
             o == ReadBoth(a, i)
  <2>1. \E r : cpu' = Arith(o, i, r) \/ cpu' = Store(o.st, i, r)
    <3>1. i.class = "Neg" => cpu' = Arith(o, i, (o.src - o.val) % Long)
      BY StepExecutes DEF NegExecute, Negate
    <3>2. i.class = "Addq" => cpu' = Arith(o, i, Sum(o)) \/ cpu' = Store(o.st, i, Sum(o))
      BY StepExecutes DEF AddqExecute, FromOpcode, AddTo, AddToAddress
    <3>3. i.class = "Subq" => cpu' = Arith(o, i, Difference(o)) \/ cpu' = Store(o.st, i, Difference(o))
      BY StepExecutes DEF SubqExecute, FromOpcode, SubtractFrom, SubtractFromAddress
    <3> HIDE DEF o, i
    <3> QED
      BY <1>4, <3>1, <3>2, <3>3
  <2>2. a.st = b
    BY DEF Result
  <2> HIDE DEF o, a, b
  <2>3. Ok(o.st)
    BY <2>1, ThrownOperands
  <2>4. Readable(PC(b), DestBytes(i))
    BY <1>1, <1>2, <2>2, <2>3, SecondReadable DEF o
  <2> QED
    BY <1>3, <2>4
<1>5. CASE i.class \in {"Clr", "Moveq"}
  <2> DEFINE v == IF i.class = "Clr" THEN 0 ELSE i.imm
  <2>1. cpu' = Describe(Store(b, i, v), i, v)
    BY <1>5, StepExecutes DEF ClrExecute, MoveqExecute
  <2> HIDE DEF v, b
  <2>2. Ok(Store(b, i, v))
    BY <2>1, ThrownStays DEF Describe
  <2>3. IS_MEMORY_ALTERABLE(i.dest_mode)
    BY <1>1, <1>5 DEF WellFormed, IS_MEMORY_ALTERABLE, DIRECT_DATA, UNKNOWN, PC_DISPLACEMENT, PC_INDEX,
       IMMEDIATE
  <2>4. Readable(PC(b), DestBytes(i))
    BY <1>2, <2>2, <2>3, OperandReadable DEF Store, DestBytes
  <2> QED
    BY <1>3, <2>4
<1>6. CASE i.class = "Ext"
  <2>1. i.dest_mode = DIRECT_DATA
    BY <1>1, <1>6 DEF WellFormed
  <2>2. DestBytes(i) = 0
    BY <2>1 DEF DestBytes, ExtensionSize, DIRECT_DATA, DISPLACEMENT, INDEX, PC_DISPLACEMENT,
       PC_INDEX, ABS_WORD, ABS_LONG, IMMEDIATE
  <2> QED
    BY <2>2 DEF Readable
<1>7. CASE i.class \in {"Jmp", "Jsr"}
  <2> DEFINE a == getControlAddress(b, i.dest_mode, i.dest_reg)
  <2>1. cpu' = SetPC(a.st, a.val) \/ cpu' = SetPC(stackPush(a.st, SIZE_LONG, PC(a.st)), a.val)
    BY <1>7, StepExecutes DEF JmpExecute, JsrExecute
  <2> HIDE DEF a
  <2>2. Ok(a.st)
    BY <2>1, ThrownStays
  <2>3. IS_CONTROL_ADDR(i.dest_mode)
    BY <1>1, <1>7 DEF WellFormed
  <2> QED
    BY <1>1, <1>2, <2>2, <2>3, ControlReadable DEF a, DestBytes
<1>8. CASE i.class = "BitShift"
  <2> DEFINE d == Dest(b, i)
  <2>1. \E f : cpu' = SetFlags(d.st, f)
    <3>1. PICK u \in Undefined : cpu' = BitShiftExecute(s, i, u)
      BY <1>8, StepExecutes
    <3> QED
      BY <3>1, ShiftSetsFlags
  <2> HIDE DEF b
  <2>2. Ok(d.st) => Readable(PC(b), DestBytes(i))
    BY <1>2, OperandReadable DEF Dest, DestBytes
  <2> HIDE DEF d
  <2>3. Ok(d.st)
    BY <2>1, ThrownStays
  <2> QED
    BY <1>3, <2>2, <2>3
<1> QED
  BY <1>4, <1>5, <1>6, <1>7, <1>8 DEF OneOperand

(* The remaining classes have read what their text shows.                  *)
LEMMA OthersRead ==
  ASSUME TypeOK, Step, Ok(Fetched.st), Ok(cpu')
  PROVE  LET s == Fetched.st
             i == Decoded
             w == PC(s) + SIZE_WORD
         IN  /\ i.class \in {"Lea", "Pea", "Tst"} => Readable(w, SourceBytes(i))
             /\ i.class = "Scc" => Readable(w, ExtensionSize(i.dest_mode, SIZE_BYTE))
             /\ i.class = "Bcc" => Readable(w, BranchBytes(i))
             /\ i.class = "Link" => Readable(w, SIZE_WORD)
<1> DEFINE s == Fetched.st
           i == Decoded
           b == Begin(s)
           w == PC(s) + SIZE_WORD
<1>1. s \in Machine /\ i \in Instruction /\ WellFormed(i) /\ Ok(s)
  BY FetchedFacts DEF Instruction, InstructionsWith
<1>2. /\ b \in Machine /\ i.data_size \in DataSize /\ i.src_mode \in AddressingMode
      /\ i.dest_mode \in AddressingMode /\ i.src_reg \in 0 .. 15 /\ SIZE_BYTE \in DataSize
  BY <1>1, BeginFacts, Members DEF Operands, DataSize
<1>3. ASSUME i.class \in {"Lea", "Pea"} PROVE Readable(w, SourceBytes(i))
  <2> DEFINE a == getControlAddress(b, i.src_mode, i.src_reg)
  <2>1. \/ cpu' = setData(a.st, DIRECT_ADDR, i.dest_reg, SIZE_LONG, a.val)
        \/ cpu' = stackPush(a.st, SIZE_LONG, a.val)
    BY <1>3, StepExecutes DEF LeaExecute, PeaExecute
  <2> HIDE DEF a
  <2>2. Ok(a.st)
    BY <2>1, ThrownStays
  <2>3. IS_CONTROL_ADDR(i.src_mode)
    BY <1>1, <1>3 DEF WellFormed
  <2> QED
    BY <1>1, <1>2, <2>2, <2>3, ControlReadable DEF a, SourceBytes
<1>4. ASSUME i.class = "Tst" PROVE Readable(w, SourceBytes(i))
  <2> DEFINE a == Source(s, i)
  <2>1. \E f : cpu' = SetFlags(a.st, f)
    BY <1>4, StepExecutes DEF TstExecute, Test, Describe
  <2> HIDE DEF a
  <2>2. Ok(a.st)
    BY <2>1, ThrownStays
  <2> QED
    BY <1>1, <2>2, SourceReadable DEF a
<1>5. ASSUME i.class = "Scc" PROVE Readable(w, ExtensionSize(i.dest_mode, SIZE_BYTE))
  <2> DEFINE v == IF checkCondition(b, i.kind) THEN Byte - 1 ELSE 0
  <2>1. cpu' = setData(b, i.dest_mode, i.dest_reg, SIZE_BYTE, v)
    BY <1>5, StepExecutes DEF SccExecute
  <2>2. IS_MEMORY_ALTERABLE(i.dest_mode)
    BY <1>1, <1>5 DEF WellFormed, IS_MEMORY_ALTERABLE, IS_DATA_ALTERABLE
  <2> HIDE DEF v, b
  <2>3. Readable(PC(b), ExtensionSize(i.dest_mode, SIZE_BYTE))
    BY <1>2, <2>1, <2>2, OperandReadable
  <2> QED
    BY <1>1, <2>3, BehindOpcode DEF b
<1>6. ASSUME i.class = "Bcc" PROVE Readable(w, BranchBytes(i))
  <2> DEFINE e == Displacement(s, i)
             pc == MASK(w, SIZE_LONG)
             target == pc + SignExtend(e.val, i.data_size)
  <2>1. cpu' = Branch(e, i, pc)
    BY <1>6, StepExecutes DEF BccExecute, Displacement
  <2> HIDE DEF e, pc
  <2>2. \/ cpu' = SetPC(e.st, target) \/ cpu' = e.st
        \/ cpu' = SetPC(stackPush(e.st, SIZE_LONG, pc), target)
    BY <2>1 DEF Branch
  <2> HIDE DEF target
  <2>3. Ok(e.st)
    BY <2>2, ThrownStays
  <2> QED
    BY <1>1, <2>3, BranchReads DEF e
<1>7. ASSUME i.class = "Link" PROVE Readable(w, SIZE_WORD)
  <2> DEFINE e == MemGet(s, w, SIZE_WORD)
             t == SetPC(e.st, PC(s) + 2 * SIZE_WORD)
             p == stackPush(t, SIZE_LONG, get(t, i.dest_reg, SIZE_LONG))
             sp == get(p, REG_USP, SIZE_LONG)
             u == set(p, i.dest_reg, SIZE_LONG, sp)
  <2>1. cpu' = set(u, REG_USP, SIZE_LONG, sp + SignExtend(e.val, SIZE_WORD))
    BY <1>7, StepExecutes DEF LinkExecute
  <2> HIDE DEF sp, u
  <2>2. Ok(u)
    BY <2>1, ThrownStays
  <2> HIDE DEF p
  <2>3. Ok(p)
    BY <2>2, ThrownStays DEF u
  <2> HIDE DEF t
  <2>4. Ok(t)
    BY <2>3, ThrownStays DEF p
  <2> HIDE DEF e
  <2>5. Ok(e.st)
    BY <2>4, ThrownStays DEF t
  <2>6. w \in Int /\ SIZE_WORD \in DataSize
    BY <1>1, Pointers DEF SIZE_WORD, DataSize
  <2> QED
    BY <1>1, <2>5, <2>6, GetThrough DEF e, Readable
<1> QED
  BY <1>3, <1>4, <1>5, <1>6, <1>7
-----------------------------------------------------------------------------
(* The text of an operand exists when its extension can be read.           *)
LEMMA TextReadable ==
  ASSUME NEW s \in Machine, NEW mode \in AddressingMode, NEW r, NEW size \in DataSize
  PROVE  Ok(effectiveAddress(s, mode, r, size).st) <=>
           Ok(s) /\ Readable(PC(s), ExtensionSize(mode, size))
<1> DEFINE n == ExtensionSize(mode, size)
<1>1. n \in {0} \cup DataSize
  BY ExtensionRange DEF DataSize, SIZE_BYTE, SIZE_WORD, SIZE_LONG
<1>2. effectiveAddress(s, mode, r, size).st = Fetch(s, n).st
  BY DEF effectiveAddress, ShownFrom, Result
<1> HIDE DEF n
<1> QED
  BY <1>1, <1>2, FetchReadable DEF n

(* The same, behind the opcode and behind another operand.                 *)
LEMMA TextBehind ==
  ASSUME NEW s \in Machine, Ok(s), NEW t \in Machine, Ok(t), NEW k \in Int,
         PC(t) = (PC(s) + k) % Long, NEW mode \in AddressingMode, NEW r, NEW size \in DataSize,
         Readable(PC(s) + k, ExtensionSize(mode, size))
  PROVE  /\ effectiveAddress(t, mode, r, size).st \in Machine
         /\ Ok(effectiveAddress(t, mode, r, size).st)
         /\ PC(effectiveAddress(t, mode, r, size).st) =
              (PC(s) + (k + ExtensionSize(mode, size))) % Long
<1> DEFINE n == ExtensionSize(mode, size)
           u == effectiveAddress(t, mode, r, size).st
<1>1. PC(s) \in Int /\ PC(s) + k \in Int
  BY Pointers
<1>2. Readable(PC(t), n)
  BY <1>1, ReadableLong
<1>3. Walks(t, u, n) /\ n \in Int
  BY WalksText
<1>4. Ok(u)
  BY <1>2, TextReadable
<1> HIDE DEF u, n
<1>5. u \in Machine /\ PC(u) = (((PC(s) + k) % Long) + n) % Long
  BY <1>3, <1>4 DEF Walks, OnlyPC, Moves
<1>6. PC(u) = (PC(s) + k + n) % Long
  BY <1>1, <1>3, <1>5, LongSum
<1>7. PC(s) + k + n = PC(s) + (k + n)
  BY <1>1, <1>3
<1> QED
  BY <1>4, <1>5, <1>6, <1>7 DEF u, n

(* Adding to an address that stays in the address space.                   *)
LEMMA NoWrap ==
  ASSUME NEW a \in Int, NEW k \in Nat, MASK_ADDR(a) + k < AddrSpace
  PROVE  MASK_ADDR(a + k) = MASK_ADDR(a) + k /\ MASK_ADDR(a) \in Nat
<1>1. AddrSpace \in Nat \ {0}
  BY Positive
<1>2. a % AddrSpace \in 0 .. AddrSpace - 1 /\ k \in Int
  BY <1>1, ModRange
<1>3. (a + k) % AddrSpace = ((a % AddrSpace) + k) % AddrSpace
  BY <1>1, <1>2, ModPlus
<1>4. ((a % AddrSpace) + k) % AddrSpace = (a % AddrSpace) + k
  <2>1. (a % AddrSpace) + k \in 0 .. AddrSpace - 1
    BY <1>1, <1>2 DEF MASK_ADDR
  <2> QED
    BY <1>1, <2>1, ModSmall
<1> QED
  BY <1>2, <1>3, <1>4 DEF MASK_ADDR

(* Two extensions that do not wrap around can be read in any order.        *)
LEMMA SwapReadable ==
  ASSUME NEW a \in Int, NEW m \in {0, 2, 4}, NEW n \in {0, 2, 4},
         MASK_ADDR(a) + (SIZE_WORD + m + n) <= AddrSpace,
         Readable(a, SIZE_WORD), Readable(a + SIZE_WORD, m), Readable(a + (SIZE_WORD + m), n)
  PROVE  Readable(a + SIZE_WORD, n) /\ Readable(a + (SIZE_WORD + n), m)
<1> DEFINE p == MASK_ADDR(a)
<1>1. CASE m = 0
  BY <1>1 DEF Readable, SIZE_WORD
<1>2. CASE n = 0
  BY <1>2 DEF Readable, SIZE_WORD
<1>3. CASE m # 0 /\ n # 0
  <2>1. AddrSpace \in Nat /\ p \in Int /\ MemSize \in Int
    BY Positive, ModRange, MemSizeAssumption DEF MASK_ADDR
  <2> HIDE DEF p
  <2>2. /\ MASK_ADDR(a + 2) = p + 2 /\ MASK_ADDR(a + (2 + m)) = p + (2 + m)
        /\ MASK_ADDR(a + (2 + n)) = p + (2 + n) /\ p \in Nat
    <3>1. /\ p + 2 < AddrSpace /\ p + (2 + m) < AddrSpace /\ p + (2 + n) < AddrSpace
          /\ 2 \in Nat /\ 2 + m \in Nat /\ 2 + n \in Nat
      BY <1>3, <2>1 DEF p, SIZE_WORD
    <3> QED
      BY <3>1, NoWrap DEF p
  <2>3. p % 2 = 0
    BY DEF Readable, AccessError, SIZE_WORD, SIZE_BYTE, p
  <2>4. p + (2 + m) + n <= MemSize
    <3>1. AccessError(a + (2 + m), n) = "none"
      BY <1>3 DEF Readable, SIZE_WORD
    <3>2. ~(MASK_ADDR(a + (2 + m)) + n > MemSize)
      BY <3>1 DEF AccessError
    <3> QED
      BY <2>1, <2>2, <3>2
  <2>5. /\ (p + 2) % 2 = 0 /\ (p + (2 + n)) % 2 = 0
        /\ p + 2 + n <= MemSize /\ p + (2 + n) + m <= MemSize
    BY <2>1, <2>2, <2>3, <2>4
  <2>6. AccessError(a + 2, n) = "none" /\ AccessError(a + (2 + n), m) = "none"
    BY <2>1, <2>2, <2>5 DEF AccessError
  <2> QED
    BY <2>6 DEF Readable, SIZE_WORD
<1> QED
  BY <1>1, <1>2, <1>3

(* The text of two operands, when both extensions can be read in order and *)
(* in the order of the compiler.                                           *)
LEMMA BothListed ==
  ASSUME NEW s \in Machine, Ok(s), NEW i \in Instruction, NEW order \in Orders,
         NEW mode \in AddressingMode, NEW r,
         Readable(PC(s), SIZE_WORD),
         Readable(PC(s) + SIZE_WORD, ExtensionSize(mode, i.data_size)),
         Readable(PC(s) + (SIZE_WORD + ExtensionSize(mode, i.data_size)), DestBytes(i)),
         \/ order = "left"
         \/ MASK_ADDR(PC(s)) + (SIZE_WORD + ExtensionSize(mode, i.data_size) + DestBytes(i))
              <= AddrSpace
  PROVE  Ok(WithDest(Begin(s), i, order, mode, r).st)
<1> DEFINE b == Begin(s)
           n == ExtensionSize(mode, i.data_size)
           m == DestBytes(i)
           a == effectiveAddress(b, mode, r, i.data_size)
           d == DestText(b, i)
<1>1. /\ b \in Machine /\ Ok(b) /\ PC(b) = (PC(s) + SIZE_WORD) % Long
      /\ PC(s) \in Int /\ SIZE_WORD \in Int
  BY BeginFacts, Pointers DEF SIZE_WORD
<1>2. i.data_size \in DataSize /\ i.dest_mode \in AddressingMode
  BY Members DEF Operands
<1>3. n \in {0, 2, 4} /\ m \in {0, 2, 4} /\ n \in Int /\ m \in Int
  <2>1. n \in {0, 2, 4}
    BY <1>2, ExtensionRange DEF SIZE_WORD, SIZE_LONG
  <2> QED
    BY <2>1, ExtensionSizes
<1>4. CASE order = "left"
  <2>1. WithDest(b, i, order, mode, r).st = DestText(a.st, i).st
    BY <1>4 DEF WithDest, Result
  <2> HIDE DEF b
  <2>2. a.st \in Machine /\ Ok(a.st) /\ PC(a.st) = (PC(s) + (SIZE_WORD + n)) % Long
    BY <1>1, <1>2, TextBehind
  <2>3. SIZE_WORD + n \in Int
    BY <1>1, <1>3
  <2> HIDE DEF a, n
  <2>4. Readable(PC(s) + (SIZE_WORD + n), ExtensionSize(i.dest_mode, i.data_size))
    BY DEF n, DestBytes
  <2>5. Ok(DestText(a.st, i).st)
    BY <1>2, <2>2, <2>3, <2>4, TextBehind DEF DestText
  <2> QED
    BY <2>1, <2>5 DEF b
<1>5. CASE order # "left"
  <2>1. WithDest(b, i, order, mode, r).st = effectiveAddress(d.st, mode, r, i.data_size).st
    BY <1>5 DEF WithDest
  <2>2. Readable(PC(s) + SIZE_WORD, m) /\ Readable(PC(s) + (SIZE_WORD + m), n)
    BY <1>1, <1>3, <1>5, SwapReadable
  <2> HIDE DEF b
  <2>3. d.st \in Machine /\ Ok(d.st) /\ PC(d.st) = (PC(s) + (SIZE_WORD + m)) % Long
    BY <1>1, <1>2, <2>2, TextBehind DEF DestText, DestBytes
  <2>4. SIZE_WORD + m \in Int
    BY <1>1, <1>3
  <2> HIDE DEF d, m
  <2>5. Ok(effectiveAddress(d.st, mode, r, i.data_size).st)
    BY <1>2, <2>2, <2>3, <2>4, TextBehind
  <2> QED
    BY <2>1, <2>5 DEF b
<1> QED
  BY <1>4, <1>5

(* What executes can be listed.                                            *)
LEMMA ExecutedIsListed ==
  ASSUME TypeOK, Step, Ok(Fetched.st), Ok(cpu'), NEW order \in Orders,
         order = "left" \/ ~Wraps(cpu, Decoded)
  PROVE  Ok(Listed(order).st)
<1> DEFINE s == Fetched.st
           i == Decoded
           b == Begin(s)
           w == PC(s) + SIZE_WORD
           t == Listed(order).st
<1>1. /\ s \in Machine /\ i \in Instruction /\ Ok(s) /\ i.class \in Classes
      /\ PC(s) = PC(cpu) /\ Readable(PC(s), SIZE_WORD)
  BY FetchedFacts, DecodedAt DEF Instruction, InstructionsWith, InstructionRecord
<1>2. /\ i.data_size \in DataSize /\ i.src_mode \in AddressingMode
      /\ i.dest_mode \in AddressingMode /\ IMMEDIATE \in AddressingMode /\ SIZE_BYTE \in DataSize
  BY <1>1, Members DEF Operands, AddressingMode, DataSize
<1>3. /\ b \in Machine /\ Ok(b) /\ PC(b) = w % Long
      /\ w \in Int /\ SIZE_WORD \in Int /\ PC(s) \in Int
  BY <1>1, BeginFacts, Pointers DEF SIZE_WORD
<1>4. Listed(order) = disassembly(s, i, order)
  BY DEF Listed
<1>5. Length(i) \in Int => order = "left" \/ MASK_ADDR(PC(s)) + Length(i) <= AddrSpace
  <2>1. MASK_ADDR(PC(s)) \in Int /\ AddrSpace \in Int
    BY <1>3, Positive, ModRange DEF MASK_ADDR
  <2> QED
    BY <1>1, <2>1 DEF Wraps
<1>6. /\ SourceBytes(i) \in Int /\ DestBytes(i) \in Int /\ ImmediateBytes(i) \in Int
  BY <1>1, BytesInt
<1> HIDE DEF s, i
<1>7. CASE i.class \in TwoOperands
  <2> DEFINE a == Source(s, i)
             n == SourceBytes(i)
  <2>1. Ok(a.st) /\ Readable(PC(a.st), DestBytes(i))
    BY <1>7, TwoOperandsRead DEF s, i
  <2>2. Readable(w, n) /\ PC(a.st) = (PC(s) + (SIZE_WORD + n)) % Long
    BY <1>1, <2>1, SourceReadable
  <2>3. PC(s) + (SIZE_WORD + n) \in Int /\ SIZE_WORD + n + DestBytes(i) \in Int
    BY <1>3, <1>6
  <2>4. Readable(PC(s) + (SIZE_WORD + n), DestBytes(i))
    BY <2>1, <2>2, <2>3, ReadableLong
  <2>5. Length(i) = SIZE_WORD + n + DestBytes(i)
    BY <1>1, <1>7, LengthCases DEF TwoOperands
  <2>6. t = WithDest(b, i, order, i.src_mode, i.src_reg).st
    BY <1>4, <1>7 DEF disassembly, SrcAndDest, AddDisassembly, AddaDisassembly, AddxDisassembly,
       AndDisassembly, BitManipDisassembly, CmpDisassembly, CmpaDisassembly, DivDisassembly,
       EorDisassembly, MoveDisassembly, MulDisassembly, OrDisassembly, SubDisassembly,
       SubaDisassembly, SubxDisassembly, TwoOperands
  <2>7. n = ExtensionSize(i.src_mode, i.data_size)
    BY DEF SourceBytes
  <2> HIDE DEF a, n, t
  <2>8. Ok(WithDest(b, i, order, i.src_mode, i.src_reg).st)
    BY <1>1, <1>2, <1>5, <2>2, <2>3, <2>4, <2>5, <2>7, BothListed
  <2> QED
    BY <2>6, <2>8 DEF t
<1>8. CASE i.class \in WithImmediate
  <2> DEFINE a == Immediate(s, i)
             n == ImmediateBytes(i)
  <2>1. Ok(a.st) /\ Readable(PC(a.st), DestBytes(i))
    BY <1>8, WithImmediateRead DEF s, i
  <2>2. Readable(w, n) /\ PC(a.st) = (PC(s) + (SIZE_WORD + n)) % Long
    BY <1>1, <2>1, SourceReadable
  <2>3. PC(s) + (SIZE_WORD + n) \in Int /\ SIZE_WORD + n + DestBytes(i) \in Int
    BY <1>3, <1>6
  <2>4. Readable(PC(s) + (SIZE_WORD + n), DestBytes(i))
    BY <2>1, <2>2, <2>3, ReadableLong
  <2>5. Length(i) = SIZE_WORD + n + DestBytes(i)
    BY <1>1, <1>8, LengthCases DEF WithImmediate
  <2>6. t = WithDest(b, i, order, IMMEDIATE, REG_D0).st
    BY <1>4, <1>8 DEF disassembly, ImmediateAndDest, AddiDisassembly, AndiDisassembly,
       CmpiDisassembly, EoriDisassembly, OriDisassembly, SubiDisassembly, WithImmediate
  <2>7. n = ExtensionSize(IMMEDIATE, i.data_size)
    BY DEF ImmediateBytes
  <2> HIDE DEF a, n, t
  <2>8. Ok(WithDest(b, i, order, IMMEDIATE, REG_D0).st)
    BY <1>1, <1>2, <1>5, <2>2, <2>3, <2>4, <2>5, <2>7, BothListed
  <2> QED
    BY <2>6, <2>8 DEF t
<1>9. ASSUME NEW mode \in AddressingMode, NEW r, NEW size \in DataSize,
             Readable(w, ExtensionSize(mode, size)), t = effectiveAddress(b, mode, r, size).st
      PROVE  Ok(t)
  <2> HIDE DEF b, t
  <2> QED
    BY <1>1, <1>3, <1>9, TextBehind
<1>10. CASE i.class \in OneOperand
  <2>1. Readable(w, ExtensionSize(i.dest_mode, i.data_size))
    BY <1>10, OneOperandReads DEF s, i, DestBytes
  <2>2. t = effectiveAddress(b, i.dest_mode, i.dest_reg, i.data_size).st
    BY <1>4, <1>10 DEF disassembly, DestText, AddqDisassembly, SubqDisassembly, NegDisassembly,
       ClrDisassembly, MoveqDisassembly, ExtDisassembly, JmpDisassembly, JsrDisassembly,
       BitShiftDisassembly, OneOperand
  <2> QED
    BY <1>2, <1>9, <2>1, <2>2
<1>11. CASE i.class \in {"Lea", "Pea", "Tst"}
  <2>1. Readable(w, ExtensionSize(i.src_mode, i.data_size))
    BY <1>11, OthersRead DEF s, i, SourceBytes
  <2>2. t = effectiveAddress(b, i.src_mode, i.src_reg, i.data_size).st
    BY <1>4, <1>11 DEF disassembly, SrcText, LeaDisassembly, PeaDisassembly, TstDisassembly
  <2> QED
    BY <1>2, <1>9, <2>1, <2>2
<1>12. CASE i.class = "Scc"
  <2>1. Readable(w, ExtensionSize(i.dest_mode, SIZE_BYTE))
    BY <1>12, OthersRead DEF s, i
  <2>2. t = effectiveAddress(b, i.dest_mode, i.dest_reg, SIZE_BYTE).st
    BY <1>4, <1>12 DEF disassembly, SccDisassembly
  <2> QED
    BY <1>2, <1>9, <2>1, <2>2
<1>13. CASE i.class = "Bcc"
  <2>1. Readable(w, BranchBytes(i))
    BY <1>13, OthersRead DEF s, i
  <2>2. t = Displacement(s, i).st
    BY <1>4, <1>13 DEF disassembly, BccDisassembly, Target, Displacement, Result
  <2> QED
    BY <1>1, <2>1, <2>2, BranchReads
<1>14. CASE i.class = "Link"
  <2> DEFINE e == MemGet(s, w, SIZE_WORD)
             v == PC(s) + 2 * SIZE_WORD
  <2>1. Readable(w, SIZE_WORD)
    BY <1>14, OthersRead DEF s, i
  <2>2. t = SetPC(e.st, v)
    BY <1>4, <1>14 DEF disassembly, LinkDisassembly, Result
  <2>3. e.st = s /\ v \in Int
    BY <1>1, <1>3, <2>1 DEF MemGet, Readable, Result, SIZE_WORD
  <2> HIDE DEF e, v, t
  <2>4. Ok(SetPC(s, v))
    BY <1>1, <2>3, PassesPC DEF Ok
  <2>5. t = SetPC(s, v)
    BY <2>2, <2>3
  <2> QED
    BY <2>4, <2>5 DEF t
<1>15. CASE i.class \in {"Illegal", "Nop", "Rts", "Unlk"}
  <2>1. CASE i.class = "Illegal"
    BY <1>3, <1>4, <2>1 DEF disassembly, NameOnly, IllegalDisassembly, Result
  <2>2. CASE i.class = "Nop"
    BY <1>3, <1>4, <2>2 DEF disassembly, NameOnly, NopDisassembly, Result
  <2>3. CASE i.class = "Rts"
    BY <1>3, <1>4, <2>3 DEF disassembly, NameOnly, RtsDisassembly, Result
  <2>4. CASE i.class = "Unlk"
    BY <1>3, <1>4, <2>4 DEF disassembly, NameOnly, UnlkDisassembly, Result
  <2> QED
    BY <1>15, <2>1, <2>2, <2>3, <2>4
<1> QED
  BY <1>1, <1>7, <1>8, <1>10, <1>11, <1>12, <1>13, <1>14, <1>15
     DEF Classes, TwoOperands, WithImmediate, OneOperand

(* The walk of execute() over the bytes of an instruction agrees with the  *)
(* walk of disassembly(): where execution goes on, what jsr saves and what *)
(* lea and pea compute is what the lines say, for every table of opcodes,  *)
(* every size of memory and however lines and steps alternate; and what    *)
(* executes can be listed.                                                 *)
THEOREM ExecutionFollows == ListSpec => ExecutionFollowsListing
<1>1. LinesHold /\ [ListNext]_listVars =>
        [ running /\ ~ShiftWithExtension(Decoded) =>
            /\ \A l \in listing : Executed(l) => Follows(cpu, cpu', l, Decoded)
            /\ Ok(Fetched.st) /\ Ok(cpu') =>
                 \A order \in Orders :
                   order = "left" \/ ~Wraps(cpu, Decoded) => Ok(Listed(order).st) ]_listVars
  <2> SUFFICES ASSUME LinesHold, ListNext, running, ~ShiftWithExtension(Decoded)
               PROVE  /\ \A l \in listing : Executed(l) => Follows(cpu, cpu', l, Decoded)
                      /\ Ok(Fetched.st) /\ Ok(cpu') =>
                           \A order \in Orders :
                             order = "left" \/ ~Wraps(cpu, Decoded) => Ok(Listed(order).st)
    OBVIOUS
  <2>1. Step /\ TypeOK
    BY DEF ListNext, ListLine, Rewind, RunStep, LinesHold, ListInv
  <2>2. ASSUME NEW l \in listing, Executed(l)
        PROVE  Follows(cpu, cpu', l, Decoded)
    <3>1. Current(l) /\ Ok(cpu')
      BY <2>1, <2>2 DEF Executed, Current, LinesHold
    <3> QED
      BY <2>1, <3>1, LineFollows
  <2>3. ASSUME Ok(Fetched.st), Ok(cpu'), NEW order \in Orders,
               order = "left" \/ ~Wraps(cpu, Decoded)
        PROVE  Ok(Listed(order).st)
    BY <2>1, <2>3, ExecutedIsListed
  <2> QED
    BY <2>2, <2>3
<1> QED
  BY <1>1, LinesStart, LinesStay, PTL DEF ListSpec, ExecutionFollowsListing
=============================================================================
