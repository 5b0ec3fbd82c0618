---------------------------- MODULE Disassembly ----------------------------
(***************************************************************************)
(* The disassembly() of every instruction class and                        *)
(* DISASSEMBLER::effectiveAddress (src/disassembler.cpp).  They read the   *)
(* extension words at the program counter of the machine they are given,   *)
(* and move it past them; of the text only the numbers and the index       *)
(* register it shows are kept.                                             *)
(*                                                                         *)
(* The host lists a program up to the first exception, sets the program    *)
(* counter back and runs it, as a debugger does.  listing has a line for   *)
(* every instruction listed whose bytes are still the same.                *)
(***************************************************************************)
EXTENDS CPU

VARIABLES listing, running

(* Which of two operands a compiler may evaluate first.                    *)
Orders == {"left", "right"}

listVars == <<cpu, listing, running>>

NoIndex == -1

(* The number of an operand's text, and the index register it names.       *)
Text(num, idx) == [num |-> num, idx |-> idx]

NoText == Text(0, NoIndex)

(* Offsets from the program counter are shown from the instruction on.     *)
Shown(mode, size, ext) ==
  CASE mode = DISPLACEMENT -> Text(Signed(ext, SIZE_WORD), NoIndex)
    [] mode = PC_DISPLACEMENT -> Text(Signed(ext, SIZE_WORD) + 2, NoIndex)
    [] mode = INDEX ->
         Text(Signed(ext, SIZE_BYTE), IndexField[(ext \div Byte) % Byte].reg)
    [] mode = PC_INDEX ->
         Text(Signed(ext, SIZE_BYTE) + 2, IndexField[(ext \div Byte) % Byte].reg)
    [] mode = IMMEDIATE ->
         Text(IF size = SIZE_BYTE THEN MASK(ext, size) ELSE ext, NoIndex)
    [] OTHER -> Text(ext, NoIndex)

ShownFrom(mode, size, e) == Result(e.st, Shown(mode, size, e.val))

(* Faulty variant of effectiveAddress: the operand is read as execute()    *)
(* reads it, which moves its address register.                             *)
effectiveAddressReads(s, mode, r, size) == ShownFrom(mode, size, getData(s, mode, r, size))

(* Faulty variant of effectiveAddress: an immediate has its own size.      *)
effectiveAddressNarrow(s, mode, r, size) ==
  ShownFrom(mode, size, Fetch(s, IF mode = IMMEDIATE THEN SIZE_WORD
                                 ELSE ExtensionSize(mode, size)))

effectiveAddress(s, mode, r, size) ==
  ShownFrom(mode, size, Fetch(s, ExtensionSize(mode, size)))
-----------------------------------------------------------------------------
(***************************************************************************)
(* Two operands are texts of one chain of <<.  The build sets C++14, which *)
(* leaves open which of the two calls comes first: order is the choice of  *)
(* the compiler.  val is the text of the source.                           *)
(***************************************************************************)
SrcText(s, i) == effectiveAddress(s, i.src_mode, i.src_reg, i.data_size)

DestText(s, i) == effectiveAddress(s, i.dest_mode, i.dest_reg, i.data_size)

(* The operand of the given mode and register, and the destination.        *)
WithDest(s, i, order, mode, r) ==
  LET a == effectiveAddress(s, mode, r, i.data_size)
  IN  IF order = "left" THEN Result(DestText(a.st, i).st, a.val)
      ELSE effectiveAddress(DestText(s, i).st, mode, r, i.data_size)

SrcAndDest(s, i, order) == WithDest(Begin(s), i, order, i.src_mode, i.src_reg)

ImmediateAndDest(s, i, order) == WithDest(Begin(s), i, order, IMMEDIATE, REG_D0)

NameOnly(s) == Result(Begin(s), NoText)

AddDisassembly(s, i, order) == SrcAndDest(s, i, order)
AddaDisassembly(s, i, order) == SrcAndDest(s, i, order)
AddxDisassembly(s, i, order) == SrcAndDest(s, i, order)
AndDisassembly(s, i, order) == SrcAndDest(s, i, order)
BitManipDisassembly(s, i, order) == SrcAndDest(s, i, order)
CmpDisassembly(s, i, order) == SrcAndDest(s, i, order)
CmpaDisassembly(s, i, order) == SrcAndDest(s, i, order)
DivDisassembly(s, i, order) == SrcAndDest(s, i, order)
EorDisassembly(s, i, order) == SrcAndDest(s, i, order)
MoveDisassembly(s, i, order) == SrcAndDest(s, i, order)
MulDisassembly(s, i, order) == SrcAndDest(s, i, order)
OrDisassembly(s, i, order) == SrcAndDest(s, i, order)
SubDisassembly(s, i, order) == SrcAndDest(s, i, order)
SubaDisassembly(s, i, order) == SrcAndDest(s, i, order)
SubxDisassembly(s, i, order) == SrcAndDest(s, i, order)
AddiDisassembly(s, i, order) == ImmediateAndDest(s, i, order)
AndiDisassembly(s, i, order) == ImmediateAndDest(s, i, order)
CmpiDisassembly(s, i, order) == ImmediateAndDest(s, i, order)
EoriDisassembly(s, i, order) == ImmediateAndDest(s, i, order)
OriDisassembly(s, i, order) == ImmediateAndDest(s, i, order)
SubiDisassembly(s, i, order) == ImmediateAndDest(s, i, order)
AddqDisassembly(s, i) == DestText(Begin(s), i)
ClrDisassembly(s, i) == DestText(Begin(s), i)
ExtDisassembly(s, i) == DestText(Begin(s), i)
JmpDisassembly(s, i) == DestText(Begin(s), i)
JsrDisassembly(s, i) == DestText(Begin(s), i)
MoveqDisassembly(s, i) == DestText(Begin(s), i)
NegDisassembly(s, i) == DestText(Begin(s), i)
SubqDisassembly(s, i) == DestText(Begin(s), i)
LeaDisassembly(s, i) == SrcText(Begin(s), i)
PeaDisassembly(s, i) == SrcText(Begin(s), i)
TstDisassembly(s, i) == SrcText(Begin(s), i)
IllegalDisassembly(s, i) == NameOnly(s)
NopDisassembly(s, i) == NameOnly(s)
RtsDisassembly(s, i) == NameOnly(s)
UnlkDisassembly(s, i) == NameOnly(s)

SccDisassembly(s, i) ==
  effectiveAddress(Begin(s), i.dest_mode, i.dest_reg, SIZE_BYTE)

(* The count is a number of the opcode, or a data register.                *)
BitShiftDisassembly(s, i) == DestText(Begin(s), i)

(* The displacement is read by getData, and the target shown in 32 bits.   *)
Target(e, i, pc) ==
  Result(e.st, Text((pc + SignExtend(e.val, i.data_size)) % Long, NoIndex))

BccDisassembly(s, i) ==
  Target(IF i.data_size = SIZE_BYTE THEN Result(Begin(s), i.imm) ELSE Immediate(s, i),
         i, PC(s) + SIZE_WORD)

LinkDisassembly(s, i) ==
  LET e == MemGet(s, PC(s) + SIZE_WORD, SIZE_WORD)
  IN  Result(SetPC(e.st, PC(s) + 2 * SIZE_WORD),
             Text(Signed(e.val, SIZE_WORD), NoIndex))

(* The virtual call instruction->disassembly(state).                       *)
disassembly(s, i, order) ==
  CASE i.class = "Add" -> AddDisassembly(s, i, order)
    [] i.class = "Adda" -> AddaDisassembly(s, i, order)
    [] i.class = "Addi" -> AddiDisassembly(s, i, order)
    [] i.class = "Addq" -> AddqDisassembly(s, i)
    [] i.class = "Addx" -> AddxDisassembly(s, i, order)
    [] i.class = "And" -> AndDisassembly(s, i, order)
    [] i.class = "Andi" -> AndiDisassembly(s, i, order)
    [] i.class = "Bcc" -> BccDisassembly(s, i)
    [] i.class = "BitManip" -> BitManipDisassembly(s, i, order)
    [] i.class = "BitShift" -> BitShiftDisassembly(s, i)
    [] i.class = "Clr" -> ClrDisassembly(s, i)
    [] i.class = "Cmp" -> CmpDisassembly(s, i, order)
    [] i.class = "Cmpa" -> CmpaDisassembly(s, i, order)
    [] i.class = "Cmpi" -> CmpiDisassembly(s, i, order)
    [] i.class = "Div" -> DivDisassembly(s, i, order)
    [] i.class = "Eor" -> EorDisassembly(s, i, order)
    [] i.class = "Eori" -> EoriDisassembly(s, i, order)
    [] i.class = "Ext" -> ExtDisassembly(s, i)
    [] i.class = "Illegal" -> IllegalDisassembly(s, i)
    [] i.class = "Jmp" -> JmpDisassembly(s, i)
    [] i.class = "Jsr" -> JsrDisassembly(s, i)
    [] i.class = "Lea" -> LeaDisassembly(s, i)
    [] i.class = "Link" -> LinkDisassembly(s, i)
    [] i.class = "Move" -> MoveDisassembly(s, i, order)
    [] i.class = "Moveq" -> MoveqDisassembly(s, i)
    [] i.class = "Mul" -> MulDisassembly(s, i, order)
    [] i.class = "Neg" -> NegDisassembly(s, i)
    [] i.class = "Nop" -> NopDisassembly(s, i)
    [] i.class = "Or" -> OrDisassembly(s, i, order)
    [] i.class = "Ori" -> OriDisassembly(s, i, order)
    [] i.class = "Pea" -> PeaDisassembly(s, i)
    [] i.class = "Rts" -> RtsDisassembly(s, i)
    [] i.class = "Scc" -> SccDisassembly(s, i)
    [] i.class = "Sub" -> SubDisassembly(s, i, order)
    [] i.class = "Suba" -> SubaDisassembly(s, i, order)
    [] i.class = "Subi" -> SubiDisassembly(s, i, order)
    [] i.class = "Subq" -> SubqDisassembly(s, i)
    [] i.class = "Subx" -> SubxDisassembly(s, i, order)
    [] i.class = "Tst" -> TstDisassembly(s, i)
    [] i.class = "Unlk" -> UnlkDisassembly(s, i)
-----------------------------------------------------------------------------
(* The host reads the opcode, decodes it, and asks for its text.           *)
Listed(order) == disassembly(Fetched.st, Decoded, order)

NewLine(r) == [at |-> PC(cpu), next |-> PC(r.st), text |-> r.val]

ListLine ==
  /\ ~running /\ Ok(cpu)
  /\ IF Ok(Fetched.st)
     THEN \E order \in Orders :
            LET r == Listed(order)
            IN  /\ cpu' = r.st
                /\ listing' = listing \cup (IF Ok(r.st) THEN {NewLine(r)} ELSE {})
     ELSE /\ cpu' = Fetched.st
          /\ UNCHANGED listing
  /\ UNCHANGED running

(* The host sets the program counter to where a listed instruction is.     *)
Rewind ==
  /\ ~running /\ ~Ok(cpu)
  /\ \E l \in listing : cpu' = SetPC([cpu EXCEPT !.exc = "none"], l.at)
  /\ running' = TRUE
  /\ UNCHANGED listing

(* Addresses of the bytes of a line; the program counter may have wrapped. *)
BytesOf(l) == {MASK_ADDR(l.at + k) : k \in 0 .. ((l.next - l.at) % Long) - 1}

RunStep ==
  /\ running
  /\ Step
  /\ UNCHANGED running
  /\ listing' = {l \in listing : \A a \in BytesOf(l) : cpu'.mem[a] = cpu.mem[a]}

ListInit == Init /\ listing = {} /\ running = FALSE

ListNext == ListLine \/ Rewind \/ RunStep

ListSpec == ListInit /\ [][ListNext]_listVars
-----------------------------------------------------------------------------
(***************************************************************************)
(* Listing an instruction, also one whose extension words end in an        *)
(* exception, changes nothing but the program counter: a debugger may list *)
(* the code of a running program.                                          *)
(***************************************************************************)
ListingMovesOnlyPC ==
  [][ ~running =>
        /\ cpu'.mem = cpu.mem /\ cpu'.ccr = cpu.ccr /\ cpu'.sup = cpu.sup
        /\ \A r \in RegisterType \ {REG_PC} : cpu'.reg[r] = cpu.reg[r]
    ]_listVars

(* The addresses the text may mean: it does not show the index's size.     *)
NamedAddresses(s, l, mode, r) ==
  LET base  == CASE mode \in {PC_DISPLACEMENT, PC_INDEX} -> l.at
                 [] mode \in {ABS_WORD, ABS_LONG} -> 0
                 [] OTHER -> get(s, r, SIZE_LONG)
      index == IF l.text.idx = NoIndex THEN {0}
               ELSE {get(s, l.text.idx, SIZE_LONG),
                     SignExtend(get(s, l.text.idx, SIZE_WORD), SIZE_WORD)}
  IN  {(base + l.text.num + x) % Long : x \in index}

TopOfStack(s) == read_real_mem(s.mem, MASK_ADDR(ActiveSP(s)), SIZE_LONG)

(* The shifts of a memory operand that has an extension word.              *)
ShiftWithExtension(i) ==
  i.class = "BitShift" /\ ExtensionSize(i.dest_mode, i.data_size) > 0

(* What executing line l, decoded as i, must do to follow it.              *)
Follows(s, t, l, i) ==
  CASE i.class = "Jmp" -> PC(t) \in NamedAddresses(s, l, i.dest_mode, i.dest_reg)
    [] i.class = "Jsr" -> /\ PC(t) \in NamedAddresses(s, l, i.dest_mode, i.dest_reg)
                          /\ TopOfStack(t) = l.next
    [] i.class = "Bcc" -> \/ PC(t) = l.text.num
                          \/ i.kind > 1 /\ PC(t) = l.next
    [] i.class = "Lea" -> /\ get(t, i.dest_reg, SIZE_LONG) \in
                               NamedAddresses(s, l, i.src_mode, i.src_reg)
                          /\ PC(t) = l.next
    [] i.class = "Pea" -> /\ TopOfStack(t) \in NamedAddresses(s, l, i.src_mode, i.src_reg)
                          /\ PC(t) = l.next
    [] i.class = "Rts" -> TRUE
    [] OTHER -> PC(t) = l.next

Executed(l) == Ok(Fetched.st) /\ Ok(cpu') /\ PC(cpu) = l.at

(* The bytes of the instruction end beyond the last address, at address 0. *)
Wraps(s, i) == MASK_ADDR(PC(s)) + Length(i) > AddrSpace

(***************************************************************************)
(* Two independent walks over the same bytes agree: a listed instruction   *)
(* that executes without an exception goes on at the next line, or at the  *)
(* target its text shows; jsr saves the next line; lea and pea give the    *)
(* address the text shows.  And what executes can be listed, unless the    *)
(* text of the second operand comes first and reads across the last        *)
(* address.  Not so the shifts of a memory operand with an extension word: *)
(* execute() does not move past it (bit_shift.cpp).                        *)
(***************************************************************************)
ExecutionFollowsListing ==
  [][ running /\ ~ShiftWithExtension(Decoded) =>
        /\ \A l \in listing : Executed(l) => Follows(cpu, cpu', l, Decoded)
        /\ Ok(Fetched.st) /\ Ok(cpu') =>
             \A order \in Orders :
               order = "left" \/ ~Wraps(cpu, Decoded) => Ok(Listed(order).st) ]_listVars
=============================================================================
