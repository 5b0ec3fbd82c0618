--------------------------- MODULE ProgramProofs ---------------------------
(***************************************************************************)
(* What programs rely on when instructions follow one another, for every   *)
(* byte width, memory size and opcode table: a call returns, a frame is    *)
(* restored, two limbs make a wide number, a comparison orders its         *)
(* operands, and a load finds what a store left.                           *)
(***************************************************************************)
EXTENDS Calls, Programs, OperandProofs
-----------------------------------------------------------------------------
(* A pop that went through read the four bytes at the stack pointer.       *)
LEMMA PopFinds ==
  ASSUME NEW s \in Machine, Ok(stackPop(s, SIZE_LONG).st)
  PROVE  LET r == stackPop(s, SIZE_LONG)
         IN  /\ Ok(s) /\ r.st \in Machine /\ r.st.sup = s.sup
             /\ r.val = read_real_mem(s.mem, MASK_ADDR(ActiveSP(s)), SIZE_LONG)
             /\ ActiveSP(r.st) = (ActiveSP(s) + SIZE_LONG) % Long
<1> DEFINE sp == get(s, REG_USP, SIZE_LONG)
           g == MemGet(s, sp, SIZE_LONG)
           u == set(g.st, REG_USP, SIZE_LONG, sp + SIZE_LONG)
           r == stackPop(s, SIZE_LONG)
<1>1. r.st = u /\ r.val = g.val
  BY DEF stackPop, Result
<1>2. REG_USP \in Named /\ SIZE_LONG \in DataSize
  BY DEF Named, AddrReg, REG_USP, DataSize
<1>3. sp = ActiveSP(s) /\ sp \in Int /\ sp + SIZE_LONG \in Int
  BY Pointers DEF SIZE_LONG
<1> HIDE DEF sp
<1>4. g.st \in Machine
  BY <1>2, <1>3, MemGetReads DEF Reads, Quiet
<1>5. u \in Machine /\ u.exc = g.st.exc
  BY <1>2, <1>3, <1>4, SetFacts
<1>6. Ok(g.st)
  BY <1>1, <1>5 DEF Ok
<1>7. Ok(s) /\ g.st = s /\ g.val = read_real_mem(s.mem, MASK_ADDR(sp), SIZE_LONG)
  BY <1>2, <1>3, <1>6, GetThrough
<1>8. u = set(s, REG_USP, SIZE_LONG, sp + SIZE_LONG)
  BY <1>7
<1>9. u.sup = s.sup /\ get(u, REG_USP, SIZE_LONG) = MASK(sp + SIZE_LONG, SIZE_LONG)
  BY <1>2, <1>3, <1>7, <1>8, SetFacts, GetAfterSet
<1> HIDE DEF u, g, r
<1>10. ActiveSP(u) = (sp + SIZE_LONG) % Long
  BY <1>5, <1>9, Pointers, MaskLong
<1> QED
  BY <1>1, <1>3, <1>5, <1>7, <1>9, <1>10 DEF r
-----------------------------------------------------------------------------
(* The table holds no bsr with a displacement word: with one the return    *)
(* address is wrong (the run bsr_wide).                                    *)
NarrowBsr ==
  \A w \in WordVal :
    (OpcodeTable[w].class = "Bcc" /\ OpcodeTable[w].kind = 1) =>
      OpcodeTable[w].data_size = SIZE_BYTE

(* The four bytes of a saved value lie in the memory and still hold it; a  *)
(* frame of A7 saves the stack pointer above it.                           *)
Held(s, f) ==
  /\ f.slot \in Address /\ f.slot + SIZE_LONG <= MemSize
  /\ f.val \in LongVal
  /\ (f.kind = "link" \/ NarrowBsr) => read_real_mem(s.mem, f.slot, SIZE_LONG) = f.val
  /\ (f.kind = "link" /\ f.reg = REG_A7) => MASK_ADDR(f.val) = MASK_ADDR(f.slot + SIZE_LONG)

CallsInv == TypeOK /\ \A f \in saved : Held(cpu, f)

(* jsr leaves the address behind itself in the slot.                       *)
LEMMA JsrSaves ==
  ASSUME NEW s \in Machine, NEW i \in Instruction, i.class = "Jsr", Ok(JsrExecute(s, i))
  PROVE  LET t == JsrExecute(s, i)
         IN  /\ Slot(t) \in Address /\ Slot(t) + SIZE_LONG <= MemSize
             /\ read_real_mem(t.mem, Slot(t), SIZE_LONG) = (PC(s) + Length(i)) % Long
<1> DEFINE a == getControlAddress(Begin(s), i.dest_mode, i.dest_reg)
           yes == TRUE
<1>1. /\ IS_CONTROL_ADDR(i.dest_mode) /\ i.dest_mode \in AddressingMode
      /\ i.dest_reg \in 0 .. 15 /\ i.data_size \in DataSize
  BY Members DEF Instruction, InstructionsWith, WellFormed, Operands
<1>2. a.st \in Machine /\ a.val \in Int
  BY <1>1, BeginQuiet, ControlReads DEF Reads, Quiet
<1>3. Moves(s, a.st, SIZE_WORD + DestBytes(i))
  BY <1>1, PassesAddress DEF Passes, DestBytes
<1>4. Length(i) = SIZE_WORD + DestBytes(i)
  <2>1. ImmediateSize(i) = 0 /\ i.class \notin SourceClasses /\ i.class \in DestClasses
    BY DEF ImmediateSize, SourceClasses, DestClasses
  <2>2. SIZE_WORD \in Int /\ DestBytes(i) \in Int
    BY BytesInt DEF SIZE_WORD
  <2> QED
    BY <2>1, <2>2 DEF Length, DestBytes
<1>5. JsrExecute(s, i) = SetPC(stackPush(a.st, SIZE_LONG, PC(a.st)), a.val)
  BY DEF JsrExecute
<1> HIDE DEF a
<1>6. PC(a.st) \in Int /\ PC(a.st) % Long = PC(a.st)
  BY <1>2, Pointers
<1>7. Ok(SetPC(stackPush(a.st, SIZE_LONG, PC(a.st)), a.val))
  BY <1>5
<1> DEFINE t == SetPC(stackPush(a.st, SIZE_LONG, PC(a.st)), a.val)
<1>8. /\ Ok(a.st) /\ Slot(t) \in Address /\ Slot(t) + SIZE_LONG <= MemSize
      /\ read_real_mem(t.mem, Slot(t), SIZE_LONG) = PC(a.st) % Long
  BY <1>2, <1>6, <1>7, PushThenJump DEF Slot
<1>9. PC(a.st) = (PC(s) + Length(i)) % Long
  BY <1>3, <1>4, <1>8 DEF Moves
<1> QED
  BY <1>5, <1>6, <1>8, <1>9

(* bsr pushes the address of the word after the opcode: behind itself only *)
(* if its displacement is in the opcode.                                   *)
LEMMA BsrSaves ==
  ASSUME NEW s \in Machine, NEW i \in Instruction, i.class = "Bcc", i.kind = 1,
         Ok(BccExecute(s, i))
  PROVE  LET t == BccExecute(s, i)
         IN  /\ Slot(t) \in Address /\ Slot(t) + SIZE_LONG <= MemSize
             /\ i.data_size = SIZE_BYTE =>
                  read_real_mem(t.mem, Slot(t), SIZE_LONG) = (PC(s) + Length(i)) % Long
<1> DEFINE e == IF i.data_size = SIZE_BYTE THEN Result(Begin(s), i.imm) ELSE Immediate(s, i)
           pc == MASK(PC(s) + SIZE_WORD, SIZE_LONG)
           target == pc + SignExtend(e.val, i.data_size)
<1>1. e.st \in Machine /\ e.val \in Int
  BY BeginQuiet, SourceReads, Members DEF Reads, Quiet, Result
<1>2. BccExecute(s, i) = SetPC(stackPush(e.st, SIZE_LONG, pc), target)
  BY DEF BccExecute, Branch
<1> HIDE DEF e
<1>3. PC(s) + SIZE_WORD \in Int
  BY PCInt DEF SIZE_WORD
<1>4. pc = (PC(s) + SIZE_WORD) % Long /\ pc \in 0 .. Long - 1 /\ pc \in Int
  BY <1>3, MaskLong, ModRange, Positive
<1> HIDE DEF pc
<1>5. target \in Int
  BY <1>1, <1>4, Members, MaskInt
<1> HIDE DEF target
<1> DEFINE t == SetPC(stackPush(e.st, SIZE_LONG, pc), target)
<1>6. /\ Slot(t) \in Address /\ Slot(t) + SIZE_LONG <= MemSize
      /\ read_real_mem(t.mem, Slot(t), SIZE_LONG) = pc % Long
  BY <1>1, <1>2, <1>4, <1>5, PushThenJump DEF Slot
<1>7. pc % Long = pc
  BY <1>4, ModSmall, Positive
<1>8. i.data_size = SIZE_BYTE => Length(i) = SIZE_WORD
  BY DEF Length, ImmediateSize, SourceClasses, DestClasses, ReadModifyWrite, SIZE_WORD, SIZE_BYTE
<1> QED
  BY <1>2, <1>4, <1>6, <1>7, <1>8

(* link saves the old value of the frame pointer below the stack pointer.  *)
LEMMA LinkSaves ==
  ASSUME NEW s \in Machine, NEW i \in Instruction, Ok(LinkExecute(s, i))
  PROVE  LET a == MASK_ADDR(ActiveSP(s) - SIZE_LONG)
         IN  /\ a \in Address /\ a + SIZE_LONG <= MemSize
             /\ read_real_mem(LinkExecute(s, i).mem, a, SIZE_LONG)
                  = get(s, i.dest_reg, SIZE_LONG)
<1> DEFINE e == MemGet(s, PC(s) + SIZE_WORD, SIZE_WORD)
           pc == PC(s) + 2 * SIZE_WORD
           t == SetPC(e.st, pc)
           v == get(t, i.dest_reg, SIZE_LONG)
           p == stackPush(t, SIZE_LONG, v)
           sp == get(p, REG_USP, SIZE_LONG)
           w == sp + SignExtend(e.val, SIZE_WORD)
           x == set(p, i.dest_reg, SIZE_LONG, sp)
           y == set(x, REG_USP, SIZE_LONG, w)
           a == MASK_ADDR(ActiveSP(s) - SIZE_LONG)
<1>1. y = LinkExecute(s, i)
  BY DEF LinkExecute
<1>2. /\ i.dest_reg \in Named /\ REG_USP \in Named /\ i.dest_reg \in 0 .. 15
      /\ SIZE_LONG \in DataSize /\ SIZE_WORD \in DataSize
  BY Members DEF Operands, Named, DataReg, AddrReg, DataSize, REG_USP
<1>3. PC(s) + SIZE_WORD \in Int /\ pc \in Int
  BY PCInt DEF SIZE_WORD
<1> HIDE DEF pc
<1>4. e.st \in Machine /\ e.val \in Int
  BY <1>2, <1>3, MemGetReads DEF Reads, Quiet
<1>5. t \in Machine /\ t.exc = e.st.exc /\ Level(e.st, t)
      /\ \A q \in RegisterType \ {REG_PC} : t.reg[q] = e.st.reg[q]
  BY <1>3, <1>4, PassesPC
<1> HIDE DEF t
<1>6. v \in Int
  BY <1>2, <1>5, GetInt
<1> HIDE DEF v
<1>7. p \in Machine
  BY <1>2, <1>5, <1>6, PushSafe DEF Safe
<1>8. Ok(p) => /\ Ok(t) /\ MASK_ADDR(ActiveSP(t) - SIZE_LONG) \in Address
               /\ MASK_ADDR(ActiveSP(t) - SIZE_LONG) + SIZE_LONG <= MemSize
               /\ read_real_mem(p.mem, MASK_ADDR(ActiveSP(t) - SIZE_LONG), SIZE_LONG) = v % Long
  BY <1>5, <1>6, PushStores
<1> HIDE DEF p
<1>9. sp \in Int
  BY <1>2, <1>7, GetInt
<1> HIDE DEF sp
<1>10. w \in Int
  BY <1>2, <1>4, <1>9, MaskInt
<1> HIDE DEF w
<1>11. x \in Machine /\ x.mem = p.mem /\ x.exc = p.exc
  BY <1>2, <1>7, <1>9, SetFacts, SMTT(60)
<1> HIDE DEF x
<1>12. y.mem = p.mem /\ y.exc = p.exc
  BY <1>2, <1>10, <1>11, SetFacts
<1> HIDE DEF y
<1>13. Ok(p) /\ Ok(t) /\ Ok(e.st)
  BY <1>1, <1>5, <1>8, <1>12 DEF Ok
<1>14. e.st = s
  BY <1>2, <1>3, <1>13, GetThrough
<1> HIDE DEF e
<1>15. \A q \in 0 .. 15 : Bank(t, q) = Bank(s, q) /\ Bank(s, q) \in RegisterType \ {REG_PC}
  BY <1>5, <1>14 DEF Level, Bank, RegisterType, REG_PC, REG_A7, REG_SSP
<1>16. ActiveSP(t) = ActiveSP(s) /\ v = get(s, i.dest_reg, SIZE_LONG)
  <2>1. REG_A7 \in 0 .. 15
    BY DEF REG_A7
  <2>2. \A q \in 0 .. 15 : t.reg[Bank(t, q)] = s.reg[Bank(s, q)]
    BY <1>5, <1>14, <1>15
  <2> QED
    BY <1>2, <2>1, <2>2 DEF ActiveSP, get, v
<1>17. v % Long = v
  <2>1. s.reg[Bank(s, i.dest_reg)] \in 0 .. Long - 1
    BY <1>2, BankSeparate DEF Machine, LongVal
  <2>2. v \in 0 .. Long - 1
    BY <1>2, <1>16, <2>1, LongRegister
  <2> QED
    BY <2>2, ModSmall, Positive
<1> QED
  BY <1>1, <1>8, <1>12, <1>13, <1>16, <1>17

(* unlk loads the long the frame pointer points at, and leaves the stack   *)
(* pointer above it, or at the value loaded if the frame pointer is A7.    *)
LEMMA UnlkLoads ==
  ASSUME NEW s \in Machine, NEW i \in Instruction, i.class = "Unlk", Ok(UnlkExecute(s, i))
  PROVE  LET t == UnlkExecute(s, i)
             v == get(s, i.dest_reg, SIZE_LONG)
             m == read_real_mem(s.mem, MASK_ADDR(v), SIZE_LONG)
         IN  /\ get(t, i.dest_reg, SIZE_LONG) = m % Long
             /\ ActiveSP(t) = IF i.dest_reg = REG_A7 THEN m % Long ELSE (v + SIZE_LONG) % Long
<1> DEFINE r == i.dest_reg
           b == Begin(s)
           v == get(b, r, SIZE_LONG)
           p == set(b, REG_USP, SIZE_LONG, v)
           o == stackPop(p, SIZE_LONG)
           t == set(o.st, r, SIZE_LONG, o.val)
<1>1. t = UnlkExecute(s, i)
  BY DEF UnlkExecute
<1>2. /\ r \in Named /\ REG_USP \in Named /\ r \in AddrReg /\ r \in 0 .. 15 /\ SIZE_LONG \in DataSize
      /\ REG_USP = REG_A7 /\ REG_A7 \in 0 .. 15
  BY DEF Instruction, InstructionsWith, WellFormed, Named, AddrReg, DataSize, REG_USP, REG_A7
<1>3. PC(s) + SIZE_WORD \in Int
  BY PCInt DEF SIZE_WORD
<1>4. b \in Machine /\ b.exc = s.exc /\ b.mem = s.mem /\ b.sup = s.sup
      /\ \A q \in RegisterType \ {REG_PC} : b.reg[q] = s.reg[q]
  <2>1. b \in Machine /\ b.exc = s.exc /\ \A q \in RegisterType \ {REG_PC} : b.reg[q] = s.reg[q]
    BY <1>3, PassesPC DEF Begin
  <2> QED
    BY <2>1, BeginQuiet DEF Quiet
<1> HIDE DEF b
<1>5. v \in Int /\ v \in 0 .. Long - 1
  <2>1. b.reg[Bank(b, r)] \in LongVal /\ get(b, r, SIZE_LONG) = b.reg[Bank(b, r)]
    BY <1>2, <1>4, BankSeparate, LongRegister DEF Machine
  <2> QED
    BY <2>1, Positive DEF LongVal
<1>6. v = get(s, r, SIZE_LONG)
  <2>1. Bank(b, r) = Bank(s, r) /\ Bank(s, r) \in RegisterType \ {REG_PC}
    BY <1>2, <1>4 DEF Bank, RegisterType, REG_PC, REG_A7, REG_SSP
  <2> QED
    BY <1>4, <2>1 DEF get
<1> HIDE DEF v
<1>7. p \in Machine /\ p.exc = b.exc /\ p.mem = b.mem /\ p.sup = b.sup
  BY <1>2, <1>4, <1>5, SetFacts
<1>8. Ok(b) => ActiveSP(p) = v
  <2> SUFFICES ASSUME Ok(b) PROVE ActiveSP(p) = v
    OBVIOUS
  <2>1. get(p, REG_USP, SIZE_LONG) = MASK(v, SIZE_LONG)
    BY <1>2, <1>4, <1>5, GetAfterSet
  <2>2. v % Long = v
    BY <1>5, ModSmall, Positive
  <2> QED
    BY <1>7, <2>1, <2>2, Pointers, MaskLong
<1> HIDE DEF p
<1>9. o.st \in Machine /\ o.val \in Int
  BY <1>2, <1>7, PopReads DEF Reads, Quiet
<1>10. Ok(o.st) => /\ Ok(p) /\ o.st.sup = p.sup
                   /\ o.val = read_real_mem(p.mem, MASK_ADDR(ActiveSP(p)), SIZE_LONG)
                   /\ ActiveSP(o.st) = (ActiveSP(p) + SIZE_LONG) % Long
  BY <1>7, PopFinds
<1> HIDE DEF o
<1>11. /\ t.exc = o.st.exc /\ t.sup = o.st.sup
       /\ \A q \in RegisterType : q # Bank(o.st, r) => t.reg[q] = o.st.reg[q]
  <2>1. r \in Named /\ SIZE_LONG \in DataSize /\ o.val \in Int /\ o.st \in Machine
    BY <1>2, <1>9
  <2> HIDE DEF r
  <2> QED
    BY <2>1, SetFacts
<1>12. Ok(o.st) => get(t, r, SIZE_LONG) = MASK(o.val, SIZE_LONG)
  BY <1>2, <1>9, GetAfterSet
<1>13. t \in Machine
  BY <1>2, <1>9, SetFacts
<1> HIDE DEF t
<1>14. Ok(o.st) /\ Ok(p) /\ Ok(b)
  BY <1>1, <1>7, <1>10, <1>11 DEF Ok
<1>15. get(t, r, SIZE_LONG) = o.val % Long
  BY <1>12, <1>14, MaskLong
<1>16. o.val = read_real_mem(s.mem, MASK_ADDR(v), SIZE_LONG)
  BY <1>4, <1>7, <1>8, <1>10, <1>14
<1>17. CASE r = REG_A7
  BY <1>1, <1>2, <1>6, <1>13, <1>15, <1>16, <1>17, Pointers
<1>18. CASE r # REG_A7
  <2>1. Bank(o.st, REG_A7) # Bank(o.st, r) /\ Bank(o.st, REG_A7) \in RegisterType
    BY <1>2, <1>18 DEF Bank, RegisterType, REG_A7, REG_SSP
  <2>2. ActiveSP(t) = ActiveSP(o.st)
    BY <1>11, <2>1 DEF ActiveSP, Bank
  <2> QED
    BY <1>1, <1>6, <1>8, <1>10, <1>14, <1>15, <1>16, <1>18, <2>2
<1> QED
  BY <1>17, <1>18
-----------------------------------------------------------------------------
(* What a step saves is there when it ends.                                *)
LEMMA SavedHeld ==
  ASSUME TypeOK, Step, Ok(Fetched.st), NEW f \in NewlySaved(cpu')
  PROVE  Held(cpu', f)
<1> DEFINE s == Fetched.st
           i == Decoded
           back == MASK(PC(cpu) + Length(i), SIZE_LONG)
<1>1. s \in Machine /\ i \in Instruction /\ PC(s) = PC(cpu) /\ ActiveSP(s) = ActiveSP(cpu)
      /\ s.reg = cpu.reg /\ s.sup = cpu.sup
  BY FetchedFacts, FetchMovesNothing
<1>2. Ok(cpu') /\ (IsCall(i) \/ i.class = "Link")
  BY DEF NewlySaved
<1>3. /\ i.class = "Jsr" => cpu' = JsrExecute(s, i)
      /\ i.class = "Bcc" => cpu' = BccExecute(s, i)
      /\ i.class = "Link" => cpu' = LinkExecute(s, i)
  BY StepExecutes
<1>4. PC(s) + Length(i) \in Int /\ REG_A7 # REG_PC
  <2>1. ImmediateSize(i) \in Int /\ DestBytes(i) \in Int /\ SourceBytes(i) \in Int
    BY <1>1, BytesInt, Members, ExtensionRange
       DEF ImmediateSize, SIZE_WORD, SIZE_LONG, AddressingMode
  <2> QED
    BY <1>1, <2>1, Pointers DEF Length, SourceBytes, DestBytes, SIZE_WORD, REG_A7, REG_PC
<1>5. NarrowBsr /\ i.class = "Bcc" /\ i.kind = 1 => i.data_size = SIZE_BYTE
  <2>1. Fetched.val \in WordVal
    <3>1. Ready \in Machine /\ Fetched = MemGet(Ready, PC(Ready), SIZE_WORD)
      BY ReadyFacts DEF Fetched, Ready
    <3>2. PC(Ready) \in Int /\ SIZE_WORD \in DataSize
      BY <3>1, PCInt DEF DataSize
    <3> QED
      BY <3>1, <3>2, MemGetReads
  <2> QED
    BY <2>1 DEF NarrowBsr, Decoded, Decode
<1>6. back = (PC(s) + Length(i)) % Long /\ back \in LongVal
  BY <1>1, <1>4, MaskLong, ModRange, Positive DEF LongVal
<1> HIDE DEF s, i, back
<1>7. CASE IsCall(i)
  <2>1. f = [kind |-> "call", slot |-> Slot(cpu'), reg |-> REG_PC, val |-> back]
    BY <1>2, <1>7 DEF NewlySaved, i, back
  <2>2. f.kind = "call" /\ f.slot = Slot(cpu') /\ f.reg = REG_PC /\ f.val = back
    BY <2>1
  <2>3. CASE i.class = "Jsr"
    <3>1. /\ Slot(cpu') \in Address /\ Slot(cpu') + SIZE_LONG <= MemSize
          /\ read_real_mem(cpu'.mem, Slot(cpu'), SIZE_LONG) = back
      BY <1>1, <1>2, <1>3, <1>6, <2>3, JsrSaves
    <3> QED
      BY <1>4, <1>6, <2>2, <3>1 DEF Held
  <2>4. CASE i.class = "Bcc" /\ i.kind = 1
    <3>1. /\ Slot(cpu') \in Address /\ Slot(cpu') + SIZE_LONG <= MemSize
          /\ i.data_size = SIZE_BYTE => read_real_mem(cpu'.mem, Slot(cpu'), SIZE_LONG) = back
      BY <1>1, <1>2, <1>3, <1>6, <2>4, BsrSaves
    <3> QED
      BY <1>4, <1>5, <1>6, <2>2, <2>4, <3>1 DEF Held
  <2> QED
    BY <1>7, <2>3, <2>4 DEF IsCall
<1>8. CASE i.class = "Link" /\ ~IsCall(i)
  <2> DEFINE sp == ActiveSP(s)
             a == MASK_ADDR(sp - SIZE_LONG)
             v == get(s, i.dest_reg, SIZE_LONG)
  <2>1. v = get(cpu, i.dest_reg, SIZE_LONG)
    BY <1>1 DEF get, Bank
  <2>2. f = [kind |-> "link", slot |-> a, reg |-> i.dest_reg, val |-> v]
    BY <1>1, <1>2, <1>8, <2>1 DEF NewlySaved, i
  <2>3. f.kind = "link" /\ f.slot = a /\ f.reg = i.dest_reg /\ f.val = v
    BY <2>2
  <2>4. /\ a \in Address /\ a + SIZE_LONG <= MemSize
        /\ read_real_mem(cpu'.mem, a, SIZE_LONG) = v
    BY <1>1, <1>2, <1>3, <1>8, LinkSaves
  <2>5. i.dest_reg \in Named
    BY <1>1, Members DEF Operands, Named, DataReg, AddrReg
  <2>6. v \in LongVal
    BY <1>1, <2>5, LongRegister, BankSeparate DEF Machine
  <2>7. i.dest_reg = REG_A7 => MASK_ADDR(v) = MASK_ADDR(a + SIZE_LONG)
    <3> SUFFICES ASSUME i.dest_reg = REG_A7 PROVE MASK_ADDR(v) = MASK_ADDR(a + SIZE_LONG)
      OBVIOUS
    <3>1. v = sp /\ sp \in Int
      BY <1>1, Pointers DEF REG_A7, REG_USP
    <3> HIDE DEF v, sp
    <3>2. sp - SIZE_LONG \in Int /\ SIZE_LONG \in Int /\ (sp - SIZE_LONG) + SIZE_LONG = sp
      BY <3>1 DEF SIZE_LONG
    <3>3. (((sp - SIZE_LONG) % AddrSpace) + SIZE_LONG) % AddrSpace
            = ((sp - SIZE_LONG) + SIZE_LONG) % AddrSpace
      BY <3>2, ModPlus, Positive
    <3> QED
      BY <3>1, <3>2, <3>3 DEF MASK_ADDR
  <2> HIDE DEF a, v
  <2> QED
    BY <2>3, <2>4, <2>6, <2>7 DEF Held
<1> QED
  BY <1>2, <1>7, <1>8 DEF IsCall

(* A slot whose four bytes are intact still holds its value.               *)
LEMMA IntactHeld ==
  ASSUME NEW f, Held(cpu, f), NEW t, Intact(t, f)
  PROVE  Held(t, f)
<1>1. f.slot \in Nat
  BY MemSizeAssumption, Positive DEF Held, Address
<1>2. /\ f.slot + 0 = f.slot /\ 0 \in 0 .. 3 /\ 1 \in 0 .. 3 /\ 2 \in 0 .. 3 /\ 3 \in 0 .. 3
  BY <1>1
<1>3. /\ t.mem[f.slot] = cpu.mem[f.slot] /\ t.mem[f.slot + 1] = cpu.mem[f.slot + 1]
      /\ t.mem[f.slot + 2] = cpu.mem[f.slot + 2] /\ t.mem[f.slot + 3] = cpu.mem[f.slot + 3]
  BY <1>2 DEF Intact
<1>4. read_real_mem(t.mem, f.slot, SIZE_LONG) = read_real_mem(cpu.mem, f.slot, SIZE_LONG)
  BY <1>3 DEF read_real_mem, SIZE_BYTE, SIZE_WORD, SIZE_LONG
<1> QED
  BY <1>4 DEF Held

(* Every step keeps what is still recorded as saved.                       *)
LEMMA CallsStep == CallsInv /\ [CallsNext]_callVars => CallsInv'
<1> SUFFICES ASSUME CallsInv, [CallsNext]_callVars PROVE CallsInv'
  OBVIOUS
<1>1. CASE CallsNext
  <2>1. TypeOK'
    BY <1>1, StepSafe DEF CallsInv, CallsNext, Safe, TypeOK
  <2>2. ASSUME NEW f \in saved' PROVE Held(cpu', f)
    <3>1. CASE f \in saved /\ Intact(cpu', f)
      BY <3>1, IntactHeld DEF CallsInv
    <3>2. CASE Ok(Fetched.st) /\ f \in NewlySaved(cpu')
      BY <1>1, <3>2, SavedHeld DEF CallsInv, CallsNext
    <3> QED
      BY <1>1, <2>2, <3>1, <3>2 DEF CallsNext
  <2> QED
    BY <2>1, <2>2 DEF CallsInv
<1>2. CASE UNCHANGED callVars
  BY <1>2 DEF callVars, CallsInv, TypeOK, Held
<1> QED
  BY <1>1, <1>2

(* Nothing is saved at first.                                              *)
LEMMA CallsStart == CallsInit => CallsInv
  BY BootAssumption DEF CallsInit, Init, CallsInv, TypeOK

(* One step of a program through an rts at a saved return address.         *)
LEMMA RtsReturns ==
  ASSUME CallsInv, NarrowBsr, Step, NEW f \in saved,
         Ok(Fetched.st), Decoded.class = "Rts", Ok(cpu'), f.slot = Slot(cpu)
  PROVE  /\ PC(cpu') = f.val
         /\ ActiveSP(cpu') = MASK(ActiveSP(cpu) + SIZE_LONG, SIZE_LONG)
<1> DEFINE s == Fetched.st
           r == stackPop(s, SIZE_LONG)
           t == SetPC(r.st, r.val)
<1>1. s \in Machine /\ ActiveSP(s) = ActiveSP(cpu) /\ s.mem = cpu.mem
  BY FetchMovesNothing, FetchedFacts, ReadyFacts DEF CallsInv, Quiet
<1>2. cpu' = t
  BY StepExecutes DEF RtsExecute
<1> HIDE DEF s
<1>3. r.st \in Machine /\ r.val \in Int
  BY <1>1, PopReads DEF Reads, Quiet, DataSize
<1>4. Ok(r.st) => /\ r.val = read_real_mem(s.mem, MASK_ADDR(ActiveSP(s)), SIZE_LONG)
                  /\ ActiveSP(r.st) = (ActiveSP(s) + SIZE_LONG) % Long
  BY <1>1, PopFinds
<1> HIDE DEF r
<1>5. /\ t.exc = r.st.exc /\ (Ok(r.st) => PC(t) = r.val % Long) /\ t.sup = r.st.sup
      /\ \A q \in RegisterType \ {REG_PC} : t.reg[q] = r.st.reg[q]
  BY <1>3, PassesPC DEF Level
<1> HIDE DEF t
<1>6. Ok(r.st)
  BY <1>2, <1>5 DEF Ok
<1>7. r.val = f.val /\ f.val \in 0 .. Long - 1
  BY <1>1, <1>4, <1>6 DEF CallsInv, Held, Slot, LongVal
<1>8. f.val % Long = f.val
  BY <1>7, ModSmall, Positive
<1>9. ActiveSP(t) = ActiveSP(r.st)
  <2>1. Bank(t, REG_A7) = Bank(r.st, REG_A7) /\ Bank(r.st, REG_A7) \in RegisterType \ {REG_PC}
    BY <1>5 DEF Bank, RegisterType, REG_A7, REG_SSP, REG_PC
  <2> QED
    BY <1>5, <2>1 DEF ActiveSP
<1> QED
  BY <1>1, <1>2, <1>4, <1>5, <1>6, <1>7, <1>8, <1>9, MaskLong

(* One step of a program through an unlk at a saved frame pointer.         *)
LEMMA UnlkReturns ==
  ASSUME CallsInv, Step, NEW f \in saved, Ok(Fetched.st), Decoded.class = "Unlk", Ok(cpu'),
         f.kind = "link", f.reg = Decoded.dest_reg,
         f.slot = MASK_ADDR(get(cpu, f.reg, SIZE_LONG))
  PROVE  /\ get(cpu', f.reg, SIZE_LONG) = f.val
         /\ MASK_ADDR(ActiveSP(cpu')) = MASK_ADDR(f.slot + SIZE_LONG)
<1> DEFINE s == Fetched.st
           i == Decoded
           v == get(s, i.dest_reg, SIZE_LONG)
<1>1. /\ s \in Machine /\ s.mem = cpu.mem /\ s.reg = cpu.reg /\ s.sup = cpu.sup
      /\ i \in Instruction
  BY FetchMovesNothing, FetchedFacts, ReadyFacts DEF CallsInv, Quiet
<1>2. cpu' = UnlkExecute(s, i)
  BY StepExecutes
<1>3. v = get(cpu, f.reg, SIZE_LONG) /\ f.slot = MASK_ADDR(v)
  BY <1>1 DEF get, Bank
<1>4. v \in Int
  BY <1>1, GetInt, Members DEF Operands, Named, DataReg, AddrReg, DataSize
<1> HIDE DEF s, v
<1>5. read_real_mem(s.mem, MASK_ADDR(v), SIZE_LONG) = f.val /\ f.val \in 0 .. Long - 1
  BY <1>1, <1>3 DEF CallsInv, Held, LongVal
<1>6. f.val % Long = f.val
  BY <1>5, ModSmall, Positive
<1>7. /\ get(cpu', i.dest_reg, SIZE_LONG) = f.val
      /\ ActiveSP(cpu') = IF i.dest_reg = REG_A7 THEN f.val ELSE (v + SIZE_LONG) % Long
  BY <1>1, <1>2, <1>5, <1>6, UnlkLoads DEF v
<1>8. MASK_ADDR((v + SIZE_LONG) % Long) = MASK_ADDR(f.slot + SIZE_LONG)
  <2>1. v + SIZE_LONG \in Int /\ SIZE_LONG \in Int
    BY <1>4 DEF SIZE_LONG
  <2>2. MASK_ADDR((v + SIZE_LONG) % Long) = MASK_ADDR(v + SIZE_LONG)
    BY <2>1, AddressOfLong
  <2>3. ((v % AddrSpace) + SIZE_LONG) % AddrSpace = (v + SIZE_LONG) % AddrSpace
    BY <1>4, <2>1, ModPlus, Positive
  <2> QED
    BY <1>3, <2>2, <2>3 DEF MASK_ADDR
<1>9. f.reg = REG_A7 => MASK_ADDR(f.val) = MASK_ADDR(f.slot + SIZE_LONG)
  BY DEF CallsInv, Held
<1> QED
  BY <1>7, <1>8, <1>9

(* Whatever ran in between, an rts at a return address that no step has    *)
(* overwritten continues behind its call: for every program whose table    *)
(* has no bsr with a displacement word.                                    *)
THEOREM CallReturns ==
  ASSUME NarrowBsr
  PROVE  CallsSpec => RtsResumesCaller
<1>1. CallsInv /\ [CallsNext]_callVars =>
        [ \A f \in saved :
            (/\ Ok(Fetched.st) /\ Decoded.class = "Rts" /\ Ok(cpu')
             /\ f.kind = "call" /\ f.slot = Slot(cpu))
            => /\ PC(cpu') = f.val
               /\ ActiveSP(cpu') = MASK(ActiveSP(cpu) + SIZE_LONG, SIZE_LONG) ]_callVars
  BY RtsReturns DEF CallsNext
<1> QED
  BY <1>1, CallsStart, CallsStep, PTL DEF CallsSpec, RtsResumesCaller

(* Whatever ran in between, an unlk through a frame pointer whose saved    *)
(* value no step has overwritten restores the register and drops the frame.*)
THEOREM FrameRestored == CallsSpec => UnlkRestoresFrame
<1>1. CallsInv /\ [CallsNext]_callVars =>
        [ \A f \in saved :
            (/\ Ok(Fetched.st) /\ Decoded.class = "Unlk" /\ Ok(cpu')
             /\ f.kind = "link" /\ f.reg = Decoded.dest_reg
             /\ f.slot = MASK_ADDR(get(cpu, f.reg, SIZE_LONG)))
            => /\ get(cpu', f.reg, SIZE_LONG) = f.val
               /\ MASK_ADDR(ActiveSP(cpu')) = MASK_ADDR(f.slot + SIZE_LONG) ]_callVars
  BY UnlkReturns DEF CallsNext
<1> QED
  BY <1>1, CallsStart, CallsStep, PTL DEF CallsSpec, UnlkRestoresFrame
-----------------------------------------------------------------------------
(* What division and multiplication leave open may come out either way.    *)
Divided(s, i, t) == \E u \in Undefined : t = DivExecute(s, i, u)
Multiplied(s, i, t) == \E u \in Undefined : t = MulExecute(s, i, u)

(* The machine s executed the instruction i and became t, without an       *)
(* exception, for the classes the properties of Programs are about.        *)
Executed(s, i, t) ==
  /\ s \in Machine /\ t \in Machine /\ Ok(s) /\ Ok(t)
  /\ i \in Instruction
  /\ i.class = "Add" => t = AddExecute(s, i)
  /\ i.class = "Addx" => t = AddxExecute(s, i)
  /\ i.class = "Sub" => t = SubExecute(s, i)
  /\ i.class = "Subx" => t = SubxExecute(s, i)
  /\ i.class = "Cmp" => t = CmpExecute(s, i)
  /\ i.class = "Scc" => t = SccExecute(s, i)
  /\ i.class = "Move" => t = MoveExecute(s, i)
  /\ i.class = "Div" => Divided(s, i, t)
  /\ i.class = "Mul" => Multiplied(s, i, t)

(* The trace explains the machine, as long as no exception has ended the   *)
(* program and it has executed two instructions at most.                   *)
Traced ==
  /\ start \in Machine
  /\ trace \in Seq(Instruction)
  /\ Ok(cpu) =>
       /\ Len(trace) = 0 => cpu = start
       /\ Len(trace) = 1 => Executed(start, trace[1], cpu)
       /\ Len(trace) = 2 =>
            \E m \in Machine : Executed(start, trace[1], m) /\ Executed(m, trace[2], cpu)

ProgramsInv == TypeOK /\ Traced

(* One step of a running program, as a relation.                           *)
LEMMA StepIsExecution ==
  ASSUME TypeOK, Ok(cpu), Step, Ok(cpu')
  PROVE  Executed(cpu, Decoded, cpu')
<1>1. Ready = cpu
  BY DEF TypeOK, Ready, Machine, Ok
<1>2. Fetched = MemGet(cpu, PC(cpu), SIZE_WORD)
  BY <1>1 DEF Fetched, Ready
<1>3. Ok(Fetched.st)
  <2> SUFFICES ASSUME ~Ok(Fetched.st) PROVE FALSE
    OBVIOUS
  <2>1. FetchFault
    BY DEF Step, Executes, Add, Adda, Addi, Addq, Addx, And, Andi, Bcc, BitManip, BitShift,
       Clr, Cmp, Cmpa, Cmpi, Div, Eor, Eori, Ext, Illegal, Jmp, Jsr, Lea, Link, Move, Moveq,
       Mul, Neg, Nop, Or, Ori, Pea, Rts, Scc, Sub, Suba, Subi, Subq, Subx, Tst, Unlk
  <2> QED
    BY <2>1 DEF FetchFault
<1>4. Fetched.st = cpu
  BY <1>2, <1>3, PCInt, GetThrough DEF TypeOK, DataSize
<1>5. cpu' \in Machine /\ Decoded \in Instruction
  BY StepSafe, FetchedFacts DEF Safe
<1> QED
  BY <1>3, <1>4, <1>5, StepExecutes DEF Executed, TypeOK, Divided, Multiplied

(* The trace stays an explanation.                                         *)
LEMMA ProgramsStep == ProgramsInv /\ [ProgramsNext]_programVars => ProgramsInv'
<1> SUFFICES ASSUME ProgramsInv, [ProgramsNext]_programVars PROVE ProgramsInv'
  OBVIOUS
<1>1. CASE ProgramsNext
  <2>1. TypeOK'
    BY <1>1, StepSafe DEF ProgramsInv, ProgramsNext, Safe, TypeOK
  <2>2. start' = start /\ Ok(cpu) /\ Step /\ TypeOK
    BY <1>1 DEF ProgramsNext, HostGoesOn, ProgramsInv
  <2>3. CASE ~Ok(cpu')
    BY <1>1, <2>1, <2>2, <2>3 DEF ProgramsNext, ProgramsInv, Traced
  <2>4. CASE Ok(cpu')
    <3> DEFINE i == Decoded
    <3>1. Executed(cpu, i, cpu') /\ i \in Instruction
      BY <2>2, <2>4, StepIsExecution DEF Executed
    <3>2. trace' = Append(trace, i)
      BY <1>1, <2>4 DEF ProgramsNext
    <3> HIDE DEF i
    <3>3. /\ trace \in Seq(Instruction) /\ start \in Machine
          /\ Len(trace) = 0 => cpu = start
          /\ Len(trace) = 1 => Executed(start, trace[1], cpu)
      BY <2>2 DEF ProgramsInv, Traced
    <3>4. /\ trace' \in Seq(Instruction) /\ Len(trace') = Len(trace) + 1 /\ Len(trace) \in Nat
          /\ trace'[Len(trace) + 1] = i
          /\ Len(trace) = 1 => trace'[1] = trace[1]
      BY <3>1, <3>2, <3>3
    <3>5. Len(trace') = 1 => Executed(start', trace'[1], cpu')
      <4> SUFFICES ASSUME Len(trace') = 1 PROVE Executed(start', trace'[1], cpu')
        OBVIOUS
      <4>1. Len(trace) = 0 /\ trace'[1] = i
        BY <3>4
      <4> QED
        BY <2>2, <3>1, <3>3, <4>1
    <3>6. Len(trace') = 2 =>
            \E m \in Machine : Executed(start', trace'[1], m) /\ Executed(m, trace'[2], cpu')
      <4> SUFFICES ASSUME Len(trace') = 2
                   PROVE  Executed(start', trace'[1], cpu) /\ Executed(cpu, trace'[2], cpu')
        BY <2>2 DEF TypeOK
      <4>1. Len(trace) = 1 /\ Len(trace) + 1 = 2
        <5>1. Len(trace') = Len(trace) + 1 /\ Len(trace) \in Nat
          BY <3>4
        <5>2. \A n \in Nat : n + 1 = 2 => n = 1
          OBVIOUS
        <5> QED
          BY <5>1, <5>2
      <4>2. trace'[2] = i /\ trace'[1] = trace[1]
        BY <3>4, <4>1
      <4> QED
        BY <2>2, <3>1, <3>3, <4>1, <4>2
    <3>7. Len(trace') # 0
      BY <3>4
    <3> QED
      BY <2>1, <2>2, <3>3, <3>4, <3>5, <3>6, <3>7 DEF ProgramsInv, Traced
  <2> QED
    BY <2>3, <2>4
<1>2. CASE UNCHANGED programVars
  BY <1>2 DEF programVars, ProgramsInv, Traced, TypeOK
<1> QED
  BY <1>1, <1>2

(* At first there is nothing to explain.                                   *)
LEMMA ProgramsStart == ProgramsInit => ProgramsInv
<1> SUFFICES ASSUME ProgramsInit PROVE ProgramsInv
  OBVIOUS
<1>1. cpu \in Machine /\ start = cpu /\ trace = << >>
  BY BootAssumption DEF ProgramsInit, Init
<1>2. trace \in Seq(Instruction) /\ Len(trace) = 0
  BY <1>1
<1> QED
  BY <1>1, <1>2 DEF ProgramsInv, Traced, TypeOK
-----------------------------------------------------------------------------
(* A byte and a word are even, and a sum of two of them fits into a long.  *)
LEMMA NarrowModulus ==
  ASSUME NEW size \in DataSize, size # SIZE_LONG
  PROVE  /\ \E g \in Nat \ {0} : Modulus(size) = 2 * g
         /\ 2 * Modulus(size) <= Long
<1>1. PICK g \in Nat \ {0} : Byte = 2 * g
  <2>1. Bits - 1 \in 0 .. 8 * Bits - 1 /\ Bits - 1 \in 0 .. 8 * Bits /\ (Bits - 1) + 1 = Bits
    BY BitsAssumption
  <2>2. Pow2[Bits - 1] \in Nat \ {0} /\ Pow2[(Bits - 1) + 1] = 2 * Pow2[Bits - 1]
    BY <2>1, Pow2Assumption
  <2> QED
    BY <2>1, <2>2 DEF Byte
<1>2. \A x, y \in Nat \ {0} : x * y \in Nat \ {0}
  OBVIOUS
<1>3. \A x, y \in Nat : x >= 2 => 2 * y <= y * x
  OBVIOUS
<1>4. CASE size = SIZE_BYTE
  <2>1. Modulus(size) = Byte
    BY <1>4 DEF Modulus
  <2>2. Byte * Word \in Nat \ {0} /\ Byte * Word >= 2
    <3>1. Byte * Word \in Nat \ {0} /\ 2 * Word <= Word * Byte /\ Word * Byte = Byte * Word
      BY <1>1, <1>2, <1>3, Positive
    <3> QED
      BY <3>1, Positive
  <2>3. Long = Byte * (Byte * Word)
    <3>1. \A x, y \in Int : (x * x) * y = x * (x * y)
      OBVIOUS
    <3> QED
      BY <3>1, Positive DEF Long, Word
  <2>4. 2 * Byte <= Byte * (Byte * Word)
    BY <1>3, <2>2, Positive
  <2> QED
    BY <1>1, <2>1, <2>3, <2>4
<1>5. CASE size = SIZE_WORD
  <2>1. Modulus(size) = Word
    BY <1>5 DEF Modulus, SIZE_BYTE, SIZE_WORD
  <2>2. Word = 2 * (g * Byte) /\ g * Byte \in Nat \ {0}
    <3>1. \A x, y \in Int : (2 * x) * y = 2 * (x * y)
      OBVIOUS
    <3> QED
      BY <1>1, <1>2, <3>1, Positive DEF Word
  <2>3. 2 * Word <= Word * Word
    BY <1>3, <2>2, Positive
  <2> QED
    BY <2>1, <2>2, <2>3 DEF Long
<1> QED
  BY <1>4, <1>5 DEF DataSize

(* One wrap, upwards or downwards.                                         *)
LEMMA ModOnce ==
  ASSUME NEW v \in Int, NEW n \in Nat \ {0}
  PROVE  /\ v - n \in 0 .. n - 1 => v % n = v - n
         /\ v + n \in 0 .. n - 1 => v % n = v + n
<1> DEFINE up == 1
           down == -1
<1>1. up \in Int /\ down \in Int /\ v = n * up + (v - n) /\ v = n * down + (v + n)
  OBVIOUS
<1> HIDE DEF up, down
<1> QED
  BY <1>1, ModUnique

(* The sum of two operands and a carry: its low part, and whether the flag *)
(* test of helpers.hpp sees the carry out.                                 *)
LEMMA LimbSum ==
  ASSUME NEW size \in DataSize, size # SIZE_LONG, NEW v \in 0 .. 2 * Modulus(size) - 1
  PROVE  LET m == Modulus(size)
             r == v % Long
         IN  /\ MASK(r, size) = IF v >= m THEN v - m ELSE v
             /\ IS_CARRY(r, size) <=> v >= m
<1> DEFINE m == Modulus(size)
<1>1. m \in Nat \ {0} /\ 2 * m <= Long
  BY ModulusDivides, NarrowModulus
<1> HIDE DEF m
<1>2. v \in 0 .. 2 * m - 1 /\ v \in Int
  BY <1>1 DEF m
<1>3. v \in 0 .. Long - 1
  BY <1>1, <1>2, Positive
<1>4. v % Long = v
  BY <1>3, ModSmall, Positive
<1>5. CASE v >= m
  <2>1. v - m \in 0 .. m - 1
    BY <1>1, <1>2, <1>5
  <2>2. v % m = v - m
    BY <1>1, <1>2, <2>1, ModOnce
  <2> QED
    BY <1>1, <1>2, <1>4, <1>5, <2>2 DEF MASK, IS_CARRY, m
<1>6. CASE ~(v >= m)
  <2>1. v \in 0 .. m - 1
    BY <1>1, <1>2, <1>6
  <2>2. v % m = v
    BY <1>1, <2>1, ModSmall
  <2> QED
    BY <1>1, <1>2, <1>4, <1>6, <2>2 DEF MASK, IS_CARRY, m
<1> QED
  BY <1>5, <1>6

(* Their difference, with a borrow.                                        *)
LEMMA LimbDifference ==
  ASSUME NEW size \in DataSize, size # SIZE_LONG,
         NEW v \in -Modulus(size) .. Modulus(size) - 1
  PROVE  LET m == Modulus(size)
             r == v % Long
         IN  /\ MASK(r, size) = IF v < 0 THEN v + m ELSE v
             /\ IS_CARRY(r, size) <=> v < 0
<1> DEFINE m == Modulus(size)
<1>1. m \in Nat \ {0} /\ 2 * m <= Long
  BY ModulusDivides, NarrowModulus
<1>2. PICK k \in Nat \ {0} : Long = k * m
  BY ModulusDivides
<1> HIDE DEF m
<1>3. v \in -m .. m - 1 /\ v \in Int
  BY <1>1 DEF m
<1>4. (v % Long) % m = v % m
  BY <1>1, <1>2, <1>3, ModOfMod
<1>5. CASE v < 0
  <2>1. v + m \in 0 .. m - 1 /\ v + Long \in 0 .. Long - 1
    BY <1>1, <1>3, <1>5, Positive
  <2>2. v % m = v + m
    BY <1>1, <1>3, <2>1, ModOnce
  <2>3. v % Long = v + Long
    BY <1>3, <2>1, ModOnce, Positive
  <2>4. v + Long > v + m
    BY <1>1, <1>3, Positive
  <2> QED
    BY <1>4, <1>5, <2>2, <2>3, <2>4 DEF MASK, IS_CARRY, m
<1>6. CASE ~(v < 0)
  <2>1. v \in 0 .. m - 1 /\ v \in 0 .. Long - 1
    BY <1>1, <1>3, <1>6, Positive
  <2>2. v % m = v /\ v % Long = v
    BY <1>1, <2>1, ModSmall, Positive
  <2> QED
    BY <1>3, <1>6, <2>2 DEF MASK, IS_CARRY, m
<1> QED
  BY <1>5, <1>6
-----------------------------------------------------------------------------
(* The opening of an execute() that starts without an exception.           *)
LEMMA Began ==
  ASSUME NEW s \in Machine, Ok(s)
  PROVE  LET b == Begin(s)
         IN  /\ b \in Machine /\ Ok(b)
             /\ b.ccr = s.ccr /\ b.mem = s.mem /\ b.sup = s.sup
             /\ PC(b) = (PC(s) + SIZE_WORD) % Long
             /\ \A q \in RegisterType \ {REG_PC} : b.reg[q] = s.reg[q]
             /\ \A r \in 0 .. 15, size \in DataSize : get(b, r, size) = get(s, r, size)
<1> DEFINE b == Begin(s)
<1>1. PC(s) + SIZE_WORD \in Int
  BY PCInt DEF SIZE_WORD
<1>2. /\ b \in Machine /\ b.exc = s.exc /\ PC(b) = (PC(s) + SIZE_WORD) % Long
      /\ \A q \in RegisterType \ {REG_PC} : b.reg[q] = s.reg[q]
  BY <1>1, PassesPC DEF Begin
<1>3. b.ccr = s.ccr /\ b.mem = s.mem /\ b.sup = s.sup
  BY BeginQuiet DEF Quiet
<1> HIDE DEF b
<1>4. \A r \in 0 .. 15 : Bank(b, r) = Bank(s, r) /\ Bank(s, r) \in RegisterType \ {REG_PC}
  BY <1>3 DEF Bank, RegisterType, REG_PC, REG_A7, REG_SSP
<1>5. \A r \in 0 .. 15, size \in DataSize : get(b, r, size) = get(s, r, size)
  BY <1>2, <1>4 DEF get
<1> QED
  BY <1>2, <1>3, <1>5 DEF Ok, b

(* Operands in data registers.                                             *)
LEMMA RegisterOperands ==
  ASSUME NEW i, NEW s
  PROVE  /\ i.src_mode = DIRECT_DATA =>
              Source(s, i) = Result(Begin(s), get(Begin(s), i.src_reg, i.data_size))
         /\ i.dest_mode = DIRECT_DATA =>
              /\ Dest(s, i) = Result(s, get(s, i.dest_reg, i.data_size))
              /\ getData(s, i.dest_mode, i.dest_reg, i.data_size)
                   = Result(s, get(s, i.dest_reg, i.data_size))
              /\ \A v, size : setData(s, i.dest_mode, i.dest_reg, size, v)
                                = set(s, i.dest_reg, size, v)
  BY DEF Source, Dest, getData, getDataWith, getDataSilent, getDataSilentWith, Accessed, setData,
         setDataWith, StoreAt, DIRECT_DATA, DIRECT_ADDR, PC_DISPLACEMENT, PC_INDEX, IMMEDIATE,
         UNKNOWN, ABS_WORD

(* A result in a data register, with its flags.                            *)
LEMMA RegisterResult ==
  ASSUME NEW s \in Machine, Ok(s), NEW d \in DataReg, NEW size \in DataSize, NEW v \in Int,
         NEW f \in CCR
  PROVE  LET t == SetFlags(set(Begin(s), d, size, v), f)
         IN  /\ t.ccr = f
             /\ get(t, d, size) = MASK(v, size)
             /\ \A r \in DataReg \ {d}, z \in DataSize : get(t, r, z) = get(s, r, z)
<1> DEFINE b == Begin(s)
           u == set(b, d, size, v)
           t == SetFlags(u, f)
<1>1. /\ b \in Machine /\ Ok(b) /\ b.sup = s.sup
      /\ \A r \in 0 .. 15, z \in DataSize : get(b, r, z) = get(s, r, z)
  BY Began
<1>2. d \in Named /\ DataReg \subseteq 0 .. 15 /\ DataReg \subseteq RegisterType
  BY DEF Named, DataReg, RegisterType
<1> HIDE DEF b
<1>3. /\ u \in Machine /\ u.sup = b.sup /\ u.exc = b.exc
      /\ \A q \in RegisterType : q # Bank(b, d) => u.reg[q] = b.reg[q]
      /\ get(u, d, size) = MASK(v, size)
  BY <1>1, <1>2, SetFacts, GetAfterSet
<1> HIDE DEF u
<1>4. Ok(u)
  BY <1>1, <1>3 DEF Ok
<1>5. t.ccr = f /\ t.reg = u.reg /\ t.sup = u.sup
  BY <1>3, <1>4 DEF SetFlags, Machine
<1> HIDE DEF t
<1>6. \A r \in DataReg : Bank(t, r) = r /\ Bank(u, r) = r /\ Bank(b, r) = r
  BY DEF Bank, DataReg, REG_A7
<1>7. get(t, d, size) = MASK(v, size)
  BY <1>3, <1>5, <1>6 DEF get
<1>8. \A r \in DataReg \ {d}, z \in DataSize : get(t, r, z) = get(b, r, z)
  BY <1>2, <1>3, <1>5, <1>6 DEF get
<1> QED
  BY <1>1, <1>2, <1>5, <1>7, <1>8 DEF t, u, b
-----------------------------------------------------------------------------
(* The exact result of an addition or subtraction of one limb, and whether *)
(* it leaves the limb.                                                     *)
Adds(i) == i.class \in {"Add", "Addx"}

Extends(i) == i.class \in {"Addx", "Subx"}

LimbExact(s, i) ==
  LET a == get(s, i.dest_reg, i.data_size)
      b == get(s, i.src_reg, i.data_size)
      x == IF Extends(i) THEN Extend(s) ELSE 0
  IN  IF Adds(i) THEN a + b + x ELSE a - b - x

LimbWraps(s, i) ==
  IF Adds(i) THEN LimbExact(s, i) >= Modulus(i.data_size) ELSE LimbExact(s, i) < 0

(* A register read is in the range of its size.                            *)
LEMMA GetRange ==
  ASSUME NEW s \in Machine, NEW r \in 0 .. 15, NEW size \in DataSize
  PROVE  get(s, r, size) \in 0 .. Modulus(size) - 1
<1>1. r \in Named
  BY DEF Named, DataReg, AddrReg
<1>2. s.reg[Bank(s, r)] \in Int
  BY <1>1, BankSeparate, Positive DEF Machine, LongVal
<1> QED
  BY <1>2, ModulusDivides, ModRange DEF get, MASK

(* What add, addx, sub and subx do to two data registers, and the flags.   *)
LEMMA LimbStep ==
  ASSUME NEW s, NEW i, NEW t, Executed(s, i, t), BetweenDataRegisters(i),
         i.data_size # SIZE_LONG, i.class \in {"Add", "Addx", "Sub", "Subx"}
  PROVE  LET m == Modulus(i.data_size)
             v == LimbExact(s, i)
             low == get(t, i.dest_reg, i.data_size)
             w == LimbWraps(s, i)
         IN  /\ low = IF w THEN IF Adds(i) THEN v - m ELSE v + m ELSE v
             /\ (t.ccr.X <=> w) /\ (t.ccr.C <=> w)
             /\ t.ccr.Z <=> (low = 0 /\ (Extends(i) => s.ccr.Z))
             /\ t.ccr.N <=> 2 * low >= m
             /\ \A r \in DataReg \ {i.dest_reg}, z \in DataSize : get(t, r, z) = get(s, r, z)
<1> DEFINE size == i.data_size
           d == i.dest_reg
           m == Modulus(size)
           a == get(s, d, size)
           b == get(s, i.src_reg, size)
           x == IF Extends(i) THEN Extend(s) ELSE 0
           v == LimbExact(s, i)
           w == LimbWraps(s, i)
           r == v % Long
           o == [st |-> Begin(s), src |-> b, val |-> a]
           f == IF Extends(i) THEN ExtendedFlags(s, b, a, r, size) ELSE ArithFlags(b, a, r, size)
<1>1. /\ s \in Machine /\ t \in Machine /\ Ok(s) /\ i \in Instruction
      /\ i.src_mode = DIRECT_DATA /\ i.dest_mode = DIRECT_DATA
  BY DEF Executed, BetweenDataRegisters
<1>2. /\ size \in DataSize /\ size # SIZE_LONG /\ i.src_reg \in DataReg /\ d \in DataReg
      /\ DataReg \subseteq 0 .. 15
  BY <1>1, Members DEF Instruction, InstructionsWith, WellFormed, EAFormed, DataReg
<1>3. a \in 0 .. m - 1 /\ b \in 0 .. m - 1 /\ m \in Nat \ {0}
  BY <1>1, <1>2, GetRange, ModulusDivides
<1>4. x \in 0 .. 1
  BY DEF Extend
<1>5. v = IF Adds(i) THEN a + b + x ELSE a - b - x
  BY DEF LimbExact
<1>6. FromSource(s, i) = o
  <2>1. \A q \in 0 .. 15, z \in DataSize : get(Begin(s), q, z) = get(s, q, z)
    BY <1>1, Began
  <2>2. Source(s, i) = Result(Begin(s), b) /\ Dest(Begin(s), i) = Result(Begin(s), a)
    BY <1>1, <1>2, <2>1, RegisterOperands
  <2> QED
    BY <2>2 DEF FromSource, ReadBoth, Pair, Result
<1>7. t = SetFlags(set(Begin(s), d, size, r), f)
  <2>1. o.st = Begin(s) /\ o.src = b /\ o.val = a
    OBVIOUS
  <2>2. \A y : Store(Begin(s), i, y) = set(Begin(s), d, size, y)
    BY <1>1, RegisterOperands DEF Store
  <2>3. CASE i.class = "Add"
    <3>1. Adds(i) /\ ~Extends(i) /\ v = b + a
      BY <1>3, <1>5, <2>3 DEF Adds, Extends
    <3>2. t = Arith(o, i, Sum(o))
      BY <1>6, <2>3 DEF Executed, AddExecute, AddTo
    <3> QED
      BY <2>1, <2>2, <3>1, <3>2 DEF Arith, Sum
  <2>4. CASE i.class = "Sub"
    <3>1. ~Adds(i) /\ ~Extends(i) /\ v = a - b
      BY <1>3, <1>5, <2>4 DEF Adds, Extends
    <3>2. t = Arith(o, i, Difference(o))
      BY <1>6, <2>4 DEF Executed, SubExecute, SubtractFrom
    <3> QED
      BY <2>1, <2>2, <3>1, <3>2 DEF Arith, Difference
  <2>5. CASE i.class = "Addx"
    <3>1. Adds(i) /\ Extends(i) /\ v = b + a + Extend(s)
      BY <1>3, <1>4, <1>5, <2>5 DEF Adds, Extends
    <3>2. t = AddExtended(s, o, i)
      BY <1>6, <2>5 DEF Executed, AddxExecute
    <3> QED
      BY <2>1, <2>2, <3>1, <3>2 DEF AddExtended, ExtendedArith
  <2>6. CASE i.class = "Subx"
    <3>1. ~Adds(i) /\ Extends(i) /\ v = a - b - Extend(s)
      BY <1>3, <1>4, <1>5, <2>6 DEF Adds, Extends
    <3>2. t = SubtractExtended(s, o, i)
      BY <1>6, <2>6 DEF Executed, SubxExecute
    <3> QED
      BY <2>1, <2>2, <3>1, <3>2 DEF SubtractExtended, ExtendedArith
  <2> QED
    BY <2>3, <2>4, <2>5, <2>6
<1>8. /\ MASK(r, size) = IF w THEN IF Adds(i) THEN v - m ELSE v + m ELSE v
      /\ IS_CARRY(r, size) <=> w
      /\ v \in Int
  <2> HIDE DEF a, b, x
  <2>1. CASE Adds(i)
    <3>1. v \in 0 .. 2 * m - 1
      BY <1>3, <1>4, <1>5, <2>1
    <3> QED
      BY <1>2, <2>1, <3>1, LimbSum DEF LimbWraps
  <2>2. CASE ~Adds(i)
    <3>1. v \in -m .. m - 1
      BY <1>3, <1>4, <1>5, <2>2
    <3> QED
      BY <1>2, <2>2, <3>1, LimbDifference DEF LimbWraps
  <2> QED
    BY <2>1, <2>2
<1>9. r \in Int /\ f \in CCR
  <2>1. v \in Int
    BY <1>8
  <2> HIDE DEF v
  <2>2. r \in 0 .. Long - 1
    BY <2>1, ModRange, Positive
  <2>3. r \in Int
    BY <2>2, Positive
  <2>4. ExtendedFlags(s, b, a, r, size) \in CCR /\ ArithFlags(b, a, r, size) \in CCR
    BY <1>1, FlagsInCCR
  <2> QED
    BY <2>3, <2>4
<1> HIDE DEF v, w, a, b
<1>10. /\ t.ccr = f /\ get(t, d, size) = MASK(r, size)
       /\ \A q \in DataReg \ {d}, z \in DataSize : get(t, q, z) = get(s, q, z)
  <2> HIDE DEF f, r, d, size
  <2> QED
    BY <1>1, <1>2, <1>7, <1>9, RegisterResult
<1>11. /\ f.X = IS_CARRY(r, size) /\ f.C = IS_CARRY(r, size) /\ f.N = IS_NEGATIVE(r, size)
       /\ f.Z = IF Extends(i) THEN s.ccr.Z /\ IS_ZERO(r, size) ELSE IS_ZERO(r, size)
  BY DEF ExtendedFlags, ArithFlags
<1>12. /\ (IS_NEGATIVE(r, size) <=> 2 * MASK(r, size) >= m) /\ (IS_ZERO(r, size) <=> MASK(r, size) = 0)
  BY DEF IS_NEGATIVE, IS_ZERO
<1> HIDE DEF f, r
<1> QED
  BY <1>8, <1>10, <1>11, <1>12 DEF v, w
-----------------------------------------------------------------------------
(* A number of two limbs and its exact value, k ranges apart.              *)
LEMMA WideNumber ==
  ASSUME NEW g \in Nat \ {0}, NEW m \in Nat \ {0}, m = 2 * g,
         NEW low \in 0 .. m - 1, NEW high \in 0 .. m - 1, NEW k \in {-1, 0, 1}, NEW exact \in Int,
         exact = (high * m + low) + k * (m * m)
  PROVE  LET result == high * m + low
         IN  /\ exact % (m * m) = result
             /\ exact # result <=> k # 0
             /\ result = 0 <=> high = 0 /\ low = 0
             /\ 2 * result >= m * m <=> 2 * high >= m
<1> DEFINE range == m * m
           wide == high * m
           result == wide + low
<1>1. range \in Nat \ {0} /\ wide \in Nat /\ low \in Nat /\ k \in Int
  OBVIOUS
<1>2. wide <= (m - 1) * m /\ (m - 1) * m = range - m
  <2>1. \A x, y, z \in Nat : x <= y => x * z <= y * z
    OBVIOUS
  <2>2. high \in Nat /\ m - 1 \in Nat /\ high <= m - 1
    OBVIOUS
  <2>3. (m - 1) * m = range - m
    OBVIOUS
  <2> QED
    BY <2>1, <2>2, <2>3
<1>3. (wide = 0 <=> high = 0) /\ (2 * high >= m => wide >= g * m) /\ (~(2 * high >= m) => wide <= g * m - m)
  <2>1. high = 0 => wide = 0
    OBVIOUS
  <2>2. high # 0 => wide # 0
    <3>1. \A x, y \in Nat \ {0} : x * y # 0
      OBVIOUS
    <3> QED
      BY <3>1
  <2>3. \A x, y, z \in Nat : x <= y => x * z <= y * z
    OBVIOUS
  <2>4. 2 * high >= m => g <= high
    OBVIOUS
  <2>5. ~(2 * high >= m) => high <= g - 1 /\ g - 1 \in Nat
    OBVIOUS
  <2>6. (g - 1) * m = g * m - m
    OBVIOUS
  <2>7. 2 * high >= m => g * m <= wide
    BY <2>3, <2>4
  <2>8. ~(2 * high >= m) => wide <= (g - 1) * m
    BY <2>3, <2>5
  <2> QED
    BY <2>1, <2>2, <2>6, <2>7, <2>8, <1>1
<1>4. range = 2 * (g * m) /\ g * m \in Nat
  <2>1. \A x, y \in Int : (2 * x) * y = 2 * (x * y)
    OBVIOUS
  <2> QED
    BY <2>1
<1>5. k * range = range * k /\ exact = result + k * range
  OBVIOUS
<1> HIDE DEF range, wide
<1>6. result \in 0 .. range - 1
  BY <1>1, <1>2
<1>7. exact % range = result
  <2>1. exact = range * k + result
    BY <1>1, <1>5, <1>6
  <2> QED
    BY <1>1, <1>6, <2>1, ModUnique
<1>8. exact # result <=> k # 0
  <2>1. k = 0 => k * range = 0
    BY <1>1
  <2>2. k # 0 => k * range # 0
    <3>1. 1 * range = range /\ (-1) * range = -range
      BY <1>1
    <3> QED
      BY <1>1, <3>1
  <2>3. k * range \in Int
    BY <1>1
  <2> QED
    BY <1>1, <1>5, <1>6, <2>1, <2>2, <2>3
<1>9. result = 0 <=> high = 0 /\ low = 0
  BY <1>1, <1>3
<1>10. 2 * result >= range <=> 2 * high >= m
  BY <1>1, <1>3, <1>4
<1> QED
  BY <1>7, <1>8, <1>9, <1>10 DEF range, wide

(* The wrap of a limb, as a number: what its exact result is too large by. *)
LEMMA LimbRange ==
  ASSUME NEW s, NEW i, NEW t, Executed(s, i, t), BetweenDataRegisters(i),
         i.data_size # SIZE_LONG, i.class \in {"Add", "Addx", "Sub", "Subx"}
  PROVE  LET m == Modulus(i.data_size)
             k == IF LimbWraps(s, i) THEN IF Adds(i) THEN 1 ELSE -1 ELSE 0
             low == get(t, i.dest_reg, i.data_size)
         IN  low \in 0 .. m - 1 /\ LimbExact(s, i) = low + k * m
<1> DEFINE m == Modulus(i.data_size)
           low == get(t, i.dest_reg, i.data_size)
           v == LimbExact(s, i)
<1>1. /\ t \in Machine /\ s \in Machine /\ i.data_size \in DataSize
      /\ i.dest_reg \in 0 .. 15 /\ i.src_reg \in 0 .. 15
  BY Members DEF Executed, Operands
<1>2. low \in 0 .. m - 1 /\ m \in Nat \ {0}
  BY <1>1, GetRange, ModulusDivides
<1>3. v \in Int
  <2>1. /\ get(s, i.dest_reg, i.data_size) \in Int /\ get(s, i.src_reg, i.data_size) \in Int
        /\ Extend(s) \in Int
    BY <1>1, <1>2, GetRange DEF Extend
  <2> QED
    BY <2>1 DEF LimbExact
<1>4. low = IF LimbWraps(s, i) THEN IF Adds(i) THEN v - m ELSE v + m ELSE v
  BY LimbStep
<1> HIDE DEF m, low, v
<1>5. v = low + (IF LimbWraps(s, i) THEN IF Adds(i) THEN 1 ELSE -1 ELSE 0) * m
  BY <1>2, <1>3, <1>4
<1> QED
  BY <1>2, <1>5 DEF m, low, v

(* Two limbs, one after the other: the arithmetic of the whole number.     *)
LEMMA WideExact ==
  ASSUME NEW m \in Int, NEW al \in Int, NEW bl \in Int, NEW ah \in Int, NEW bh \in Int,
         NEW low \in Int, NEW high \in Int, NEW k1 \in Int, NEW k2 \in Int,
         NEW sub \in BOOLEAN,
         low + k1 * m = IF sub THEN al - bl ELSE al + bl,
         high + k2 * m = IF sub THEN ah - bh + k1 ELSE ah + bh + k1
  PROVE  (IF sub THEN (ah * m + al) - (bh * m + bl) ELSE (ah * m + al) + (bh * m + bl))
           = (high * m + low) + k2 * (m * m)
<1>1. \A x, y, z \in Int : (x + y) * z = x * z + y * z
  OBVIOUS
<1>2. \A x, y, z \in Int : (x - y) * z = x * z - y * z
  OBVIOUS
<1>3. (k2 * m) * m = k2 * (m * m) /\ k2 * m \in Int
  OBVIOUS
<1>4. (high + k2 * m) * m = high * m + k2 * (m * m)
  BY <1>1, <1>3
<1>5. /\ high * m \in Int /\ k2 * (m * m) \in Int /\ k1 * m \in Int /\ ah * m \in Int
      /\ bh * m \in Int
  OBVIOUS
<1>6. CASE sub
  <2>1. ((ah - bh) + k1) * m = (ah * m - bh * m) + k1 * m
    BY <1>1, <1>2
  <2>2. high * m + k2 * (m * m) = (ah * m - bh * m) + k1 * m /\ low + k1 * m = al - bl
    BY <1>4, <1>6, <2>1
  <2> QED
    BY <1>5, <1>6, <2>2
<1>7. CASE ~sub
  <2>1. ((ah + bh) + k1) * m = (ah * m + bh * m) + k1 * m
    BY <1>1
  <2>2. high * m + k2 * (m * m) = (ah * m + bh * m) + k1 * m /\ low + k1 * m = al + bl
    BY <1>4, <1>7, <2>1
  <2> QED
    BY <1>5, <1>7, <2>2
<1> QED
  BY <1>6, <1>7

(* Whatever the two limbs and the flags were, the pair computes exactly.   *)
LEMMA WideInState ==
  ASSUME ProgramsInv
  PROVE  WideArithmetic
<1> SUFFICES ASSUME Len(trace) = 2, Ok(cpu), LimbPair(trace[1], trace[2]),
                    trace[1].data_size # SIZE_LONG
             PROVE  ExactInLimbs(trace[1], trace[2])
  BY DEF WideArithmetic, First2
<1> DEFINE i == trace[1]
           j == trace[2]
           size == i.data_size
           m == Modulus(size)
<1>1. PICK u \in Machine : Executed(start, i, u) /\ Executed(u, j, cpu)
  BY DEF ProgramsInv, Traced
<1>2. /\ <<i.class, j.class>> \in {<<"Add", "Addx">>, <<"Sub", "Subx">>}
      /\ BetweenDataRegisters(i) /\ BetweenDataRegisters(j)
      /\ j.data_size = size /\ size # SIZE_LONG
      /\ i.dest_reg # j.src_reg /\ i.dest_reg # j.dest_reg
  BY DEF LimbPair
<1> HIDE DEF i, j
<1>3. /\ i.class \in {"Add", "Sub"} /\ j.class \in {"Addx", "Subx"}
      /\ (i.class = "Add" <=> j.class = "Addx")
      /\ (Adds(i) <=> i.class = "Add") /\ (Adds(j) <=> i.class = "Add")
      /\ ~Extends(i) /\ Extends(j)
  BY <1>2 DEF Adds, Extends
<1>4. /\ size \in DataSize /\ start \in Machine /\ cpu \in Machine /\ Ok(start)
      /\ {i.dest_reg, i.src_reg, j.dest_reg, j.src_reg} \subseteq DataReg
      /\ DataReg \subseteq 0 .. 15
  BY <1>1, <1>2, Members
     DEF Executed, Instruction, InstructionsWith, WellFormed, EAFormed, BetweenDataRegisters,
         DataReg
<1>5. PICK g \in Nat \ {0} : m = 2 * g
  BY <1>2, <1>4, NarrowModulus
<1>6. m \in Nat \ {0}
  BY <1>4, ModulusDivides
<1> DEFINE al == get(start, i.dest_reg, size)
           bl == get(start, i.src_reg, size)
           ah == get(start, j.dest_reg, size)
           bh == get(start, j.src_reg, size)
           low == get(cpu, i.dest_reg, size)
           high == get(cpu, j.dest_reg, size)
           one == IF i.class = "Add" THEN 1 ELSE -1
           k1 == IF LimbWraps(start, i) THEN one ELSE 0
           k2 == IF LimbWraps(u, j) THEN one ELSE 0
           sub == i.class = "Sub"
<1>7. al \in Int /\ bl \in Int /\ ah \in Int /\ bh \in Int
  <2>1. \A r \in 0 .. 15 : get(start, r, size) \in 0 .. m - 1
    BY <1>4, GetRange
  <2> HIDE DEF m, size
  <2>2. \A r \in 0 .. 15 : get(start, r, size) \in Int
    BY <1>6, <2>1
  <2>3. i.dest_reg \in 0 .. 15 /\ i.src_reg \in 0 .. 15 /\ j.dest_reg \in 0 .. 15 /\ j.src_reg \in 0 .. 15
    BY <1>4
  <2> QED
    BY <2>2, <2>3
<1>8. get(u, i.dest_reg, size) = low /\ get(u, j.dest_reg, size) = ah /\ get(u, j.src_reg, size) = bh
  <2>1. /\ \A r \in DataReg \ {i.dest_reg}, z \in DataSize : get(u, r, z) = get(start, r, z)
        /\ \A r \in DataReg \ {j.dest_reg}, z \in DataSize : get(cpu, r, z) = get(u, r, z)
    BY <1>1, <1>2, <1>3, LimbStep
  <2> QED
    BY <1>2, <1>4, <2>1
<1>9. /\ low \in 0 .. m - 1 /\ LimbExact(start, i) = low + k1 * m
      /\ high \in 0 .. m - 1 /\ LimbExact(u, j) = high + k2 * m
  BY <1>1, <1>2, <1>3, <1>8, LimbRange
<1>10. /\ (u.ccr.X <=> LimbWraps(start, i)) /\ (u.ccr.Z <=> low = 0)
       /\ (cpu.ccr.X <=> LimbWraps(u, j)) /\ (cpu.ccr.C <=> LimbWraps(u, j))
       /\ (cpu.ccr.Z <=> high = 0 /\ u.ccr.Z) /\ (cpu.ccr.N <=> 2 * high >= m)
  BY <1>1, <1>2, <1>3, <1>8, LimbStep
<1>11. /\ cpu.ccr.X \in BOOLEAN /\ cpu.ccr.C \in BOOLEAN /\ cpu.ccr.Z \in BOOLEAN
       /\ cpu.ccr.N \in BOOLEAN
  BY <1>4 DEF Machine, CCR
<1>12. low + k1 * m = IF sub THEN al - bl ELSE al + bl
  <2>1. LimbExact(start, i) = IF i.class = "Add" THEN al + bl + 0 ELSE al - bl - 0
    BY <1>3 DEF LimbExact
  <2> QED
    BY <1>3, <1>7, <1>9, <2>1
<1>13. high + k2 * m = IF sub THEN ah - bh + k1 ELSE ah + bh + k1
  <2> DEFINE x == Extend(u)
  <2>1. LimbExact(u, j) = IF i.class = "Add" THEN ah + bh + x ELSE ah - bh - x
    BY <1>2, <1>3, <1>8 DEF LimbExact
  <2>2. x = IF LimbWraps(start, i) THEN 1 ELSE 0
    BY <1>10 DEF Extend
  <2> HIDE DEF x
  <2> QED
    BY <1>3, <1>7, <1>9, <2>1, <2>2
<1>14. k1 \in Int /\ k2 \in {-1, 0, 1} /\ k2 \in Int /\ sub \in BOOLEAN /\ (k2 # 0 <=> LimbWraps(u, j))
  OBVIOUS
<1> HIDE DEF al, bl, ah, bh, low, high, k1, k2, sub, m
<1> DEFINE src == bh * m + bl
           dest == ah * m + al
           exact == IF i.class = "Add" THEN dest + src ELSE dest - src
           result == high * m + low
<1>15. m \in Int /\ low \in Int /\ high \in Int
  BY <1>6, <1>9
<1>16. exact = result + k2 * (m * m)
  <2>1. (IF sub THEN (ah * m + al) - (bh * m + bl) ELSE (ah * m + al) + (bh * m + bl))
           = (high * m + low) + k2 * (m * m)
    BY <1>7, <1>12, <1>13, <1>14, <1>15, WideExact
  <2> QED
    BY <1>3, <2>1 DEF sub
<1>17. exact \in Int
  BY <1>7, <1>15
<1> HIDE DEF exact
<1>18. /\ exact % (m * m) = result
       /\ exact # result <=> k2 # 0
       /\ result = 0 <=> high = 0 /\ low = 0
       /\ 2 * result >= m * m <=> 2 * high >= m
  BY <1>5, <1>6, <1>9, <1>14, <1>16, <1>17, WideNumber
<1>19. /\ cpu.ccr.X = (exact # result) /\ cpu.ccr.C = (exact # result)
       /\ cpu.ccr.Z = (result = 0) /\ cpu.ccr.N = (2 * result >= m * m)
  BY <1>10, <1>11, <1>14, <1>18
<1>20. /\ Wide(start, i.src_reg, j.src_reg, size) = src
       /\ Wide(start, i.dest_reg, j.dest_reg, size) = dest
       /\ Wide(cpu, i.dest_reg, j.dest_reg, size) = result
  BY DEF Wide, al, bl, ah, bh, low, high, m
<1> HIDE DEF src, dest, result
<1>21. ExactInLimbs(i, j)
  BY <1>18, <1>19, <1>20 DEF ExactInLimbs, exact, m
<1> QED
  BY <1>21 DEF i, j

(* On numbers of two bytes or words, add or sub on the low limbs and addx  *)
(* or subx on the high ones compute the exact sum or difference modulo the *)
(* range, with carry, zero and sign of the whole number, for every width   *)
(* of a byte and all operands.                                             *)
THEOREM WideArithmeticExact == ProgramsSpec => []WideArithmetic
  BY ProgramsStart, ProgramsStep, WideInState, PTL DEF ProgramsSpec
-----------------------------------------------------------------------------
(* A comparison of two data registers: the carry flag says less, the zero  *)
(* flag says equal.                                                        *)
LEMMA CompareStep ==
  ASSUME NEW s, NEW i, NEW t, Executed(s, i, t), BetweenDataRegisters(i),
         i.data_size # SIZE_LONG, i.class = "Cmp"
  PROVE  LET a == get(s, i.dest_reg, i.data_size)
             b == get(s, i.src_reg, i.data_size)
         IN  (t.ccr.C <=> a < b) /\ (t.ccr.Z <=> a = b)
<1> DEFINE size == i.data_size
           m == Modulus(size)
           a == get(s, i.dest_reg, size)
           b == get(s, i.src_reg, size)
           v == a - b
           r == v % Long
           o == [st |-> Begin(s), src |-> b, val |-> a]
           f == CompareFlags(Begin(s), b, a, r, size)
<1>1. /\ s \in Machine /\ Ok(s) /\ i \in Instruction
      /\ i.src_mode = DIRECT_DATA /\ i.dest_mode = DIRECT_DATA
  BY DEF Executed, BetweenDataRegisters
<1>2. /\ size \in DataSize /\ size # SIZE_LONG /\ i.src_reg \in 0 .. 15 /\ i.dest_reg \in 0 .. 15
  BY <1>1, Members DEF Operands
<1>3. a \in 0 .. m - 1 /\ b \in 0 .. m - 1 /\ m \in Nat \ {0}
  BY <1>1, <1>2, GetRange, ModulusDivides
<1>4. t = SetFlags(Begin(s), f)
  <2>1. \A q \in 0 .. 15, z \in DataSize : get(Begin(s), q, z) = get(s, q, z)
    BY <1>1, Began
  <2>2. Source(s, i) = Result(Begin(s), b)
    BY <1>1, <1>2, <2>1, RegisterOperands
  <2>3. getData(Begin(s), i.dest_mode, i.dest_reg, size) = Result(Begin(s), a)
    BY <1>1, <1>2, <2>1, RegisterOperands
  <2>4. Source(s, i).st = Begin(s) /\ Source(s, i).val = b
    BY <2>2 DEF Result
  <2>5. Pair(Source(s, i), getData(Begin(s), i.dest_mode, i.dest_reg, size)) = o
    BY <2>3, <2>4 DEF Pair, Result
  <2>6. t = Compared(o, i)
    BY <2>4, <2>5 DEF Executed, CmpExecute, Compare
  <2>7. o.st = Begin(s) /\ o.src = b /\ o.val = a
    OBVIOUS
  <2> QED
    BY <2>6, <2>7 DEF Compared, Difference
<1>5. Begin(s) \in Machine /\ Ok(Begin(s))
  BY <1>1, Began
<1>6. t.ccr = f
  BY <1>4, <1>5 DEF SetFlags, Machine
<1>7. f.C = IS_CARRY(r, size) /\ f.Z = IS_ZERO(r, size)
  BY DEF CompareFlags, ArithFlags
<1>8. /\ MASK(r, size) = IF v < 0 THEN v + m ELSE v
      /\ IS_CARRY(r, size) <=> v < 0
  <2> HIDE DEF a, b
  <2>1. v \in -m .. m - 1
    BY <1>3
  <2> HIDE DEF v
  <2> QED
    BY <1>2, <2>1, LimbDifference
<1>9. IS_ZERO(r, size) <=> MASK(r, size) = 0
  BY DEF IS_ZERO
<1> HIDE DEF r, f, a, b
<1>10. (t.ccr.C <=> a < b) /\ (t.ccr.Z <=> a = b)
  BY <1>3, <1>6, <1>7, <1>8, <1>9
<1> QED
  BY <1>10 DEF a, b

(* A byte set on a condition, in a data register.                          *)
LEMMA SccStep ==
  ASSUME NEW s, NEW i, NEW t, Executed(s, i, t), i.dest_mode = DIRECT_DATA, i.class = "Scc"
  PROVE  get(t, i.dest_reg, SIZE_BYTE) = Byte - 1 <=> checkCondition(s, i.kind)
<1> DEFINE d == i.dest_reg
           b == Begin(s)
           v == IF checkCondition(b, i.kind) THEN Byte - 1 ELSE 0
<1>1. s \in Machine /\ Ok(s) /\ i \in Instruction
  BY DEF Executed
<1>2. d \in Named /\ SIZE_BYTE \in DataSize
  BY <1>1 DEF Instruction, InstructionsWith, WellFormed, EAFormed, DataReg, Named, DataSize
<1>3. b \in Machine /\ Ok(b) /\ b.ccr = s.ccr
  BY <1>1, Began
<1>4. checkCondition(b, i.kind) = checkCondition(s, i.kind)
  BY <1>3 DEF checkCondition
<1>5. t = set(b, d, SIZE_BYTE, v)
  BY RegisterOperands DEF Executed, SccExecute
<1>6. Byte \in Nat /\ Byte >= 2 /\ Modulus(SIZE_BYTE) = Byte
  <2>1. Modulus(SIZE_BYTE) = Byte
    BY DEF Modulus
  <2>2. SIZE_BYTE # SIZE_LONG
    BY DEF SIZE_BYTE, SIZE_LONG
  <2>3. PICK g \in Nat \ {0} : Modulus(SIZE_BYTE) = 2 * g
    BY <1>2, <2>2, NarrowModulus
  <2> QED
    BY <2>1, <2>3
<1>7. v \in Int
  BY <1>6
<1>8. get(t, d, SIZE_BYTE) = MASK(v, SIZE_BYTE)
  <2> HIDE DEF v
  <2> QED
    BY <1>2, <1>3, <1>5, <1>7, GetAfterSet
<1>9. MASK(v, SIZE_BYTE) = v
  BY <1>6, ModSmall DEF MASK
<1> QED
  BY <1>4, <1>6, <1>8, <1>9

(* Whatever was compared, the byte says how the operands compare.          *)
LEMMA OrderInState ==
  ASSUME ProgramsInv
  PROVE  UnsignedOrder
<1> SUFFICES ASSUME Len(trace) = 2, Ok(cpu), CompareAndSet(trace[1], trace[2]),
                    trace[2].kind \in 2 .. 7, trace[1].data_size # SIZE_LONG
             PROVE  IsSet(trace[2])
                      = UnsignedRelation(trace[2].kind,
                          get(start, trace[1].dest_reg, trace[1].data_size),
                          get(start, trace[1].src_reg, trace[1].data_size))
  BY DEF UnsignedOrder, First2
<1> DEFINE i == trace[1]
           j == trace[2]
           a == get(start, i.dest_reg, i.data_size)
           b == get(start, i.src_reg, i.data_size)
<1>1. PICK u \in Machine : Executed(start, i, u) /\ Executed(u, j, cpu)
  BY DEF ProgramsInv, Traced
<1>2. /\ i.class = "Cmp" /\ BetweenDataRegisters(i) /\ i.data_size # SIZE_LONG
      /\ j.class = "Scc" /\ j.dest_mode = DIRECT_DATA /\ j.kind \in 2 .. 7
  BY DEF CompareAndSet
<1> HIDE DEF i, j
<1>3. IsSet(j) <=> checkCondition(u, j.kind)
  BY <1>1, <1>2, SccStep DEF IsSet
<1>4. (u.ccr.C <=> a < b) /\ (u.ccr.Z <=> a = b)
  BY <1>1, <1>2, CompareStep
<1>5. a \in Int /\ b \in Int
  <2>1. start \in Machine /\ i.data_size \in DataSize /\ i.dest_reg \in 0 .. 15 /\ i.src_reg \in 0 .. 15
    BY <1>1, Members DEF Executed, Operands
  <2> QED
    BY <2>1, GetRange, ModulusDivides
<1> HIDE DEF a, b
<1>6. checkCondition(u, j.kind) <=> UnsignedRelation(j.kind, a, b)
  <2>1. CASE j.kind = 2
    <3>1. checkCondition(u, 2) <=> ~u.ccr.C /\ ~u.ccr.Z
      BY DEF checkCondition
    <3>2. UnsignedRelation(2, a, b) <=> a > b
      BY DEF UnsignedRelation
    <3> QED
      BY <1>4, <1>5, <2>1, <3>1, <3>2
  <2>2. CASE j.kind = 3
    <3>1. checkCondition(u, 3) <=> u.ccr.C \/ u.ccr.Z
      BY DEF checkCondition
    <3>2. UnsignedRelation(3, a, b) <=> a <= b
      BY DEF UnsignedRelation
    <3> QED
      BY <1>4, <1>5, <2>2, <3>1, <3>2
  <2>3. CASE j.kind = 4
    <3>1. checkCondition(u, 4) <=> ~u.ccr.C
      BY DEF checkCondition
    <3>2. UnsignedRelation(4, a, b) <=> a >= b
      BY DEF UnsignedRelation
    <3> QED
      BY <1>4, <1>5, <2>3, <3>1, <3>2
  <2>4. CASE j.kind = 5
    <3>1. checkCondition(u, 5) <=> u.ccr.C
      BY DEF checkCondition
    <3>2. UnsignedRelation(5, a, b) <=> a < b
      BY DEF UnsignedRelation
    <3> QED
      BY <1>4, <1>5, <2>4, <3>1, <3>2
  <2>5. CASE j.kind = 6
    <3>1. checkCondition(u, 6) <=> ~u.ccr.Z
      BY DEF checkCondition
    <3>2. UnsignedRelation(6, a, b) <=> a # b
      BY DEF UnsignedRelation
    <3> QED
      BY <1>4, <1>5, <2>5, <3>1, <3>2
  <2>6. CASE j.kind = 7
    <3>1. checkCondition(u, 7) <=> u.ccr.Z
      BY DEF checkCondition
    <3>2. UnsignedRelation(7, a, b) <=> a = b
      BY DEF UnsignedRelation
    <3> QED
      BY <1>4, <1>5, <2>6, <3>1, <3>2
  <2> QED
    BY <1>2, <2>1, <2>2, <2>3, <2>4, <2>5, <2>6
<1>7. UnsignedRelation(j.kind, a, b) \in BOOLEAN
  <2>1. UnsignedRelation(2, a, b) \in BOOLEAN
    BY <1>5 DEF UnsignedRelation
  <2>2. UnsignedRelation(3, a, b) \in BOOLEAN
    BY <1>5 DEF UnsignedRelation
  <2>3. UnsignedRelation(4, a, b) \in BOOLEAN
    BY <1>5 DEF UnsignedRelation
  <2>4. UnsignedRelation(5, a, b) \in BOOLEAN
    BY <1>5 DEF UnsignedRelation
  <2>5. UnsignedRelation(6, a, b) \in BOOLEAN
    BY <1>5 DEF UnsignedRelation
  <2>6. UnsignedRelation(7, a, b) \in BOOLEAN
    BY <1>5 DEF UnsignedRelation
  <2>7. j.kind = 2 \/ j.kind = 3 \/ j.kind = 4 \/ j.kind = 5 \/ j.kind = 6 \/ j.kind = 7
    BY <1>2
  <2> QED
    BY <2>1, <2>2, <2>3, <2>4, <2>5, <2>6, <2>7, Zenon
<1>8. IsSet(j) = UnsignedRelation(j.kind, a, b)
  BY <1>3, <1>6, <1>7 DEF IsSet
<1> QED
  BY <1>8 DEF i, j, a, b

(* After cmp.b or cmp.w between any two data registers, each of the        *)
(* conditions hi, ls, cc, cs, ne and eq sets its byte if and only if the   *)
(* operands are so ordered as unsigned numbers, for every width of a byte. *)
THEOREM ComparisonsOrder == ProgramsSpec => []UnsignedOrder
  BY ProgramsStart, ProgramsStep, OrderInState, PTL DEF ProgramsSpec
-----------------------------------------------------------------------------
(* Truncated division leaves a rest below the divisor, of the dividend's   *)
(* sign.                                                                   *)
LEMMA Truncated ==
  ASSUME NEW n \in Int, NEW m \in Int, m # 0
  PROVE  LET q == Quotient(n, m)
         IN  q \in Int /\ MultipleBelow(q * m, n, m) /\ Magnitude(q) <= Magnitude(n)
<1> DEFINE a == Magnitude(n)
           b == Magnitude(m)
           k == a \div b
           r == a % b
           q == Quotient(n, m)
<1>1. a \in Nat /\ b \in Nat \ {0}
  BY DEF Magnitude
<1>2. n = IF n < 0 THEN -a ELSE a
  BY DEF Magnitude
<1>3. m = IF m < 0 THEN -b ELSE b
  BY DEF Magnitude
<1>4. q = IF (n < 0) = (m < 0) THEN k ELSE -k
  BY DEF Quotient, Magnitude
<1> HIDE DEF a, b, q
<1>5. k \in Int /\ r \in 0 .. b - 1 /\ a = b * k + r
  BY <1>1, DivMod
<1> HIDE DEF k, r
<1>6. k >= 0
  <2>1. \A x \in Int, y \in Nat \ {0} : x <= -1 => y * x <= -y
    OBVIOUS
  <2>2. k <= -1 => b * k <= -b
    BY <1>1, <1>5, <2>1
  <2> QED
    BY <1>1, <1>5, <2>2
<1>7. b * k \in Nat /\ k <= b * k /\ b * k <= a
  <2>1. \A x \in Nat, y \in Nat \ {0} : y * x \in Nat /\ x <= y * x
    OBVIOUS
  <2>2. b * k \in Nat /\ k <= b * k
    BY <1>1, <1>5, <1>6, <2>1
  <2> QED
    BY <1>1, <1>5, <2>2
<1>8. q \in Int /\ Magnitude(q) = k
  BY <1>4, <1>5, <1>6 DEF Magnitude
<1>9. q * m = IF n < 0 THEN -(b * k) ELSE b * k
  <2>1. \A x, y \in Int : /\ x * y = y * x /\ (-x) * y = -(y * x)
                           /\ x * (-y) = -(y * x) /\ (-x) * (-y) = y * x
    OBVIOUS
  <2>2. /\ k * b = b * k /\ (-k) * b = -(b * k)
        /\ k * (-b) = -(b * k) /\ (-k) * (-b) = b * k
    BY <1>1, <1>5, <2>1
  <2>3. CASE n < 0 /\ m < 0
    BY <1>3, <1>4, <2>2, <2>3
  <2>4. CASE n < 0 /\ ~(m < 0)
    BY <1>3, <1>4, <2>2, <2>4
  <2>5. CASE ~(n < 0) /\ m < 0
    BY <1>3, <1>4, <2>2, <2>5
  <2>6. CASE ~(n < 0) /\ ~(m < 0)
    BY <1>3, <1>4, <2>2, <2>6
  <2> QED
    BY <2>3, <2>4, <2>5, <2>6
<1> DEFINE p == q * m
           c == b * k
<1>10. p = IF n < 0 THEN -c ELSE c
  BY <1>9
<1>11. p % b = 0
  <2>1. p = b * (IF n < 0 THEN -k ELSE k) + 0
    <3>1. \A x, y \in Int : y * (-x) + 0 = -(y * x) /\ y * x + 0 = y * x
      OBVIOUS
    <3> QED
      BY <1>1, <1>5, <1>10, <3>1
  <2>2. (IF n < 0 THEN -k ELSE k) \in Int /\ 0 \in 0 .. b - 1
    BY <1>1, <1>5
  <2>3. p \in Int
    BY <1>7, <1>10
  <2> HIDE DEF p
  <2> QED
    BY <1>1, <2>1, <2>2, <2>3, ModUnique
<1>12. c \in Nat /\ c <= a /\ a = c + r
  BY <1>5, <1>7
<1> HIDE DEF p, c
<1>13. Magnitude(n - p) = r
  BY <1>1, <1>2, <1>5, <1>10, <1>12 DEF Magnitude
<1>14. Magnitude(p) = c
  BY <1>10, <1>12 DEF Magnitude
<1>15. MultipleBelow(p, n, m)
  BY <1>1, <1>5, <1>11, <1>12, <1>13, <1>14 DEF MultipleBelow, a, b
<1>16. Magnitude(q) <= a
  BY <1>1, <1>5, <1>7, <1>8
<1> QED
  BY <1>8, <1>15, <1>16 DEF p, q, a

(* The quotient of two signed words is one, but for the smallest word      *)
(* divided by -1.                                                          *)
LEMMA QuotientFits ==
  ASSUME NEW h \in Nat, h >= 2, NEW n \in -h .. h - 1, NEW m \in -h .. h - 1, m # 0,
         ~(n = -h /\ m = -1)
  PROVE  Quotient(n, m) \in -h .. h - 1
<1> DEFINE q == Quotient(n, m)
<1>1. q \in Int /\ MultipleBelow(q * m, n, m) /\ Magnitude(q) <= Magnitude(n)
  BY Truncated
<1> HIDE DEF q
<1>2. q >= -h /\ q <= h
  BY <1>1 DEF Magnitude
<1>3. ASSUME q = h PROVE FALSE
  <2>1. n = -h
    BY <1>1, <1>3 DEF Magnitude
  <2>2. Magnitude(h * m) <= h
    BY <1>3, <2>1, <1>1 DEF MultipleBelow, Magnitude
  <2>3. \A x \in Int : (x >= 2 => h * x >= 2 * h) /\ (x <= -2 => h * x <= -(2 * h))
    OBVIOUS
  <2>4. m = 1
    <3>1. m >= 2 => h * m >= 2 * h
      BY <2>3
    <3>2. m <= -2 => h * m <= -(2 * h)
      BY <2>3
    <3>3. h * m \in Int
      OBVIOUS
    <3>4. m < 2 /\ m > -2
      BY <2>2, <3>1, <3>2, <3>3 DEF Magnitude
    <3> QED
      BY <2>1, <3>4
  <2>5. Magnitude(n - h) < 1
    <3>1. q * m = h
      BY <1>3, <2>4
    <3> QED
      BY <1>1, <2>4, <3>1 DEF MultipleBelow, Magnitude
  <2> QED
    BY <2>1, <2>5 DEF Magnitude
<1>4. q # h
  BY <1>3
<1> QED
  BY <1>1, <1>2, <1>4 DEF q

(* The cast to a signed number finds the number again.                     *)
LEMMA SignedFinds ==
  ASSUME NEW size, NEW h \in Nat \ {0}, Modulus(size) = 2 * h, NEW x \in -h .. h - 1, NEW v,
         MASK(v, size) = MASK(x, size)
  PROVE  Signed(v, size) = x
<1> DEFINE w == 2 * h
<1>1. w \in Nat \ {0} /\ x \in Int
  OBVIOUS
<1>2. x % w = IF x < 0 THEN x + w ELSE x
  <2>1. CASE x < 0
    <3>1. x + w \in 0 .. w - 1
      BY <2>1
    <3> QED
      BY <1>1, <2>1, <3>1, ModOnce
  <2>2. CASE ~(x < 0)
    <3>1. x \in 0 .. w - 1
      BY <2>2
    <3> QED
      BY <1>1, <2>2, <3>1, ModSmall
  <2> QED
    BY <2>1, <2>2
<1>3. MASK(v, size) = IF x < 0 THEN x + w ELSE x
  BY <1>2 DEF MASK
<1>4. IS_NEGATIVE(v, size) <=> x < 0
  BY <1>3 DEF IS_NEGATIVE
<1> QED
  BY <1>3, <1>4 DEF Signed

(* ... and gives a number of the range.                                    *)
LEMMA SignedRange ==
  ASSUME NEW size, NEW h \in Nat \ {0}, Modulus(size) = 2 * h, NEW v \in Int
  PROVE  Signed(v, size) \in -h .. h - 1
<1> DEFINE w == 2 * h
           x == v % w
<1>1. x \in 0 .. w - 1 /\ w \in Nat \ {0}
  <2>1. w \in Nat \ {0}
    OBVIOUS
  <2> HIDE DEF w
  <2> QED
    BY <2>1, DivMod
<1>2. MASK(v, size) = x
  BY DEF MASK
<1> HIDE DEF x
<1>3. CASE 2 * x >= w
  BY <1>1, <1>2, <1>3 DEF Signed, IS_NEGATIVE
<1>4. CASE ~(2 * x >= w)
  BY <1>1, <1>2, <1>4 DEF Signed, IS_NEGATIVE
<1> QED
  BY <1>3, <1>4

(* Half a word is at least 2, and half a long at least a word.             *)
LEMMA Halves ==
  \E h, l \in Nat : /\ h >= 2 /\ Word = 2 * h /\ Modulus(SIZE_WORD) = Word
                     /\ l >= Word /\ Long = 2 * l /\ Modulus(SIZE_LONG) = Long
<1>1. Modulus(SIZE_BYTE) = Byte /\ Modulus(SIZE_WORD) = Word /\ Modulus(SIZE_LONG) = Long
  BY DEF Modulus, SIZE_BYTE, SIZE_WORD, SIZE_LONG
<1>2. PICK g \in Nat \ {0} : Byte = 2 * g
  <2>1. SIZE_BYTE \in DataSize /\ SIZE_BYTE # SIZE_LONG
    BY DEF DataSize, SIZE_BYTE, SIZE_LONG
  <2> QED
    BY <1>1, <2>1, NarrowModulus
<1> DEFINE h == 2 * (g * g)
           l == h * Word
<1>3. g * g \in Nat \ {0}
  OBVIOUS
<1>4. Word = 2 * h
  <2>1. \A x \in Nat : (2 * x) * (2 * x) = 2 * (2 * (x * x))
    OBVIOUS
  <2> QED
    BY <1>2, <2>1 DEF Word
<1>5. h \in Nat /\ h >= 2
  BY <1>3
<1> HIDE DEF h
<1>6. Long = 2 * l
  <2>1. \A x, y \in Nat : (2 * x) * y = 2 * (x * y)
    OBVIOUS
  <2>2. (2 * h) * Word = 2 * (h * Word)
    BY <1>5, <2>1, Positive
  <2> QED
    BY <1>4, <2>2 DEF Long
<1>7. l \in Nat /\ l >= Word
  <2>1. \A x, y \in Nat : x >= 2 => x * y \in Nat /\ x * y >= y
    OBVIOUS
  <2> QED
    BY <1>5, <2>1, Positive
<1> QED
  BY <1>1, <1>4, <1>5, <1>6, <1>7

(* The low word of a register is what its long leaves modulo a word.       *)
LEMMA WordOfLong ==
  ASSUME NEW s \in Machine, NEW r \in DataReg
  PROVE  get(s, r, SIZE_WORD) = get(s, r, SIZE_LONG) % Word
<1> DEFINE v == s.reg[Bank(s, r)]
<1>1. v \in 0 .. Long - 1 /\ v \in Int
  BY BankSeparate, Positive DEF Machine, LongVal, Named
<1> HIDE DEF v
<1>2. MASK(v, SIZE_LONG) = v
  BY <1>1, MaskLong, ModSmall, Positive
<1>3. MASK(v, SIZE_WORD) = v % Word
  BY Halves DEF MASK
<1> QED
  BY <1>2, <1>3 DEF get, v

(* The quotient of natural numbers is one.                                 *)
LEMMA QuotientNat ==
  ASSUME NEW n \in Nat, NEW m \in Nat \ {0}
  PROVE  Quotient(n, m) >= 0
<1>1. Quotient(n, m) = n \div m
  BY DEF Quotient
<1>2. n \div m \in Nat
  OBVIOUS
<1> QED
  BY <1>1, <1>2

(* The two operands of div and mul, as numbers.                            *)
LEMMA WordOperands ==
  ASSUME NEW s \in Machine, Ok(s), NEW i \in Instruction, BetweenDataRegisters(i),
         i.data_size = SIZE_WORD
  PROVE  LET b == get(s, i.src_reg, SIZE_WORD)
             a == get(s, i.dest_reg, SIZE_WORD)
         IN  /\ FromSource(s, i) = [st |-> Begin(s), src |-> b, val |-> a]
             /\ a \in 0 .. Word - 1 /\ b \in 0 .. Word - 1
             /\ i.src_reg \in DataReg /\ i.dest_reg \in DataReg
<1>1. i.src_mode = DIRECT_DATA /\ i.dest_mode = DIRECT_DATA
  BY DEF BetweenDataRegisters
<1>2. /\ SIZE_WORD \in DataSize /\ i.src_reg \in DataReg /\ i.dest_reg \in DataReg
      /\ DataReg \subseteq 0 .. 15
  BY <1>1 DEF DataSize, Instruction, InstructionsWith, WellFormed, EAFormed, DataReg
<1>3. Modulus(SIZE_WORD) = Word
  BY Halves
<1>4. \A q \in 0 .. 15, z \in DataSize : get(Begin(s), q, z) = get(s, q, z)
  BY Began
<1>5. /\ Source(s, i) = Result(Begin(s), get(s, i.src_reg, SIZE_WORD))
      /\ Dest(Begin(s), i) = Result(Begin(s), get(s, i.dest_reg, SIZE_WORD))
  BY <1>1, <1>2, <1>4, RegisterOperands
<1>6. FromSource(s, i) = [ st |-> Begin(s), src |-> get(s, i.src_reg, SIZE_WORD),
                           val |-> get(s, i.dest_reg, SIZE_WORD) ]
  BY <1>5 DEF FromSource, ReadBoth, Pair, Result
<1>7. \A q \in DataReg : get(s, q, SIZE_WORD) \in 0 .. Word - 1
  BY <1>2, <1>3, GetRange
<1> QED
  BY <1>2, <1>6, <1>7

(* div leaves the quotient in the low word.                                *)
LEMMA DivStep ==
  ASSUME NEW s, NEW i, NEW t, Executed(s, i, t), BetweenDataRegisters(i),
         i.data_size = SIZE_WORD, i.class = "Div",
         Number(i, get(s, i.src_reg, SIZE_WORD), SIZE_WORD) # 0
  PROVE  LET n == Number(i, get(s, i.dest_reg, SIZE_WORD), SIZE_WORD)
             m == Number(i, get(s, i.src_reg, SIZE_WORD), SIZE_WORD)
         IN  /\ get(t, i.dest_reg, SIZE_WORD) = MASK(Quotient(n, m), SIZE_WORD)
             /\ \A r \in DataReg \ {i.dest_reg}, z \in DataSize : get(t, r, z) = get(s, r, z)
<1> DEFINE d == i.dest_reg
           a == get(s, d, SIZE_WORD)
           b == get(s, i.src_reg, SIZE_WORD)
           n == Number(i, a, SIZE_WORD)
           m == Number(i, b, SIZE_WORD)
           q == Quotient(n, m)
           x == n - q * m
           v == MASK(x, SIZE_WORD) * Word + MASK(q, SIZE_WORD)
           f == LogicFlags(Begin(s), q, SIZE_WORD)
<1>1. /\ s \in Machine /\ t \in Machine /\ Ok(s) /\ Ok(t) /\ i \in Instruction
      /\ Divided(s, i, t)
  BY DEF Executed
<1>2. PICK u \in Undefined : t = DivExecute(s, i, u)
  BY <1>1 DEF Divided
<1>3. /\ FromSource(s, i) = [st |-> Begin(s), src |-> b, val |-> a]
      /\ a \in 0 .. Word - 1 /\ b \in 0 .. Word - 1 /\ d \in DataReg
  BY <1>1, WordOperands
<1>4. t = SetFlags(StoreLong(Begin(s), i, v), f)
  BY <1>2, <1>3 DEF DivExecute, Divide, Number
<1>5. t = SetFlags(set(Begin(s), d, SIZE_LONG, v), f)
  BY <1>4, RegisterOperands DEF StoreLong, BetweenDataRegisters
<1>6. n \in Int /\ m \in Int /\ m # 0
  <2>1. a \in Int /\ b \in Int /\ SIZE_WORD \in DataSize
    BY <1>3, Positive DEF DataSize
  <2> HIDE DEF a, b
  <2>2. n \in Int /\ m \in Int
    BY <2>1, MaskInt DEF Number
  <2> QED
    BY <2>2 DEF b
<1> HIDE DEF n, m
<1>7. q \in Int
  BY <1>6, QuotientInt
<1> HIDE DEF q
<1>8. x \in Int
  BY <1>6, <1>7
<1> HIDE DEF x
<1>9. /\ Modulus(SIZE_WORD) = Word /\ Modulus(SIZE_LONG) = Long /\ Word \in Nat \ {0}
      /\ MASK(x, SIZE_WORD) \in 0 .. Word - 1 /\ MASK(q, SIZE_WORD) \in 0 .. Word - 1
  <2>1. Modulus(SIZE_WORD) = Word /\ Modulus(SIZE_LONG) = Long /\ Word \in Nat \ {0}
    BY Halves, Positive
  <2> QED
    BY <1>7, <1>8, <2>1, ModRange DEF MASK
<1> DEFINE c == MASK(x, SIZE_WORD)
           e == MASK(q, SIZE_WORD)
<1> HIDE DEF c, e
<1>10. v = c * Word + e /\ c \in Int /\ e \in 0 .. Word - 1 /\ v \in Int
  <2>1. v = c * Word + e
    BY DEF c, e
  <2>2. c \in 0 .. Word - 1 /\ e \in 0 .. Word - 1
    BY <1>9 DEF c, e
  <2>3. \A y, z, w \in Int : y * w + z \in Int
    OBVIOUS
  <2> QED
    BY <1>9, <2>1, <2>2, <2>3
<1> HIDE DEF v
<1>11. v % Word = e
  <2>1. \A y, w \in Int : y * w = w * y
    OBVIOUS
  <2>2. v = Word * c + e
    BY <1>9, <1>10, <2>1
  <2> QED
    BY <1>9, <1>10, <2>2, ModUnique
<1>12. f \in CCR
  BY <1>1, Began, FlagsInCCR
<1> HIDE DEF f
<1>13. /\ get(t, d, SIZE_LONG) = MASK(v, SIZE_LONG)
       /\ \A r \in DataReg \ {d}, z \in DataSize : get(t, r, z) = get(s, r, z)
  <2>1. SIZE_LONG \in DataSize
    BY DEF DataSize
  <2> QED
    BY <1>1, <1>3, <1>5, <1>10, <1>12, <2>1, RegisterResult
<1>14. get(t, d, SIZE_WORD) = e
  <2>1. get(t, d, SIZE_WORD) = get(t, d, SIZE_LONG) % Word
    BY <1>1, <1>3, WordOfLong
  <2>2. (v % (Word * Word)) % Word = v % Word
    <3>1. v \in Int
      BY <1>10
    <3>2. \A w \in Nat \ {0} : (v % (w * w)) % w = v % w
      BY <3>1, ModOfMod
    <3> QED
      BY <3>2, Positive
  <2>3. get(t, d, SIZE_LONG) = v % (Word * Word)
    BY <1>13, MaskLong DEF Long
  <2> QED
    BY <1>11, <2>1, <2>2, <2>3
<1> QED
  BY <1>13, <1>14 DEF e, q, n, m

(* mul leaves the product in the long.                                     *)
LEMMA MulStep ==
  ASSUME NEW s, NEW i, NEW t, Executed(s, i, t), BetweenDataRegisters(i),
         i.data_size = SIZE_WORD, i.class = "Mul"
  PROVE  get(t, i.dest_reg, SIZE_LONG)
           = (Number(i, get(s, i.src_reg, SIZE_WORD), SIZE_WORD)
                * Number(i, get(s, i.dest_reg, SIZE_WORD), SIZE_WORD)) % Long
<1> DEFINE d == i.dest_reg
           a == get(s, d, SIZE_WORD)
           b == get(s, i.src_reg, SIZE_WORD)
           n == Number(i, a, SIZE_WORD)
           m == Number(i, b, SIZE_WORD)
           v == (m * n) % Long
           f == LogicFlags(Begin(s), v, SIZE_LONG)
<1>1. /\ s \in Machine /\ t \in Machine /\ Ok(s) /\ i \in Instruction
      /\ Multiplied(s, i, t)
  BY DEF Executed
<1>2. PICK u \in Undefined : t = MulExecute(s, i, u)
  BY <1>1 DEF Multiplied
<1> DEFINE g == [f EXCEPT !.N = IF i.kind = 1 THEN f.N ELSE f.N /\ u.N]
<1>3. /\ FromSource(s, i) = [st |-> Begin(s), src |-> b, val |-> a]
      /\ a \in 0 .. Word - 1 /\ b \in 0 .. Word - 1 /\ d \in DataReg
  BY <1>1, WordOperands
<1>4. t = SetFlags(StoreLong(Begin(s), i, v), g)
  <2> DEFINE o == [st |-> Begin(s), src |-> b, val |-> a]
  <2>1. t = Multiply(o, i, u)
    BY <1>2, <1>3 DEF MulExecute
  <2>2. o.st = Begin(s) /\ o.src = b /\ o.val = a
    OBVIOUS
  <2>3. CASE i.kind = 1
    <3>1. m = Signed(o.src, SIZE_WORD) /\ n = Signed(o.val, SIZE_WORD)
      BY <2>2, <2>3 DEF Number
    <3> HIDE DEF m, n, o
    <3> QED
      BY <2>1, <2>2, <2>3, <3>1 DEF Multiply
  <2>4. CASE i.kind # 1
    <3>1. m = o.src /\ n = o.val
      BY <2>2, <2>4 DEF Number
    <3> HIDE DEF m, n, o
    <3> QED
      BY <2>1, <2>2, <2>4, <3>1 DEF Multiply
  <2> QED
    BY <2>3, <2>4
<1>5. t = SetFlags(set(Begin(s), d, SIZE_LONG, v), g)
  <2>1. \A x : StoreLong(Begin(s), i, x) = set(Begin(s), d, SIZE_LONG, x)
    BY RegisterOperands DEF StoreLong, BetweenDataRegisters
  <2> HIDE DEF v, g
  <2> QED
    BY <1>4, <2>1
<1>6. n \in Int /\ m \in Int
  <2>1. a \in Int /\ b \in Int /\ SIZE_WORD \in DataSize
    BY <1>3, Positive DEF DataSize
  <2> HIDE DEF a, b
  <2> QED
    BY <2>1, MaskInt DEF Number
<1> HIDE DEF n, m
<1>7. v \in 0 .. Long - 1 /\ v \in Int
  <2>1. m * n \in Int
    BY <1>6
  <2>2. v \in 0 .. Long - 1
    BY <2>1, ModRange, Positive
  <2> QED
    BY <2>2, Positive
<1> HIDE DEF v
<1>8. f \in CCR
  BY <1>1, Began, FlagsInCCR
<1> HIDE DEF f
<1>9. g \in CCR
  <2>1. f.N \in BOOLEAN /\ u.N \in BOOLEAN
    BY <1>8 DEF CCR, Undefined
  <2>2. (f.N /\ u.N) \in BOOLEAN
    BY <2>1
  <2> QED
    BY <1>8, <2>1, <2>2 DEF CCR
<1> HIDE DEF g
<1>10. get(t, d, SIZE_LONG) = MASK(v, SIZE_LONG)
  <2>1. SIZE_LONG \in DataSize
    BY DEF DataSize
  <2> QED
    BY <1>1, <1>3, <1>5, <1>7, <1>9, <2>1, RegisterResult
<1>11. MASK(v, SIZE_LONG) = v
  BY <1>7, MaskLong, ModSmall, Positive
<1> QED
  BY <1>10, <1>11 DEF v, m, n

(* The quotient comes back out of the register, and the product fits it.   *)
LEMMA DivisionInState ==
  ASSUME ProgramsInv
  PROVE  QuotientTimesDivisor
<1> DEFINE i == trace[1]
           j == trace[2]
           a == get(start, i.dest_reg, SIZE_WORD)
           b == get(start, i.src_reg, SIZE_WORD)
           n == Number(i, a, SIZE_WORD)
           m == Number(i, b, SIZE_WORD)
           p == Number(i, get(cpu, i.dest_reg, SIZE_LONG), SIZE_LONG)
           q == Quotient(n, m)
<1> SUFFICES ASSUME Len(trace) = 2, Ok(cpu), DivisionUndone(i, j),
                    m # 0, ~QuotientOverflows(i, n, m)
             PROVE  MultipleBelow(p, n, m)
  BY DEF QuotientTimesDivisor, First2
<1>1. PICK u \in Machine : Executed(start, i, u) /\ Executed(u, j, cpu)
  BY DEF ProgramsInv, Traced
<1> HIDE DEF i, j
<1>2. /\ i.class = "Div" /\ j.class = "Mul" /\ i.kind = j.kind
      /\ i.data_size = SIZE_WORD /\ j.data_size = SIZE_WORD
      /\ BetweenDataRegisters(i) /\ BetweenDataRegisters(j)
      /\ i.src_reg = j.src_reg /\ i.dest_reg = j.dest_reg /\ i.src_reg # i.dest_reg
  BY DEF DivisionUndone
<1>3. start \in Machine /\ Ok(start) /\ i \in Instruction /\ SIZE_WORD \in DataSize
  BY <1>1 DEF Executed, DataSize
<1>4. a \in 0 .. Word - 1 /\ b \in 0 .. Word - 1 /\ i.src_reg \in DataReg
  BY <1>2, <1>3, WordOperands
<1>5. get(u, i.dest_reg, SIZE_WORD) = MASK(q, SIZE_WORD) /\ get(u, i.src_reg, SIZE_WORD) = b
  BY <1>1, <1>2, <1>3, <1>4, DivStep
<1>6. get(cpu, i.dest_reg, SIZE_LONG)
        = (Number(i, b, SIZE_WORD) * Number(i, MASK(q, SIZE_WORD), SIZE_WORD)) % Long
  <2>1. \A v, size : Number(j, v, size) = Number(i, v, size)
    BY <1>2 DEF Number
  <2> QED
    BY <1>1, <1>2, <1>5, <2>1, MulStep
<1>7. PICK h, l \in Nat : /\ h >= 2 /\ Word = 2 * h /\ Modulus(SIZE_WORD) = Word
                           /\ l >= Word /\ Long = 2 * l /\ Modulus(SIZE_LONG) = Long
  BY Halves
<1>8. a \in Int /\ b \in Int /\ Word \in Nat \ {0} /\ Long \in Nat \ {0}
  BY <1>4, Positive
<1> HIDE DEF a, b
<1>9. CASE i.kind = 1
  <2>1. \A v, size : Number(i, v, size) = Signed(v, size)
    BY <1>9 DEF Number
  <2>2. h \in Nat \ {0} /\ n \in -h .. h - 1 /\ m \in -h .. h - 1
    BY <1>7, <1>8, <2>1, SignedRange
  <2>3. ~(n = -h /\ m = -1)
    <3>1. ~(2 * n = -Word /\ m = -1)
      BY <1>9 DEF QuotientOverflows
    <3> QED
      BY <1>7, <3>1
  <2> HIDE DEF n, m
  <2>4. q \in -h .. h - 1 /\ q \in Int
    <3>1. q \in -h .. h - 1
      BY <1>7, <2>2, <2>3, QuotientFits
    <3> QED
      BY <3>1
  <2>5. q * m \in Int /\ MultipleBelow(q * m, n, m)
    <3>1. n \in Int /\ m \in Int
      BY <2>2
    <3> HIDE DEF q
    <3>2. q * m \in Int
      BY <2>4, <3>1
    <3> QED
      BY <3>1, <3>2, Truncated DEF q
  <2> HIDE DEF q
  <2>6. Signed(MASK(q, SIZE_WORD), SIZE_WORD) = q
    <3>1. MASK(MASK(q, SIZE_WORD), SIZE_WORD) = MASK(q, SIZE_WORD)
      BY <1>7, <1>8, <2>4, ModRange, ModSmall DEF MASK
    <3> QED
      BY <1>7, <2>2, <2>4, <3>1, SignedFinds
  <2>7. get(cpu, i.dest_reg, SIZE_LONG) = (q * m) % Long
    <3>1. Number(i, b, SIZE_WORD) = m
      BY DEF m
    <3>2. Number(i, MASK(q, SIZE_WORD), SIZE_WORD) = q
      BY <2>1, <2>6
    <3>3. m * q = q * m
      BY <2>2, <2>4
    <3> QED
      BY <1>6, <3>1, <3>2, <3>3
  <2>8. q * m \in -l .. l - 1
    BY <1>7, <2>2, <2>5 DEF MultipleBelow, Magnitude
  <2>9. Signed((q * m) % Long, SIZE_LONG) = q * m
    <3> DEFINE x == q * m
    <3>1. x \in Int /\ x \in -l .. l - 1 /\ l \in Nat \ {0}
      BY <1>7, <1>8, <2>5, <2>8
    <3> HIDE DEF x
    <3>2. MASK(x % Long, SIZE_LONG) = MASK(x, SIZE_LONG)
      BY <1>7, <1>8, <3>1, ModRange, ModSmall DEF MASK
    <3>3. Signed(x % Long, SIZE_LONG) = x
      BY <1>7, <3>1, <3>2, SignedFinds
    <3> QED
      BY <3>3 DEF x
  <2>10. p = q * m
    BY <2>1, <2>7, <2>9
  <2> QED
    BY <2>5, <2>10
<1>10. CASE i.kind # 1
  <2>1. \A v, size : Number(i, v, size) = v
    BY <1>10 DEF Number
  <2>2. n \in 0 .. Word - 1 /\ m \in 0 .. Word - 1 /\ m # 0
    BY <1>4, <2>1 DEF a, b
  <2> HIDE DEF n, m
  <2>3. q \in Int /\ MultipleBelow(q * m, n, m) /\ Magnitude(q) <= n /\ q >= 0 /\ q * m \in Nat
    <3>1. n \in Int /\ m \in Int
      BY <1>8, <2>2
    <3>2. q \in Int /\ MultipleBelow(q * m, n, m) /\ Magnitude(q) <= Magnitude(n)
      BY <2>2, <3>1, Truncated
    <3>3. q >= 0
      BY <1>8, <2>2, QuotientNat
    <3> HIDE DEF q
    <3>4. q * m \in Nat
      <4>1. \A x, y \in Nat : x * y \in Nat
        OBVIOUS
      <4> QED
        BY <1>8, <2>2, <3>2, <3>3, <4>1
    <3> QED
      BY <1>8, <2>2, <3>2, <3>3, <3>4 DEF Magnitude
  <2> HIDE DEF q
  <2>4. MASK(q, SIZE_WORD) = q
    <3>1. q \in 0 .. Word - 1
      BY <1>8, <2>2, <2>3 DEF Magnitude
    <3> QED
      BY <1>7, <1>8, <3>1, ModSmall DEF MASK
  <2>5. get(cpu, i.dest_reg, SIZE_LONG) = (q * m) % Long
    <3>1. Number(i, b, SIZE_WORD) = m
      BY DEF m
    <3>2. m * q = q * m
      BY <1>8, <2>2, <2>3
    <3> QED
      BY <1>6, <2>1, <2>4, <3>1, <3>2
  <2>6. (q * m) % Long = q * m
    <3> DEFINE x == q * m
    <3>1. x \in Nat /\ MultipleBelow(x, n, m)
      BY <2>3
    <3> HIDE DEF x
    <3>2. x \in 0 .. Long - 1
      BY <1>7, <1>8, <2>2, <3>1 DEF MultipleBelow, Magnitude
    <3>3. x % Long = x
      BY <1>8, <3>2, ModSmall
    <3> QED
      BY <3>3 DEF x
  <2>7. p = q * m
    BY <2>1, <2>5, <2>6
  <2> QED
    BY <2>3, <2>7
<1> QED
  BY <1>9, <1>10

(* mul finds the quotient where div left it and gives back the dividend    *)
(* without the rest of the division, for every width of a byte and all     *)
(* operands but a zero divisor and the quotient that does not fit.         *)
THEOREM DivisionsMultiplyBack == ProgramsSpec => []QuotientTimesDivisor
  BY ProgramsStart, ProgramsStep, DivisionInState, PTL DEF ProgramsSpec
-----------------------------------------------------------------------------
Pointing == {POSTINCREMENT, PREDECREMENT}

(* A checked write that went through wrote the memory and nothing else.    *)
LEMMA PutThrough ==
  ASSUME NEW s \in Machine, NEW address \in Int, NEW size \in DataSize, NEW data \in Int,
         NEW t, t = MemSet(s, address, size, data), Ok(t)
  PROVE  /\ Ok(s) /\ AccessError(address, size) = "none"
         /\ t \in Machine /\ t.reg = s.reg /\ t.sup = s.sup
         /\ t.mem = write_real_mem(s.mem, MASK_ADDR(address), size, data)
<1>1. Ok(s)
  BY DEF MemSet
<1>2. AccessError(address, size) = "none"
  <2>1. SUFFICES ASSUME AccessError(address, size) # "none" PROVE FALSE
    OBVIOUS
  <2>2. t = [s EXCEPT !.exc = AccessError(address, size)]
    BY <1>1, <2>1 DEF MemSet, Throw
  <2>3. t.exc = AccessError(address, size)
    BY <2>2 DEF Machine
  <2> QED
    BY <2>1, <2>3 DEF Ok
<1>3. t \in Machine
  BY MemSetSafe DEF Safe
<1> QED
  BY <1>1, <1>2, <1>3 DEF MemSet, Machine

(* Setting the program counter keeps the rest of the machine.              *)
LEMMA SetPCKeeps ==
  ASSUME NEW s \in Machine, NEW data \in Int
  PROVE  /\ SetPC(s, data) \in Machine /\ SetPC(s, data).exc = s.exc
         /\ SetPC(s, data).mem = s.mem /\ SetPC(s, data).sup = s.sup
         /\ \A q \in RegisterType \ {REG_PC} : SetPC(s, data).reg[q] = s.reg[q]
<1>1. REG_PC \in Named /\ SIZE_LONG \in DataSize /\ Bank(s, REG_PC) = REG_PC
  BY DEF Named, DataSize, Bank, REG_PC, REG_A7
<1> QED
  BY <1>1, SetFacts DEF SetPC

(* A store to memory that went through: what it wrote, and the registers.  *)
LEMMA StoreLands ==
  ASSUME NEW s \in Machine, NEW mode, NEW r, NEW size, Operands(mode, r, size),
         IS_MEMORY_ALTERABLE(mode), mode \notin {DIRECT_DATA, DIRECT_ADDR}, NEW data \in Int,
         Ok(setData(s, mode, r, size, data))
  PROVE  LET n == ExtensionSize(mode, size)
             x == Peek(s, n).val
             a == EffectiveAddress(s, mode, r, size, SignedAbs(mode, x))
             t == setData(s, mode, r, size, data)
         IN  /\ Ok(s) /\ Ok(Peek(s, n).st) /\ a \in Int /\ AccessError(a, size) = "none"
             /\ t \in Machine /\ t.sup = s.sup
             /\ t.mem = write_real_mem(s.mem, MASK_ADDR(a), size, data)
             /\ \A q \in RegisterType \ {REG_PC} :
                  (mode \in Pointing => q # Bank(s, r)) => t.reg[q] = s.reg[q]
             /\ mode \in Pointing =>
                  t.reg[Bank(s, r)] =
                    (IF mode = POSTINCREMENT THEN a + Stride(r, size) ELSE a) % Long
<1> DEFINE n == ExtensionSize(mode, size)
           p == Peek(s, n)
           a == EffectiveAddress(s, mode, r, size, SignedAbs(mode, p.val))
           c == Fetch(s, n).st
           k == IF mode = POSTINCREMENT THEN a + Stride(r, size) ELSE a
           t == setData(s, mode, r, size, data)
<1>1. /\ mode \in AddressingMode /\ r \in 0 .. 15 /\ size \in DataSize
      /\ mode \notin {PC_DISPLACEMENT, PC_INDEX, IMMEDIATE, UNKNOWN}
      /\ mode \notin {DIRECT_DATA, DIRECT_ADDR}
  BY DEF Operands, IS_MEMORY_ALTERABLE
<1>2. n \in {0} \cup DataSize
  BY <1>1, ExtensionRange DEF DataSize
<1>3. p.val \in Int /\ p.st \in Machine
  BY <1>2, PeekReads DEF Reads, Quiet
<1>4. a \in Int /\ a + Stride(r, size) \in Int
  <2>1. a \in Int
    BY <1>1, <1>3, AddressInt, SignedAbsInt
  <2> HIDE DEF a
  <2> QED
    BY <1>1, <2>1, StrideInt
<1>5. Ok(t) /\ t \in Machine /\ t.sup = s.sup
  BY SetDataSafe DEF Safe
<1>6. t = IF mode = ABS_WORD THEN SetPC(MemSet(p.st, a, size, data), PC(s) + n)
          ELSE Bump(MemSet(c, a, size, data), mode, r, a, size)
  BY <1>1 DEF setData, setDataWith, StoreAt, SignedAddress, Fetch
<1>7. PC(s) + n \in Int
  BY <1>2, Pointers DEF DataSize, SIZE_BYTE, SIZE_WORD, SIZE_LONG
<1>8. c = IF n = 0 THEN p.st ELSE SetPC(p.st, PC(s) + n)
  BY DEF Fetch, Consume, Result
<1>9. k \in Int
  BY <1>4
<1> HIDE DEF n, p, a, t, c, k
<1>10. Ok(p.st) => Ok(s) /\ p.st = s
  BY <1>2, PeekThrough DEF p
<1>11. r \in Named /\ SIZE_LONG \in DataSize /\ Bank(s, r) # REG_PC /\ Bank(s, r) \in RegisterType
  BY <1>1, BankSeparate DEF Named, DataReg, AddrReg, DataSize, Bank, REG_PC, REG_SSP, REG_A7
<1>12. CASE mode = ABS_WORD
  <2> DEFINE v == MemSet(p.st, a, size, data)
  <2>1. v \in Machine /\ t = SetPC(v, PC(s) + n)
    BY <1>1, <1>3, <1>4, <1>6, <1>12, MemSetSafe DEF Safe
  <2> HIDE DEF v
  <2>2. /\ t.exc = v.exc /\ t.mem = v.mem
        /\ \A q \in RegisterType \ {REG_PC} : t.reg[q] = v.reg[q]
    BY <1>7, <2>1, SetPCKeeps
  <2>3. Ok(v)
    BY <1>5, <2>2 DEF Ok
  <2>4. /\ Ok(p.st) /\ AccessError(a, size) = "none" /\ v.reg = p.st.reg
        /\ v.mem = write_real_mem(p.st.mem, MASK_ADDR(a), size, data)
    <3> DEFINE o == p.st
    <3>1. v = MemSet(o, a, size, data) /\ o \in Machine
      BY <1>3 DEF v
    <3> HIDE DEF o
    <3>2. /\ Ok(o) /\ AccessError(a, size) = "none" /\ v.reg = o.reg
          /\ v.mem = write_real_mem(o.mem, MASK_ADDR(a), size, data)
      BY <1>1, <1>4, <2>3, <3>1, PutThrough
    <3> QED
      BY <3>2 DEF o
  <2>5. mode \notin Pointing
    BY <1>12 DEF Pointing, ABS_WORD, POSTINCREMENT, PREDECREMENT
  <2> QED
    BY <1>4, <1>5, <1>10, <2>2, <2>4, <2>5 DEF n, p, a, t
<1>13. CASE mode # ABS_WORD
  <2> DEFINE u == MemSet(c, a, size, data)
  <2>1. /\ c \in Machine /\ c.exc = p.st.exc /\ c.mem = p.st.mem /\ c.sup = p.st.sup
        /\ \A q \in RegisterType \ {REG_PC} : c.reg[q] = p.st.reg[q]
    BY <1>3, <1>7, <1>8, SetPCKeeps
  <2>2. u \in Machine /\ t = Bump(u, mode, r, a, size)
    BY <1>1, <1>4, <1>6, <1>13, <2>1, MemSetSafe DEF Safe
  <2> HIDE DEF u
  <2>3. t = IF mode \in Pointing THEN set(u, r, SIZE_LONG, k) ELSE u
    BY <2>2 DEF Bump, Pointing, k
  <2>4. /\ set(u, r, SIZE_LONG, k).mem = u.mem /\ set(u, r, SIZE_LONG, k).exc = u.exc
        /\ \A q \in RegisterType : q # Bank(u, r) => set(u, r, SIZE_LONG, k).reg[q] = u.reg[q]
    BY <1>9, <1>11, <2>2, SetFacts
  <2>5. Ok(u)
    BY <1>5, <2>3, <2>4 DEF Ok
  <2>6. /\ Ok(c) /\ AccessError(a, size) = "none" /\ u.reg = c.reg /\ u.sup = c.sup
        /\ u.mem = write_real_mem(c.mem, MASK_ADDR(a), size, data)
    <3>1. u = MemSet(c, a, size, data)
      BY DEF u
    <3> QED
      BY <1>1, <1>4, <2>1, <2>5, <3>1, PutThrough
  <2>7. Ok(s) /\ p.st = s /\ Ok(p.st)
    BY <1>10, <2>1, <2>6 DEF Ok
  <2>8. Bank(u, r) = Bank(s, r)
    BY <2>1, <2>6, <2>7 DEF Bank
  <2>9. set(u, r, SIZE_LONG, k).reg[Bank(s, r)] = k % Long
    <3>1. set(u, r, SIZE_LONG, k).reg[Bank(u, r)] = Merge(u.reg[Bank(u, r)], SIZE_LONG, k)
      BY <1>9, <1>11, <2>2, <2>5, SetStores
    <3>2. u.reg[Bank(u, r)] \in LongVal
      BY <1>11, <2>2, BankSeparate DEF Machine
    <3> QED
      BY <1>9, <2>8, <3>1, <3>2, LongRegister
  <2>10. t.mem = write_real_mem(s.mem, MASK_ADDR(a), size, data)
    BY <2>1, <2>3, <2>4, <2>6, <2>7
  <2>11. \A q \in RegisterType \ {REG_PC} :
           (mode \in Pointing => q # Bank(s, r)) => t.reg[q] = s.reg[q]
    BY <2>1, <2>3, <2>4, <2>6, <2>7, <2>8
  <2>12. mode \in Pointing => t.reg[Bank(s, r)] = k % Long
    BY <2>3, <2>9
  <2> QED
    BY <1>4, <1>5, <2>6, <2>7, <2>10, <2>11, <2>12 DEF n, p, a, t, k
<1> QED
  BY <1>12, <1>13

(* A load from memory that went through: what it read.                     *)
LEMMA LoadReads ==
  ASSUME NEW s \in Machine, NEW mode, NEW r, NEW size, Operands(mode, r, size),
         mode \notin {DIRECT_DATA, DIRECT_ADDR, IMMEDIATE, UNKNOWN},
         Ok(getData(s, mode, r, size).st)
  PROVE  LET n == ExtensionSize(mode, size)
             x == Peek(s, n).val
             a == EffectiveAddress(s, mode, r, size, x)
         IN  /\ Ok(Peek(s, n).st) /\ a \in Int
             /\ getData(s, mode, r, size).val = read_real_mem(s.mem, MASK_ADDR(a), size)
<1> DEFINE n == ExtensionSize(mode, size)
           p == Peek(s, n)
           a == EffectiveAddress(s, mode, r, size, p.val)
           e == Fetch(s, n)
           c == e.st
           g == getData(s, mode, r, size)
           d == MemGet(c, a, size)
<1>1. mode \in AddressingMode /\ r \in 0 .. 15 /\ size \in DataSize
  BY DEF Operands
<1>2. n \in {0} \cup DataSize
  BY <1>1, ExtensionRange DEF DataSize
<1>3. p.val \in Int /\ p.st \in Machine
  BY <1>2, PeekReads DEF Reads, Quiet
<1>4. a \in Int /\ SIZE_LONG \in DataSize
  BY <1>1, <1>3, AddressInt DEF DataSize
<1>5. PC(s) + n \in Int
  BY <1>2, Pointers DEF DataSize, SIZE_BYTE, SIZE_WORD, SIZE_LONG
<1>6. e.val = p.val /\ c = IF n = 0 THEN p.st ELSE SetPC(p.st, PC(s) + n)
  BY DEF Fetch, Consume, Result
<1>7. g = Bumped(d, mode, r, a, size)
  BY <1>6 DEF getData, getDataWith, Accessed, Loaded
<1> HIDE DEF n, p, a, g, d, e, c
<1>8. c \in Machine /\ c.exc = p.st.exc /\ c.mem = p.st.mem
  BY <1>3, <1>5, <1>6, SetPCKeeps
<1>9. g.val = d.val /\ g.st = Bump(d.st, mode, r, a, size)
  BY <1>7 DEF Bumped, Result
<1>10. d.st \in Machine
  BY <1>1, <1>4, <1>8, MemGetReads DEF d, Reads, Quiet
<1>11. g.st.exc = d.st.exc
  <2>1. r \in Named
    BY <1>1 DEF Named, DataReg, AddrReg
  <2>2. a + Stride(r, size) \in Int
    BY <1>1, <1>4, StrideInt
  <2>3. \A k \in Int : set(d.st, r, SIZE_LONG, k).exc = d.st.exc
    BY <1>4, <1>10, <2>1, SetFacts
  <2> QED
    BY <1>4, <1>9, <2>2, <2>3 DEF Bump
<1>12. Ok(d.st)
  BY <1>11 DEF Ok, g
<1>13. Ok(c) /\ d.val = read_real_mem(c.mem, MASK_ADDR(a), size)
  BY <1>1, <1>4, <1>8, <1>12, GetThrough DEF d
<1>14. Ok(p.st) /\ p.st = s
  <2>1. Ok(p.st)
    BY <1>8, <1>13 DEF Ok
  <2> QED
    BY <1>2, <2>1, PeekThrough DEF p
<1> QED
  BY <1>4, <1>8, <1>9, <1>13, <1>14 DEF n, p, a, g

(* What an extension is, once it could be read.                            *)
LEMMA ExtensionRead ==
  ASSUME NEW s \in Machine, NEW n \in {0} \cup DataSize, Ok(Peek(s, n).st)
  PROVE  /\ Peek(s, n).val = IF n = 0 THEN 0 ELSE read_real_mem(s.mem, MASK_ADDR(PC(s)), n)
         /\ n = SIZE_WORD => Peek(s, n).val \in WordVal
<1>1. CASE n = 0
  BY <1>1 DEF Peek, Result, SIZE_WORD
<1>2. CASE n # 0
  <2>1. n \in DataSize /\ PC(s) \in Int /\ Peek(s, n) = MemGet(s, PC(s), n)
    BY <1>2, Pointers DEF Peek
  <2> QED
    BY <1>2, <2>1, GetThrough, MemGetReads
<1> QED
  BY <1>1, <1>2

(* Only the program counter moved: the same address, except relative to it.*)
LEMMA AddressStays ==
  ASSUME NEW s \in Machine, NEW o \in Machine, o.sup = s.sup,
         \A q \in RegisterType \ {REG_PC} : o.reg[q] = s.reg[q],
         NEW mode, mode \notin {PC_DISPLACEMENT, PC_INDEX}, NEW r \in 0 .. 15, NEW size,
         NEW ext \in Int
  PROVE  EffectiveAddress(o, mode, r, size, ext) = EffectiveAddress(s, mode, r, size, ext)
<1>1. \A k \in 0 .. 15 : Bank(o, k) = Bank(s, k) /\ Bank(s, k) \in RegisterType \ {REG_PC}
  BY DEF Bank, RegisterType, REG_PC, REG_A7, REG_SSP
<1>2. \A k \in 0 .. 15 : \A z : get(o, k, z) = get(s, k, z)
  BY <1>1 DEF get
<1>3. Base(o, mode, r) = Base(s, mode, r)
  BY <1>2 DEF Base
<1>4. IndexOffset(o, ext) = IndexOffset(s, ext)
  <2>1. \A x \in Int, y \in Nat \ {0} : x \div y \in Int
    OBVIOUS
  <2>2. (ext \div Byte) % Byte \in ByteVal
    BY <2>1, ModRange, Positive DEF ByteVal
  <2>3. IndexField[(ext \div Byte) % Byte].reg \in 0 .. 15
    BY <2>2, IndexFieldAssumption
  <2> QED
    BY <1>2, <2>3 DEF IndexOffset
<1>5. Offset(o, mode, r, size, ext) = Offset(s, mode, r, size, ext)
  BY <1>4 DEF Offset
<1> QED
  BY <1>3, <1>5 DEF EffectiveAddress

(* An address of the lower half is its own sign extension.                 *)
LEMMA LowerHalf ==
  ASSUME NEW x \in WordVal, ~IS_NEGATIVE(x, SIZE_WORD)
  PROVE  SignExtend(x, SIZE_WORD) = x
<1>1. Modulus(SIZE_WORD) = Word /\ SIZE_WORD \in DataSize /\ SIZE_WORD # SIZE_LONG
  BY DEF Modulus, SIZE_BYTE, SIZE_WORD, SIZE_LONG, DataSize
<1>2. 2 * Word <= Long /\ Word \in Nat \ {0} /\ Long \in Nat \ {0}
  BY <1>1, NarrowModulus, Positive
<1>3. x \in 0 .. Word - 1 /\ x \in 0 .. Long - 1 /\ x \in Int
  BY <1>2 DEF WordVal
<1>4. x % Word = x /\ x % Long = x
  BY <1>2, <1>3, ModSmall
<1>5. Signed(x, SIZE_WORD) = x
  BY <1>1, <1>3, <1>4 DEF Signed, MASK
<1> QED
  BY <1>4, <1>5 DEF SignExtend

(* The way back leads to the address of the store.                         *)
LEMMA BackAddress ==
  ASSUME NEW s \in Machine, NEW o \in Machine, o.sup = s.sup,
         NEW mode, NEW r, NEW size, Operands(mode, r, size), IS_MEMORY_ALTERABLE(mode),
         NEW x \in Int, mode = ABS_WORD => x \in WordVal /\ ~IS_NEGATIVE(x, SIZE_WORD),
         NEW a, a = EffectiveAddress(s, mode, r, size, SignedAbs(mode, x)),
         \A q \in RegisterType \ {REG_PC} :
           (mode \in Pointing => q # Bank(s, r)) => o.reg[q] = s.reg[q],
         mode \in Pointing =>
           o.reg[Bank(s, r)] = (IF mode = POSTINCREMENT THEN a + Stride(r, size) ELSE a) % Long
  PROVE  EffectiveAddress(o, Back(mode), r, size, x) = a
<1>1. r \in 0 .. 15 /\ size \in DataSize /\ mode \notin {PC_DISPLACEMENT, PC_INDEX}
  BY DEF Operands, IS_MEMORY_ALTERABLE
<1>2. SignedAbs(mode, x) = x
  BY LowerHalf DEF SignedAbs
<1>3. CASE mode \notin Pointing
  <2>1. Back(mode) = mode
    BY <1>3 DEF Back, Pointing
  <2>2. EffectiveAddress(o, mode, r, size, x) = EffectiveAddress(s, mode, r, size, x)
    BY <1>1, <1>3, AddressStays
  <2> QED
    BY <1>2, <2>1, <2>2
<1>4. CASE mode \in Pointing
  <2> DEFINE g == get(s, r, SIZE_LONG)
             st == Stride(r, size)
  <2>1. r \in Named /\ Bank(o, r) = Bank(s, r)
    BY <1>1 DEF Named, DataReg, AddrReg, Bank
  <2>2. get(o, r, SIZE_LONG) = o.reg[Bank(s, r)]
    BY <2>1, LongRegister
  <2>3. g \in Int /\ st \in Int /\ -st \in Int
    BY <1>1, <2>1, GetInt, StrideInt DEF DataSize
  <2>4. CASE mode = POSTINCREMENT
    <3>1. a = (g + 0) % Long
      BY <1>2, <2>4 DEF EffectiveAddress, Base, Offset, POSTINCREMENT, PREDECREMENT, DISPLACEMENT,
                        INDEX, PC_DISPLACEMENT, PC_INDEX, ABS_WORD, ABS_LONG
    <3>2. Back(mode) = PREDECREMENT
      BY <2>4 DEF Back, POSTINCREMENT, PREDECREMENT
    <3>3. get(o, r, SIZE_LONG) = (a + st) % Long
      BY <1>4, <2>2, <2>4
    <3>4. EffectiveAddress(o, PREDECREMENT, r, size, x) = (((a + st) % Long) + (-st)) % Long
      BY <3>3 DEF EffectiveAddress, Base, Offset, PREDECREMENT, DISPLACEMENT,
                  INDEX, PC_DISPLACEMENT, PC_INDEX, ABS_WORD, ABS_LONG
    <3> HIDE DEF g, st
    <3>5. a \in 0 .. Long - 1 /\ a \in Int
      BY <2>3, <3>1, ModRange, Positive
    <3>6. a + st \in Int /\ (a + st) + (-st) = a /\ a % Long = a
      BY <2>3, <3>5, ModSmall, Positive
    <3>7. (((a + st) % Long) + (-st)) % Long = ((a + st) + (-st)) % Long
      BY <2>3, <3>6, ModPlus, Positive
    <3> QED
      BY <3>2, <3>4, <3>6, <3>7
  <2>5. CASE mode = PREDECREMENT
    <3>1. a = (g + (-st)) % Long
      BY <1>2, <2>5 DEF EffectiveAddress, Base, Offset, PREDECREMENT, DISPLACEMENT,
                        INDEX, PC_DISPLACEMENT, PC_INDEX, ABS_WORD, ABS_LONG
    <3>2. Back(mode) = POSTINCREMENT
      BY <2>5 DEF Back, POSTINCREMENT, PREDECREMENT
    <3>3. get(o, r, SIZE_LONG) = a % Long
      BY <1>4, <2>2, <2>5 DEF POSTINCREMENT, PREDECREMENT
    <3>4. EffectiveAddress(o, POSTINCREMENT, r, size, x) = ((a % Long) + 0) % Long
      BY <3>3 DEF EffectiveAddress, Base, Offset, POSTINCREMENT, PREDECREMENT, DISPLACEMENT,
                  INDEX, PC_DISPLACEMENT, PC_INDEX, ABS_WORD, ABS_LONG
    <3> HIDE DEF g, st
    <3>5. a \in 0 .. Long - 1 /\ a \in Int
      <4> DEFINE y == g + (-st)
      <4>1. y \in Int /\ a = y % Long
        BY <2>3, <3>1
      <4> HIDE DEF y
      <4>2. a \in 0 .. Long - 1
        BY <4>1, ModRange, Positive
      <4> QED
        BY <4>2, Positive
    <3>6. a % Long = a /\ a + 0 = a
      BY <3>5, ModSmall, Positive
    <3> QED
      BY <3>2, <3>4, <3>6
  <2> QED
    BY <1>4, <2>4, <2>5 DEF Pointing
<1> QED
  BY <1>3, <1>4

(* A move of a data register: what it stores, and where the counter goes.  *)
LEMMA MoveStores ==
  ASSUME NEW s, NEW i, NEW t, Executed(s, i, t), i.class = "Move", i.src_mode = DIRECT_DATA
  PROVE  LET v == get(s, i.src_reg, i.data_size)
             d == setData(Begin(s), i.dest_mode, i.dest_reg, i.data_size, v)
             w == IF i.data_size = SIZE_WORD THEN SignExtend(v, SIZE_WORD) ELSE v
         IN  /\ IS_MEMORY_ALTERABLE(i.dest_mode)
             /\ i.dest_mode = DIRECT_ADDR => t = set(Begin(s), i.dest_reg, SIZE_LONG, w)
             /\ i.dest_mode # DIRECT_ADDR =>
                  Ok(d) /\ t.reg = d.reg /\ t.mem = d.mem /\ t.sup = d.sup
             /\ PC(t) = (PC(s) + Length(i)) % Long
             /\ Length(i) = SIZE_WORD + ExtensionSize(i.dest_mode, i.data_size)
<1> DEFINE size == i.data_size
           v == get(s, i.src_reg, size)
           b == Begin(s)
           d == setData(b, i.dest_mode, i.dest_reg, size, v)
           w == IF size = SIZE_WORD THEN SignExtend(v, SIZE_WORD) ELSE v
           n == SIZE_WORD + SourceBytes(i) + DestBytes(i)
<1>1. /\ s \in Machine /\ t \in Machine /\ Ok(s) /\ Ok(t) /\ i \in Instruction
      /\ IS_MEMORY_ALTERABLE(i.dest_mode)
  BY DEF Executed, Instruction, InstructionsWith, WellFormed
<1>2. /\ size \in DataSize /\ i.src_reg \in 0 .. 15 /\ Operands(i.dest_mode, i.dest_reg, size)
  BY <1>1, Members DEF Operands
<1>3. v \in Int
  BY <1>1, <1>2, GetRange, ModulusDivides
<1>4. b \in Machine
  BY <1>1, Began
<1>5. Source(s, i) = Result(b, v)
  <2>1. get(b, i.src_reg, size) = v
    BY <1>1, <1>2, Began
  <2> QED
    BY <2>1, RegisterOperands
<1>6. t = IF i.dest_mode = DIRECT_ADDR THEN StoreLong(b, i, w) ELSE Describe(d, i, v)
  BY <1>5 DEF Executed, MoveExecute, MoveTo, Widened, Result, Store
<1>7. i.dest_mode = DIRECT_ADDR => StoreLong(b, i, w) = set(b, i.dest_reg, SIZE_LONG, w)
  BY DEF StoreLong, setData, setDataWith, StoreAt, DIRECT_DATA, DIRECT_ADDR,
         PC_DISPLACEMENT, PC_INDEX, IMMEDIATE, UNKNOWN, ABS_WORD
<1>8. d \in Machine
  BY <1>1, <1>2, <1>3, <1>4, SetDataSafe DEF Safe
<1> HIDE DEF d
<1>9. i.dest_mode # DIRECT_ADDR => Ok(d) /\ t.reg = d.reg /\ t.mem = d.mem /\ t.sup = d.sup
  BY <1>1, <1>6, <1>8 DEF Describe, SetFlags, Machine, Ok
<1>10. PC(t) = (PC(s) + n) % Long
  <2>1. Passes(s, MoveExecute(s, i), n, FALSE)
    BY <1>1, PassesMove
  <2>2. t = MoveExecute(s, i)
    BY DEF Executed
  <2> QED
    BY <1>1, <2>1, <2>2 DEF Passes, Moves
<1>11. Length(i) = n /\ n = SIZE_WORD + ExtensionSize(i.dest_mode, size)
  <2>1. ExtensionSize(i.src_mode, size) = 0
    BY DEF ExtensionSize, DIRECT_DATA, DISPLACEMENT, INDEX, PC_DISPLACEMENT, PC_INDEX, ABS_WORD,
           ABS_LONG, IMMEDIATE
  <2>2. ExtensionSize(i.dest_mode, size) \in Int
    BY <1>2, ExtensionRange DEF Operands, SIZE_WORD, SIZE_LONG
  <2> QED
    <3>1. Length(i) = n
      BY <1>1, LengthCases
    <3>2. SourceBytes(i) = 0 /\ DestBytes(i) = ExtensionSize(i.dest_mode, size)
      BY <2>1 DEF SourceBytes, DestBytes
    <3> QED
      BY <2>2, <3>1, <3>2 DEF SIZE_WORD
<1> QED
  BY <1>1, <1>6, <1>7, <1>9, <1>10, <1>11 DEF d

(* A move to a data register: what it loads.                               *)
LEMMA MoveLoads ==
  ASSUME NEW s, NEW i, NEW t, Executed(s, i, t), i.class = "Move", i.dest_mode = DIRECT_DATA
  PROVE  LET g == getData(Begin(s), i.src_mode, i.src_reg, i.data_size)
         IN  /\ Ok(g.st) /\ t.mem = s.mem
             /\ get(t, i.dest_reg, i.data_size) = MASK(g.val, i.data_size)
<1> DEFINE size == i.data_size
           g == Source(s, i)
           d == set(g.st, i.dest_reg, size, g.val)
<1>1. s \in Machine /\ t \in Machine /\ Ok(s) /\ Ok(t) /\ i \in Instruction
  BY DEF Executed
<1>2. size \in DataSize /\ i.dest_reg \in DataReg /\ i.dest_reg \in Named
  BY <1>1, Members DEF Operands, EAFormed, Named
<1>3. g.st \in Machine /\ g.val \in Int /\ g.st.mem = s.mem
  BY <1>1, SourceReads DEF Reads, Quiet
<1>4. t = Describe(d, i, g.val)
  <2>1. \A x, y : Store(x, i, y) = set(x, i.dest_reg, size, y)
    BY RegisterOperands DEF Store
  <2> QED
    BY <2>1 DEF Executed, MoveExecute, MoveTo, DIRECT_DATA, DIRECT_ADDR
<1> HIDE DEF g
<1>5. d \in Machine /\ d.exc = g.st.exc /\ d.mem = g.st.mem
  BY <1>2, <1>3, SetFacts
<1>6. Ok(d) /\ t.reg = d.reg /\ t.mem = d.mem /\ t.sup = d.sup
  <2> HIDE DEF d
  <2> QED
    BY <1>1, <1>4, <1>5 DEF Describe, SetFlags, Machine, Ok
<1>7. Ok(g.st)
  BY <1>5, <1>6 DEF Ok
<1>8. get(d, i.dest_reg, size) = MASK(g.val, size)
  BY <1>2, <1>3, <1>7, GetAfterSet
<1>9. get(t, i.dest_reg, size) = get(d, i.dest_reg, size)
  BY <1>6 DEF get, Bank
<1> QED
  BY <1>3, <1>5, <1>6, <1>7, <1>8, <1>9 DEF g, Source

(* movea widens its operand, and the low part is the operand.              *)
LEMMA WidenedLow ==
  ASSUME NEW size \in {SIZE_WORD, SIZE_LONG}, NEW v \in 0 .. Modulus(size) - 1
  PROVE  LET w == IF size = SIZE_WORD THEN SignExtend(v, SIZE_WORD) ELSE v
         IN  w \in Int /\ MASK(w % Long, size) = v
<1>1. size \in DataSize /\ Modulus(SIZE_WORD) = Word /\ Modulus(SIZE_LONG) = Long
  BY DEF DataSize, Modulus, SIZE_BYTE, SIZE_WORD, SIZE_LONG
<1>2. CASE size = SIZE_LONG
  <2>1. v \in 0 .. Long - 1 /\ v \in Int
    BY <1>1, <1>2, Positive
  <2>2. v % Long = v
    BY <2>1, ModSmall, Positive
  <2> QED
    BY <1>1, <1>2, <2>1, <2>2 DEF MASK, SIZE_WORD, SIZE_LONG
<1>3. CASE size = SIZE_WORD
  <2> DEFINE y == Signed(v, SIZE_WORD)
             w == y % Long
  <2>1. v \in 0 .. Word - 1 /\ v \in Int
    BY <1>1, <1>3, Positive
  <2>2. v % Word = v
    BY <2>1, ModSmall, Positive
  <2>3. y = v \/ y = v - Word
    BY <1>1, <2>1, <2>2, Positive DEF Signed, MASK
  <2> HIDE DEF y
  <2>4. y \in Int /\ (y = v \/ y + Word = v)
    BY <2>1, <2>3, Positive
  <2>5. y % Word = v
    BY <2>1, <2>2, <2>4, ModOnce, Positive
  <2>6. w \in 0 .. Long - 1
    BY <2>4, ModRange, Positive
  <2>7. w \in Int /\ w % Long = w
    BY <2>6, ModSmall, Positive
  <2>8. w % Word = y % Word
    BY <2>4, ModOfMod, Positive DEF Long
  <2> QED
    BY <1>1, <1>3, <2>5, <2>7, <2>8 DEF MASK, SignExtend, y
<1> QED
  BY <1>2, <1>3

(* Through an address register.                                            *)
LEMMA LoadFromRegister ==
  ASSUME NEW s, NEW i, NEW u, NEW j, NEW t, Executed(s, i, u), Executed(u, j, t),
         i.class = "Move", i.src_mode = DIRECT_DATA, i.dest_mode = DIRECT_ADDR,
         j.class = "Move", j.dest_mode = DIRECT_DATA, j.src_mode = DIRECT_ADDR,
         j.src_reg = i.dest_reg, j.data_size = i.data_size
  PROVE  get(t, j.dest_reg, j.data_size) = get(s, i.src_reg, i.data_size)
<1> DEFINE size == i.data_size
           r == i.dest_reg
           v == get(s, i.src_reg, size)
           w == IF size = SIZE_WORD THEN SignExtend(v, SIZE_WORD) ELSE v
           b == Begin(s)
           o == Begin(u)
<1>1. s \in Machine /\ Ok(s) /\ u \in Machine /\ Ok(u) /\ i \in Instruction
  BY DEF Executed
<1>2. /\ size \in {SIZE_WORD, SIZE_LONG} /\ size \in DataSize /\ i.src_reg \in 0 .. 15
      /\ r \in 0 .. 15 /\ r \in Named /\ SIZE_LONG \in DataSize
  <2>1. size \in DataSize /\ i.src_reg \in 0 .. 15 /\ r \in 0 .. 15
    BY <1>1, Members DEF Operands
  <2>2. size # SIZE_BYTE
    BY <1>1 DEF Instruction, InstructionsWith, WellFormed
  <2> QED
    BY <2>1, <2>2 DEF DataSize, Named, DataReg, AddrReg
<1>3. v \in 0 .. Modulus(size) - 1 /\ Modulus(size) \in Nat \ {0}
  BY <1>1, <1>2, GetRange, ModulusDivides
<1>4. u = set(b, r, SIZE_LONG, w) /\ b \in Machine /\ Ok(b)
  BY <1>1, MoveStores, Began
<1> HIDE DEF v
<1>5. w \in Int /\ MASK(w % Long, size) = v
  BY <1>2, <1>3, WidenedLow
<1> HIDE DEF w, b
<1>6. get(u, r, SIZE_LONG) = w % Long
  BY <1>2, <1>4, <1>5, GetAfterSet, MaskLong
<1>7. get(u, r, size) = v
  BY <1>1, <1>2, <1>5, <1>6, LongRegister DEF get
<1>8. getData(o, DIRECT_ADDR, r, size) = Result(o, get(o, r, size))
  BY DEF getData, getDataWith, Accessed, DIRECT_DATA, DIRECT_ADDR, IMMEDIATE, UNKNOWN
<1>9. get(o, r, size) = v
  BY <1>1, <1>2, <1>7, Began
<1>10. get(t, j.dest_reg, size) = MASK(v, size)
  <2>1. get(t, j.dest_reg, j.data_size)
          = MASK(getData(o, j.src_mode, j.src_reg, j.data_size).val, j.data_size)
    BY MoveLoads
  <2> QED
    BY <1>8, <1>9, <2>1 DEF Result
<1>11. MASK(v, size) = v
  BY <1>3, ModSmall DEF MASK
<1> QED
  BY <1>10, <1>11 DEF v

(* Through memory.                                                         *)
LEMMA LoadFromMemory ==
  ASSUME NEW s, NEW i, NEW u, NEW j, NEW t, Executed(s, i, u), Executed(u, j, t),
         i.class = "Move", i.src_mode = DIRECT_DATA,
         i.dest_mode \notin {DIRECT_DATA, DIRECT_ADDR},
         j.class = "Move", j.dest_mode = DIRECT_DATA, j.src_mode = Back(i.dest_mode),
         j.src_reg = i.dest_reg, j.data_size = i.data_size,
         NEW x, NEW n, n = ExtensionSize(i.dest_mode, i.data_size),
         x = IF n = 0 THEN 0 ELSE read_real_mem(s.mem, MASK_ADDR(PC(s) + SIZE_WORD), n),
         x = IF n = 0 THEN 0
             ELSE read_real_mem(t.mem, MASK_ADDR(PC(s) + (Length(i) + SIZE_WORD)), n),
         i.dest_mode = ABS_WORD => ~IS_NEGATIVE(x, SIZE_WORD)
  PROVE  get(t, j.dest_reg, j.data_size) = get(s, i.src_reg, i.data_size)
<1> DEFINE size == i.data_size
           mode == i.dest_mode
           back == j.src_mode
           r == i.dest_reg
           v == get(s, i.src_reg, size)
           b == Begin(s)
           d == setData(b, mode, r, size, v)
           o == Begin(u)
           g == getData(o, back, r, size)
<1>1. /\ s \in Machine /\ Ok(s) /\ u \in Machine /\ Ok(u) /\ i \in Instruction /\ j \in Instruction
  BY DEF Executed
<1>2. /\ Operands(mode, r, size) /\ Operands(back, r, size) /\ IS_MEMORY_ALTERABLE(mode)
      /\ size \in DataSize /\ i.src_reg \in 0 .. 15 /\ r \in 0 .. 15 /\ mode \in AddressingMode
  BY <1>1, Members DEF Operands, Instruction, InstructionsWith, WellFormed
<1>3. v \in 0 .. Modulus(size) - 1 /\ Modulus(size) \in Nat \ {0} /\ v \in Int
  BY <1>1, <1>2, GetRange, ModulusDivides
<1>4. n \in {0} \cup DataSize /\ n \in Int /\ (mode = ABS_WORD => n = SIZE_WORD)
  <2>1. n \in {0} \cup DataSize
    BY <1>2, ExtensionRange DEF DataSize
  <2>2. mode = ABS_WORD => n = SIZE_WORD
    BY DEF ExtensionSize, DISPLACEMENT, INDEX, PC_DISPLACEMENT, PC_INDEX, ABS_WORD, ABS_LONG,
           IMMEDIATE
  <2> QED
    BY <2>1, <2>2 DEF DataSize, SIZE_BYTE, SIZE_WORD, SIZE_LONG
<1>5. /\ back = Back(mode) /\ back \notin {DIRECT_DATA, DIRECT_ADDR, IMMEDIATE, UNKNOWN}
      /\ ExtensionSize(back, size) = n
  BY <1>2 DEF Back, IS_MEMORY_ALTERABLE, ExtensionSize, DIRECT_DATA, DIRECT_ADDR, IMMEDIATE,
              UNKNOWN, POSTINCREMENT, PREDECREMENT, DISPLACEMENT, INDEX, PC_DISPLACEMENT, PC_INDEX,
              ABS_WORD, ABS_LONG
<1>6. /\ b \in Machine /\ b.mem = s.mem /\ b.sup = s.sup /\ PC(b) = (PC(s) + SIZE_WORD) % Long
      /\ o \in Machine /\ o.mem = u.mem /\ o.sup = u.sup /\ PC(o) = (PC(u) + SIZE_WORD) % Long
      /\ \A q \in RegisterType \ {REG_PC} : o.reg[q] = u.reg[q]
  BY <1>1, Began
<1>7. /\ Ok(d) /\ u.reg = d.reg /\ u.mem = d.mem /\ u.sup = d.sup
      /\ PC(u) = (PC(s) + Length(i)) % Long /\ Length(i) = SIZE_WORD + n
  BY MoveStores
<1>8. Ok(g.st) /\ t.mem = u.mem /\ get(t, j.dest_reg, size) = MASK(g.val, size)
  BY MoveLoads
<1>9. /\ PC(s) \in Int /\ PC(s) + SIZE_WORD \in Int /\ Length(i) \in Int
      /\ PC(s) + Length(i) \in Int /\ SIZE_WORD \in Int
      /\ PC(s) + (Length(i) + SIZE_WORD) = (PC(s) + Length(i)) + SIZE_WORD
      /\ PC(s) + (Length(i) + SIZE_WORD) \in Int
  BY <1>1, <1>4, <1>7, PCInt DEF SIZE_WORD
<1>10. MASK_ADDR(PC(b)) = MASK_ADDR(PC(s) + SIZE_WORD)
  BY <1>6, <1>9, AddressOfLong
<1>11. MASK_ADDR(PC(o)) = MASK_ADDR(PC(s) + (Length(i) + SIZE_WORD))
  <2>1. PC(o) = (PC(s) + (Length(i) + SIZE_WORD)) % Long
    BY <1>6, <1>7, <1>9, ModPlus, Positive
  <2> QED
    BY <1>9, <2>1, AddressOfLong
<1> HIDE DEF size, mode, back, r, v, b, d, o, g
<1> DEFINE a == EffectiveAddress(b, mode, r, size, SignedAbs(mode, Peek(b, n).val))
<1>12. /\ Ok(Peek(b, n).st) /\ a \in Int /\ AccessError(a, size) = "none"
       /\ d.sup = b.sup /\ d.mem = write_real_mem(b.mem, MASK_ADDR(a), size, v)
       /\ \A q \in RegisterType \ {REG_PC} :
            (mode \in Pointing => q # Bank(b, r)) => d.reg[q] = b.reg[q]
       /\ mode \in Pointing =>
            d.reg[Bank(b, r)] = (IF mode = POSTINCREMENT THEN a + Stride(r, size) ELSE a) % Long
  <2>1. n = ExtensionSize(mode, size) /\ mode \notin {DIRECT_DATA, DIRECT_ADDR}
    BY DEF mode, size
  <2> QED
    BY <1>2, <1>3, <1>6, <1>7, <2>1, StoreLands DEF d
<1>13. /\ Ok(Peek(o, n).st)
       /\ g.val = read_real_mem(o.mem, MASK_ADDR(EffectiveAddress(o, back, r, size, Peek(o, n).val)), size)
  BY <1>2, <1>5, <1>6, <1>8, LoadReads DEF g
<1>14. Peek(b, n).val = x /\ Peek(o, n).val = x /\ x \in Int /\ (mode = ABS_WORD => x \in WordVal)
  <2>1. Peek(b, n).val = x
    BY <1>4, <1>6, <1>10, <1>12, ExtensionRead
  <2>2. Peek(o, n).val = x
    BY <1>4, <1>6, <1>8, <1>11, <1>13, ExtensionRead
  <2>3. Peek(b, n).val \in Int
    BY <1>4, <1>6, PeekReads DEF Reads
  <2>4. n = SIZE_WORD => Peek(b, n).val \in WordVal
    BY <1>4, <1>6, <1>12, ExtensionRead
  <2> QED
    BY <1>4, <2>1, <2>2, <2>3, <2>4
<1>15. a = EffectiveAddress(b, mode, r, size, SignedAbs(mode, x))
  BY <1>14
<1> HIDE DEF a
<1>16. EffectiveAddress(o, back, r, size, x) = a
  <2>1. mode = ABS_WORD => x \in WordVal /\ ~IS_NEGATIVE(x, SIZE_WORD)
    BY <1>14 DEF mode
  <2>2. \A q \in RegisterType \ {REG_PC} :
          (mode \in Pointing => q # Bank(b, r)) => o.reg[q] = b.reg[q]
    BY <1>6, <1>7, <1>12
  <2>3. mode \in Pointing =>
          o.reg[Bank(b, r)] = (IF mode = POSTINCREMENT THEN a + Stride(r, size) ELSE a) % Long
    <3>1. Bank(b, r) \in RegisterType \ {REG_PC}
      BY <1>2 DEF Bank, RegisterType, REG_PC, REG_A7, REG_SSP
    <3> QED
      BY <1>6, <1>7, <1>12, <3>1
  <2>4. o.sup = b.sup
    BY <1>6, <1>7, <1>12
  <2>5. EffectiveAddress(o, Back(mode), r, size, x) = a
    BY <1>2, <1>6, <1>14, <1>15, <2>1, <2>2, <2>3, <2>4, BackAddress
  <2> QED
    BY <1>5, <2>5
<1>17. g.val = MASK(v, size)
  <2>1. MASK_ADDR(a) \in Address /\ MASK_ADDR(a) + size <= MemSize
    BY <1>2, <1>12, AccessInside
  <2>2. read_real_mem(write_real_mem(b.mem, MASK_ADDR(a), size, v), MASK_ADDR(a), size) = MASK(v, size)
    BY <1>2, <1>3, <2>1, ReadBack
  <2>3. o.mem = write_real_mem(b.mem, MASK_ADDR(a), size, v)
    BY <1>6, <1>7, <1>12
  <2> QED
    BY <1>13, <1>14, <1>16, <2>2, <2>3
<1>18. MASK(v, size) = v
  BY <1>3, ModSmall DEF MASK
<1>19. get(t, j.dest_reg, size) = v
  BY <1>8, <1>17, <1>18
<1> QED
  BY <1>19 DEF v, size

(* Whatever was stored where, the load finds it.                           *)
LEMMA LoadInState ==
  ASSUME ProgramsInv
  PROVE  LoadFindsStore
<1> SUFFICES ASSUME Len(trace) = 2, Ok(cpu), StoreAndLoad(trace[1], trace[2])
             PROVE  get(cpu, trace[2].dest_reg, trace[2].data_size)
                      = get(start, trace[1].src_reg, trace[1].data_size)
  BY DEF LoadFindsStore, First2
<1> DEFINE i == trace[1]
           j == trace[2]
           n == ExtensionSize(i.dest_mode, i.data_size)
           x == ExtensionAt(start.mem, SIZE_WORD, i)
<1>1. PICK u \in Machine : Executed(start, i, u) /\ Executed(u, j, cpu)
  BY DEF ProgramsInv, Traced
<1>2. /\ i.class = "Move" /\ i.src_mode = DIRECT_DATA
      /\ j.class = "Move" /\ j.dest_mode = DIRECT_DATA
      /\ j.src_mode = Back(i.dest_mode) /\ j.src_mode # DIRECT_DATA
      /\ j.src_reg = i.dest_reg /\ j.data_size = i.data_size
      /\ x = ExtensionAt(cpu.mem, Length(i) + SIZE_WORD, i)
      /\ i.dest_mode = ABS_WORD => ~IS_NEGATIVE(x, SIZE_WORD)
  BY DEF StoreAndLoad
<1>3. /\ x = IF n = 0 THEN 0 ELSE read_real_mem(start.mem, MASK_ADDR(PC(start) + SIZE_WORD), n)
      /\ x = IF n = 0 THEN 0
             ELSE read_real_mem(cpu.mem, MASK_ADDR(PC(start) + (Length(i) + SIZE_WORD)), n)
  BY <1>2 DEF ExtensionAt
<1> HIDE DEF i, j, x, n
<1>4. n = ExtensionSize(i.dest_mode, i.data_size)
  BY DEF n
<1>5. i.dest_mode # DIRECT_DATA
  BY <1>2 DEF Back, DIRECT_DATA, POSTINCREMENT, PREDECREMENT
<1>6. get(cpu, j.dest_reg, j.data_size) = get(start, i.src_reg, i.data_size)
  <2>1. CASE i.dest_mode = DIRECT_ADDR
    <3>1. j.src_mode = DIRECT_ADDR
      BY <1>2, <2>1 DEF Back, DIRECT_ADDR, POSTINCREMENT, PREDECREMENT
    <3> QED
      BY <1>1, <1>2, <2>1, <3>1, LoadFromRegister
  <2>2. CASE i.dest_mode # DIRECT_ADDR
    BY <1>1, <1>2, <1>3, <1>4, <1>5, <2>2, LoadFromMemory
  <2> QED
    BY <2>1, <2>2
<1> QED
  BY <1>6 DEF i, j

(* A load finds what the store before it left, through every addressing    *)
(* mode and back, at every address where both succeed, for every width of  *)
(* a byte and size of memory: the two compute the same address, with the   *)
(* same byte order, although registers and program counter moved between.  *)
THEOREM LoadsFindStores == ProgramsSpec => []LoadFindsStore
  BY ProgramsStart, ProgramsStep, LoadInState, PTL DEF ProgramsSpec
=============================================================================
