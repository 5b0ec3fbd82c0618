--------------------------- MODULE OperandProofs ---------------------------
(***************************************************************************)
(* What one instruction does to the program counter, to the stack pointer  *)
(* and to its operand, for every bank size, every word width and every     *)
(* instruction the opcode table may hold: the counter ends behind the      *)
(* instruction's last extension word, an even stack pointer stays even,    *)
(* and a result is written to the address its operand was read from.       *)
(* The first part is arithmetic on div and mod; the second follows the     *)
(* relation Passes through every helper and every execute(); the third     *)
(* shows that what is written to memory or to a register is read back.     *)
(***************************************************************************)
EXTENDS CPUProofs

(* Euclidean division.                                                     *)
LEMMA DivMod ==
  ASSUME NEW a \in Int, NEW n \in Nat \ {0}
  PROVE  /\ a \div n \in Int
         /\ a % n \in 0 .. n - 1
         /\ a = n * (a \div n) + (a % n)
  OBVIOUS

(* Quotient and remainder are unique.                                      *)
LEMMA ModUnique ==
  ASSUME NEW a \in Int, NEW n \in Nat \ {0}, NEW q \in Int, NEW r \in 0 .. n - 1,
         a = n * q + r
  PROVE  a % n = r /\ a \div n = q
<1> DEFINE p == a \div n
           m == a % n
<1>1. p \in Int /\ m \in 0 .. n - 1 /\ a = n * p + m
  BY DivMod
<1> HIDE DEF p, m
<1>2. \A x, y \in Int : n * x - n * y = n * (x - y)
  OBVIOUS
<1>3. n * (p - q) = r - m
  BY <1>1, <1>2
<1>4. \A d \in Int : d >= 1 => n * d >= n
  OBVIOUS
<1>5. \A d \in Int : d <= -1 => n * d <= -n
  OBVIOUS
<1>6. p - q \in Int /\ ~(p - q >= 1) /\ ~(p - q <= -1)
  BY <1>1, <1>3, <1>4, <1>5
<1>7. p = q
  BY <1>1, <1>6
<1>8. m = r
  BY <1>1, <1>7
<1> QED
  BY <1>7, <1>8 DEF p, m

(* A multiple of the divisor does not change the remainder.                *)
LEMMA ModShift ==
  ASSUME NEW a \in Int, NEW q \in Int, NEW n \in Nat \ {0}
  PROVE  (a + n * q) % n = a % n
<1> DEFINE p == a \div n
           m == a % n
<1>1. p \in Int /\ m \in 0 .. n - 1 /\ a = n * p + m
  BY DivMod
<1> HIDE DEF p, m
<1>2. n * (p + q) = n * p + n * q
  BY <1>1
<1>3. a + n * q = n * (p + q) + m /\ p + q \in Int /\ a + n * q \in Int
  BY <1>1, <1>2
<1>4. (a + n * q) % n = m
  BY <1>1, <1>3, ModUnique
<1> QED
  BY <1>4 DEF m

(* Wrapping twice is wrapping once.                                        *)
LEMMA ModPlus ==
  ASSUME NEW a \in Int, NEW b \in Int, NEW n \in Nat \ {0}
  PROVE  ((a % n) + b) % n = (a + b) % n
<1> DEFINE p == a \div n
           m == a % n
<1>1. p \in Int /\ m \in 0 .. n - 1 /\ a = n * p + m
  BY DivMod
<1> HIDE DEF p, m
<1>2. a + b = (m + b) + n * p /\ m + b \in Int
  BY <1>1
<1>3. ((m + b) + n * p) % n = (m + b) % n
  BY <1>1, <1>2, ModShift
<1> QED
  BY <1>2, <1>3 DEF m

(* So is wrapping at a multiple first.                                     *)
LEMMA ModOfMod ==
  ASSUME NEW a \in Int, NEW n \in Nat \ {0}, NEW k \in Nat \ {0}
  PROVE  (a % (k * n)) % n = a % n
<1>1. k * n \in Nat \ {0}
  OBVIOUS
<1> DEFINE p == a \div (k * n)
           m == a % (k * n)
<1>2. p \in Int /\ m \in Int /\ a = (k * n) * p + m
  <2>1. \A y \in Nat \ {0} : /\ a \div y \in Int /\ a % y \in Int
                              /\ a = y * (a \div y) + (a % y)
    BY DivMod
  <2> QED
    BY <1>1, <2>1
<1> HIDE DEF p, m
<1>3. (k * n) * p = n * (k * p) /\ k * p \in Int
  BY <1>2
<1>4. a = m + n * (k * p)
  BY <1>2, <1>3
<1>5. (m + n * (k * p)) % n = m % n
  BY <1>2, <1>3, ModShift
<1> QED
  BY <1>4, <1>5 DEF m

(* A number in range is its own remainder.                                 *)
LEMMA ModSmall ==
  ASSUME NEW n \in Nat \ {0}, NEW a \in 0 .. n - 1
  PROVE  a % n = a
  OBVIOUS
-----------------------------------------------------------------------------
(* Long is even: a byte has at least one bit.                              *)
LEMMA LongEven == \E h \in Nat \ {0} : Long = h * 2
<1> DEFINE g == Pow2[Bits - 1]
<1>1. Bits - 1 \in 0 .. 8 * Bits - 1 /\ Bits - 1 \in 0 .. 8 * Bits /\ (Bits - 1) + 1 = Bits
  BY BitsAssumption
<1>2. g \in Nat \ {0}
  BY <1>1, Pow2Assumption
<1>3. Pow2[(Bits - 1) + 1] = 2 * g
  BY <1>1, Pow2Assumption
<1>4. Byte = 2 * g
  BY <1>1, <1>3 DEF Byte
<1> HIDE DEF g
<1>5. g * Byte * Word \in Nat \ {0}
  <2>1. \A x, y \in Nat \ {0} : x * y \in Nat \ {0}
    OBVIOUS
  <2> QED
    BY <1>2, <2>1, Positive
<1>6. \A x, y, z \in Nat : (2 * x * y) * z = (x * y * z) * 2
  OBVIOUS
<1>7. Long = (2 * g * Byte) * Word
  BY <1>4 DEF Long, Word
<1> QED
  BY <1>2, <1>5, <1>6, <1>7, Positive

(* Wrapping at Long keeps a number odd or even.                            *)
LEMMA LongParity ==
  ASSUME NEW a \in Int
  PROVE  (a % Long) % 2 = a % 2
<1>1. PICK h \in Nat \ {0} : Long = h * 2
  BY LongEven
<1> DEFINE two == 2
<1>2. two \in Nat \ {0} /\ Long = h * two
  BY <1>1
<1> HIDE DEF two
<1>3. (a % (h * two)) % two = a % two
  BY <1>2, ModOfMod
<1> QED
  BY <1>2, <1>3 DEF two

(* What a register read and a long written to a register are.              *)
LEMMA LongRegister ==
  /\ \A old \in LongVal, data \in Int : Merge(old, SIZE_LONG, data) = data % Long
  /\ \A s \in Machine, r \in Named : get(s, r, SIZE_LONG) = s.reg[Bank(s, r)]
<1>1. Modulus(SIZE_LONG) = Long
  BY DEF Modulus, SIZE_BYTE, SIZE_WORD, SIZE_LONG
<1>2. ASSUME NEW old \in LongVal, NEW data \in Int
      PROVE  Merge(old, SIZE_LONG, data) = data % Long
  <2>1. old = Long * 0 + old /\ old \in 0 .. Long - 1 /\ old \in Int
    BY Positive DEF LongVal
  <2>2. old \div Long = 0
    BY <2>1, ModUnique, Positive
  <2>3. data % Long \in Int
    BY ModRange, Positive
  <2> QED
    BY <1>1, <2>2, <2>3, Positive DEF Merge, MASK
<1>3. ASSUME NEW s \in Machine, NEW r \in Named
      PROVE  get(s, r, SIZE_LONG) = s.reg[Bank(s, r)]
  <2>1. s.reg[Bank(s, r)] \in 0 .. Long - 1
    BY BankSeparate DEF Machine, LongVal
  <2> QED
    BY <1>1, <2>1, ModSmall, Positive DEF get, MASK
<1> QED
  BY <1>2, <1>3

(* Writing a register that can be written stores the merged value there.   *)
LEMMA SetStores ==
  ASSUME NEW s \in Machine, Ok(s), NEW r \in Named, NEW size \in DataSize, NEW data \in Int
  PROVE  set(s, r, size, data).reg[Bank(s, r)] = Merge(s.reg[Bank(s, r)], size, data)
<1> DEFINE b == Bank(s, r)
           v == Merge(s.reg[b], size, data)
<1>1. b \in RegisterType /\ s.reg \in [RegisterType -> LongVal]
  BY BankSeparate DEF Machine
<1>2. set(s, r, size, data) = [s EXCEPT !.reg = [s.reg EXCEPT ![b] = v]]
  BY DEF set
<1> HIDE DEF b, v
<1>3. set(s, r, size, data).reg = [s.reg EXCEPT ![b] = v]
  BY <1>2 DEF Machine
<1>4. [s.reg EXCEPT ![b] = v][b] = v
  BY <1>1
<1> QED
  BY <1>3, <1>4 DEF b, v
-----------------------------------------------------------------------------
(* Unless an exception stopped it, the way from s to t moved the program   *)
(* counter by n.                                                           *)
Moves(s, t, n) == Ok(t) => Ok(s) /\ PC(t) = (PC(s) + n) % Long

(* The mode is the same, and an even stack pointer is still even.          *)
Level(s, t) == t.sup = s.sup /\ (ActiveSP(s) % 2 = 0 => ActiveSP(t) % 2 = 0)

(* Both, the second only if a holds.                                       *)
Passes(s, t, n, a) == t \in Machine /\ Moves(s, t, n) /\ (a => Level(s, t))

(* The program counter is in range; it and the stack pointer are these     *)
(* registers.                                                              *)
LEMMA Pointers ==
  ASSUME NEW s \in Machine
  PROVE  /\ PC(s) = s.reg[REG_PC] /\ PC(s) \in 0 .. Long - 1 /\ PC(s) \in Int
         /\ PC(s) % Long = PC(s)
         /\ ActiveSP(s) = get(s, REG_USP, SIZE_LONG)
         /\ ActiveSP(s) \in 0 .. Long - 1 /\ ActiveSP(s) \in Int
<1>1. REG_PC \in Named /\ Bank(s, REG_PC) = REG_PC /\ REG_USP \in Named /\ REG_A7 = REG_USP
  BY DEF Named, Bank, REG_PC, REG_A7, REG_USP, AddrReg
<1>2. PC(s) = s.reg[REG_PC] /\ ActiveSP(s) = get(s, REG_USP, SIZE_LONG)
  BY <1>1, LongRegister DEF PC, ActiveSP
<1>3. s.reg[REG_PC] \in LongVal /\ s.reg[Bank(s, REG_USP)] \in LongVal
  BY <1>1, BankSeparate DEF Machine
<1>4. LongVal = 0 .. Long - 1
  BY DEF LongVal
<1>5. PC(s) % Long = PC(s)
  BY <1>2, <1>3, <1>4, ModSmall, Positive
<1> QED
  BY <1>1, <1>2, <1>3, <1>4, <1>5, Positive DEF ActiveSP

(* A step that keeps the registers moves nothing.                          *)
LEMMA PassesSame ==
  ASSUME NEW s \in Machine, NEW t \in Machine, t.reg = s.reg, t.sup = s.sup, Ok(t) => Ok(s),
         NEW a
  PROVE  Passes(s, t, 0, a)
<1>1. PC(t) = PC(s) /\ ActiveSP(t) = ActiveSP(s)
  BY Pointers DEF ActiveSP, Bank
<1>2. (PC(s) + 0) % Long = PC(s)
  BY Pointers
<1> QED
  BY <1>1, <1>2 DEF Passes, Moves, Level

(* Steps that pass n bytes and then m bytes pass n + m.                    *)
LEMMA PassesTrans ==
  ASSUME NEW s \in Machine, NEW t, NEW u, NEW n \in Int, NEW m \in Int, NEW a,
         Passes(s, t, n, a), Passes(t, u, m, a)
  PROVE  Passes(s, u, n + m, a)
<1>1. PC(s) \in Int /\ PC(s) + n \in Int /\ (PC(s) + n) + m = PC(s) + (n + m)
  BY Pointers
<1>2. (((PC(s) + n) % Long) + m) % Long = (PC(s) + (n + m)) % Long
  BY <1>1, ModPlus, Positive
<1>3. Moves(s, u, n + m)
  BY <1>2 DEF Passes, Moves
<1>4. a => Level(s, u)
  BY DEF Passes, Level
<1> QED
  BY <1>3, <1>4 DEF Passes

(* The write of a data or address register does not move the counter; a    *)
(* long that is even leaves the stack pointer even.                        *)
LEMMA PassesSet ==
  ASSUME NEW s \in Machine, NEW r \in 0 .. 15, NEW size \in DataSize, NEW data \in Int, NEW a,
         a => r # REG_A7 \/ (size = SIZE_LONG /\ (ActiveSP(s) % 2 = 0 => data % 2 = 0))
  PROVE  Passes(s, set(s, r, size, data), 0, a)
<1> DEFINE t == set(s, r, size, data)
           b == Bank(s, r)
<1>1. r \in Named
  BY DEF Named, DataReg, AddrReg
<1>2. /\ t \in Machine /\ t.sup = s.sup /\ t.exc = s.exc
      /\ \A q \in RegisterType : q # b => t.reg[q] = s.reg[q]
  BY <1>1, SetFacts
<1>3. CASE ~Ok(s)
  <2>1. t = s
    BY <1>3 DEF set
  <2>2. Passes(s, s, 0, a)
    BY PassesSame
  <2> QED
    BY <2>1, <2>2
<1>4. CASE Ok(s)
  <2>1. t.reg[b] = Merge(s.reg[b], size, data) /\ b \in RegisterType /\ s.reg[b] \in LongVal
    BY <1>1, <1>4, SetStores, BankSeparate DEF Machine
  <2> HIDE DEF t
  <2>2. REG_PC \in RegisterType /\ REG_PC # b
    BY DEF b, Bank, RegisterType, REG_PC, REG_A7, REG_SSP
  <2>3. PC(t) = (PC(s) + 0) % Long
    BY <1>2, <2>2, Pointers
  <2>4. ASSUME a PROVE Level(s, t)
    <3>1. Bank(t, REG_A7) = Bank(s, REG_A7) /\ Bank(s, REG_A7) \in RegisterType
      BY <1>2 DEF Bank, RegisterType, REG_A7, REG_SSP
    <3>2. CASE r # REG_A7
      <4>1. Bank(s, REG_A7) # b
        BY <3>2 DEF b, Bank, REG_A7, REG_SSP
      <4> QED
        BY <1>2, <3>1, <4>1 DEF Level, ActiveSP
    <3>3. CASE r = REG_A7
      <4>1. size = SIZE_LONG /\ (ActiveSP(s) % 2 = 0 => data % 2 = 0)
        BY <2>4, <3>3
      <4>2. ActiveSP(t) = data % Long
        BY <2>1, <3>1, <3>3, <4>1, LongRegister DEF ActiveSP, b
      <4> QED
        BY <1>2, <4>1, <4>2, LongParity DEF Level
    <3> QED
      BY <3>2, <3>3
  <2>5. Passes(s, t, 0, a)
    BY <1>2, <1>4, <2>3, <2>4 DEF Passes, Moves
  <2> QED
    BY <2>5 DEF t
<1> QED
  BY <1>3, <1>4

(* Setting the program counter.                                            *)
LEMMA PassesPC ==
  ASSUME NEW s \in Machine, NEW data \in Int
  PROVE  /\ SetPC(s, data) \in Machine
         /\ SetPC(s, data).exc = s.exc
         /\ Ok(s) => PC(SetPC(s, data)) = data % Long
         /\ Level(s, SetPC(s, data))
         /\ \A q \in RegisterType \ {REG_PC} : SetPC(s, data).reg[q] = s.reg[q]
<1> DEFINE t == SetPC(s, data)
<1>1. REG_PC \in Named /\ Bank(s, REG_PC) = REG_PC /\ SIZE_LONG \in DataSize
  BY DEF Named, Bank, REG_PC, REG_A7, DataSize
<1>2. /\ t \in Machine /\ t.sup = s.sup /\ t.exc = s.exc
      /\ \A q \in RegisterType : q # REG_PC => t.reg[q] = s.reg[q]
  BY <1>1, SetFacts DEF SetPC
<1>3. Ok(s) => t.reg[REG_PC] = Merge(s.reg[REG_PC], SIZE_LONG, data)
  BY <1>1, SetStores DEF SetPC
<1>4. s.reg[REG_PC] \in LongVal
  BY <1>1, BankSeparate DEF Machine
<1> HIDE DEF t
<1>5. Ok(s) => PC(t) = data % Long
  BY <1>2, <1>3, <1>4, LongRegister, Pointers
<1>6. /\ Bank(t, REG_A7) = Bank(s, REG_A7) /\ Bank(s, REG_A7) \in RegisterType
      /\ Bank(s, REG_A7) # REG_PC
  BY <1>2 DEF Bank, RegisterType, REG_A7, REG_SSP, REG_PC
<1>7. Level(s, t)
  BY <1>2, <1>6 DEF Level, ActiveSP
<1> QED
  BY <1>2, <1>5, <1>7 DEF t

(* Moving it by n, after a read that did not move it.                      *)
LEMMA PassesBy ==
  ASSUME NEW s \in Machine, NEW t, NEW n \in Int, NEW a, Passes(s, t, 0, a)
  PROVE  Passes(s, SetPC(t, PC(s) + n), n, a)
<1>1. PC(s) + n \in Int /\ t \in Machine
  BY Pointers DEF Passes
<1> QED
  BY <1>1, PassesPC DEF Passes, Moves, Level, Ok

(* The same as PassesSet, when s is not the state just before the write.   *)
LEMMA PassesSetAfter ==
  ASSUME NEW s \in Machine, NEW t, NEW n \in Int, NEW a, Passes(s, t, n, a),
         NEW r \in 0 .. 15, NEW size \in DataSize, NEW data \in Int,
         a => r # REG_A7 \/ (size = SIZE_LONG /\ (ActiveSP(s) % 2 = 0 => data % 2 = 0))
  PROVE  Passes(s, set(t, r, size, data), n, a)
<1> DEFINE u == set(t, r, size, data)
           even == a /\ ActiveSP(s) % 2 = 0
<1>1. t \in Machine /\ r \in Named /\ Passes(s, t, n, even)
  BY DEF Passes, Named, DataReg, AddrReg
<1>2. even => r # REG_A7 \/ (size = SIZE_LONG /\ (ActiveSP(t) % 2 = 0 => data % 2 = 0))
  OBVIOUS
<1> HIDE DEF even
<1>3. Passes(t, u, 0, even) /\ u.sup = t.sup
  BY <1>1, <1>2, PassesSet, SetFacts
<1> HIDE DEF u
<1>4. Passes(s, u, n + 0, even) /\ n + 0 = n
  BY <1>1, <1>3, PassesTrans
<1>5. Passes(s, u, n, a)
  BY <1>3, <1>4 DEF Passes, Level, even
<1> QED
  BY <1>5 DEF u

(* Exceptions, memory accesses and flags move nothing.                     *)
LEMMA PassesThrow ==
  ASSUME NEW s \in Machine, NEW e \in Exceptions, NEW a
  PROVE  Passes(s, Throw(s, e), 0, a)
<1>1. Quiet(s, Throw(s, e))
  BY QuietThrow
<1>2. Throw(s, e).reg = s.reg /\ (Ok(Throw(s, e)) => Ok(s))
  BY DEF Throw, Machine, Ok
<1> QED
  BY <1>1, <1>2, PassesSame DEF Quiet

(* A memory read moves neither the counter nor the stack.                  *)
LEMMA PassesGet ==
  ASSUME NEW s \in Machine, NEW address \in Int, NEW size \in DataSize, NEW a
  PROVE  Passes(s, MemGet(s, address, size).st, 0, a)
<1>1. Passes(s, s, 0, a)
  BY PassesSame
<1> QED
  BY <1>1, PassesThrow, AccessInside DEF MemGet, Result

(* Nor does a memory write.                                                *)
LEMMA PassesPut ==
  ASSUME NEW s \in Machine, NEW address \in Int, NEW size \in DataSize, NEW data \in Int, NEW a
  PROVE  Passes(s, MemSet(s, address, size, data), 0, a)
<1>1. MemSet(s, address, size, data) \in Machine
  BY MemSetSafe DEF Safe
<1>2. CASE Ok(s) /\ AccessError(address, size) = "none"
  <2>1. /\ MemSet(s, address, size, data).reg = s.reg
        /\ MemSet(s, address, size, data).sup = s.sup
    BY <1>2 DEF MemSet, Machine
  <2> QED
    BY <1>1, <1>2, <2>1, PassesSame
<1>3. CASE ~(Ok(s) /\ AccessError(address, size) = "none")
  <2>1. Passes(s, s, 0, a)
    BY PassesSame
  <2> QED
    BY <1>3, <2>1, PassesThrow, AccessInside DEF MemSet
<1> QED
  BY <1>2, <1>3

(* Nor does an update of the condition codes.                              *)
LEMMA PassesFlags ==
  ASSUME NEW s \in Machine, NEW ccr \in CCR, NEW a
  PROVE  Passes(s, SetFlags(s, ccr), 0, a)
<1>1. CASE Ok(s)
  <2>1. /\ SetFlags(s, ccr) \in Machine /\ SetFlags(s, ccr).reg = s.reg
        /\ SetFlags(s, ccr).sup = s.sup
    BY <1>1 DEF SetFlags, Machine
  <2> QED
    BY <1>1, <2>1, PassesSame
<1>2. CASE ~Ok(s)
  BY <1>2, PassesSame DEF SetFlags
<1> QED
  BY <1>1, <1>2

(* Reading the extension, without and with moving past it.                 *)
LEMMA PassesFetch ==
  ASSUME NEW s \in Machine, NEW n \in {0} \cup DataSize, NEW a
  PROVE  /\ Passes(s, Peek(s, n).st, 0, a)
         /\ Passes(s, Fetch(s, n).st, n, a)
         /\ Fetch(s, n).val = Peek(s, n).val
         /\ n \in Int
<1>1. n \in Int
  BY DEF DataSize, SIZE_BYTE, SIZE_WORD, SIZE_LONG
<1>2. CASE n = 0
  <2>1. Peek(s, n) = Result(s, 0) /\ Fetch(s, n) = Result(s, 0)
    BY <1>2 DEF Peek, Fetch, Consume
  <2> QED
    BY <1>1, <1>2, <2>1, PassesSame DEF Result
<1>3. CASE n # 0
  <2>1. Peek(s, n) = MemGet(s, PC(s), n) /\ n \in DataSize
    BY <1>3 DEF Peek
  <2>2. Passes(s, Peek(s, n).st, 0, a)
    BY <2>1, PassesGet, PCInt
  <2>3. Fetch(s, n) = Result(SetPC(Peek(s, n).st, PC(s) + n), Peek(s, n).val)
    BY <1>3 DEF Fetch, Consume
  <2> QED
    BY <1>1, <2>2, <2>3, PassesBy DEF Result
<1> QED
  BY <1>2, <1>3
-----------------------------------------------------------------------------
(* Through A7 the address of a postincrement or predecrement operand is    *)
(* even if the stack pointer is: a byte moves it by two.                   *)
LEMMA StackAddressEven ==
  ASSUME NEW s \in Machine, NEW mode \in {POSTINCREMENT, PREDECREMENT}, NEW size \in DataSize,
         NEW ext, ActiveSP(s) % 2 = 0
  PROVE  LET a == EffectiveAddress(s, mode, REG_A7, size, ext)
         IN  a % 2 = 0 /\ (a + Stride(REG_A7, size)) % 2 = 0
<1> DEFINE sp == ActiveSP(s)
           d == Stride(REG_A7, size)
           a == EffectiveAddress(s, mode, REG_A7, size, ext)
<1>1. sp \in Int /\ get(s, REG_A7, SIZE_LONG) = sp
  BY Pointers DEF REG_A7, REG_USP
<1>2. d \in {2, 4}
  BY DEF Stride, DataSize, SIZE_BYTE, SIZE_WORD, SIZE_LONG
<1>3. Base(s, mode, REG_A7) = sp
  BY <1>1 DEF Base, POSTINCREMENT, PREDECREMENT, PC_DISPLACEMENT, PC_INDEX, ABS_WORD, ABS_LONG
<1>4. Offset(s, mode, REG_A7, size, ext) = IF mode = PREDECREMENT THEN -d ELSE 0
  BY DEF Offset, POSTINCREMENT, PREDECREMENT, DISPLACEMENT, PC_DISPLACEMENT, INDEX, PC_INDEX,
         ABS_WORD, ABS_LONG
<1> DEFINE o == IF mode = PREDECREMENT THEN -d ELSE 0
<1>5. a = (sp + o) % Long
  BY <1>3, <1>4 DEF EffectiveAddress
<1>6. sp % 2 = 0
  OBVIOUS
<1> HIDE DEF sp, d, a
<1>7. sp + o \in Int /\ (sp + o) % 2 = 0
  BY <1>1, <1>2, <1>6
<1>8. a % 2 = 0
  BY <1>5, <1>7, LongParity
<1>9. a \in Int
  BY <1>5, <1>7, ModRange, Positive
<1>10. (a + d) % 2 = 0
  BY <1>2, <1>8, <1>9
<1> QED
  BY <1>8, <1>10 DEF a, d

(* Predecrement and postincrement do not touch the counter, and move the   *)
(* stack pointer by the word they round a byte up to.                      *)
LEMMA PassesBump ==
  ASSUME NEW s \in Machine, NEW t, NEW n \in Int, NEW q, Passes(s, t, n, q),
         NEW mode, NEW r, NEW size, Operands(mode, r, size), NEW ext \in Int
  PROVE  Passes(s, Bump(t, mode, r, EffectiveAddress(s, mode, r, size, ext), size), n, q)
<1> DEFINE a == EffectiveAddress(s, mode, r, size, ext)
           d == IF mode = POSTINCREMENT THEN a + Stride(r, size) ELSE a
<1>1. r \in 0 .. 15 /\ size \in DataSize /\ SIZE_LONG \in DataSize
  BY DEF Operands, DataSize
<1>2. a \in Int /\ d \in Int
  <2>1. a \in Int /\ Stride(r, size) \in Int
    BY <1>1, AddressInt, StrideInt
  <2> HIDE DEF a
  <2> QED
    BY <2>1
<1>3. CASE mode \in {POSTINCREMENT, PREDECREMENT}
  <2>1. Bump(t, mode, r, a, size) = set(t, r, SIZE_LONG, d)
    BY <1>3 DEF Bump
  <2>2. r = REG_A7 => (ActiveSP(s) % 2 = 0 => d % 2 = 0)
    BY <1>1, <1>3, StackAddressEven
  <2> HIDE DEF d
  <2>3. Passes(s, set(t, r, SIZE_LONG, d), n, q)
    BY <1>1, <1>2, <2>2, PassesSetAfter
  <2> QED
    BY <2>1, <2>3
<1>4. CASE mode \notin {POSTINCREMENT, PREDECREMENT}
  BY <1>4 DEF Bump
<1> QED
  BY <1>3, <1>4

(* Reading an operand with getData moves the counter past its extension,   *)
(* with getDataSilent not at all.                                          *)
LEMMA PassesRead ==
  ASSUME NEW s \in Machine, NEW mode, NEW r, NEW size, Operands(mode, r, size), NEW q
  PROVE  /\ Passes(s, getData(s, mode, r, size).st, ExtensionSize(mode, size), q)
         /\ Passes(s, getDataSilent(s, mode, r, size).st, 0, q)
<1> DEFINE n == ExtensionSize(mode, size)
           e == Fetch(s, n)
           p == Peek(s, n)
           a == EffectiveAddress(s, mode, r, size, e.val)
           b == EffectiveAddress(s, mode, r, size, SignedAbs(mode, p.val))
<1>1. mode \in AddressingMode /\ r \in 0 .. 15 /\ size \in DataSize
  BY DEF Operands
<1>2. n \in {0} \cup DataSize
  BY <1>1, ExtensionRange DEF DataSize
<1>3. mode \in {DIRECT_DATA, DIRECT_ADDR, UNKNOWN} => n = 0
  BY DEF ExtensionSize, DIRECT_DATA, DIRECT_ADDR, UNKNOWN, DISPLACEMENT, INDEX,
         PC_DISPLACEMENT, PC_INDEX, ABS_WORD, ABS_LONG, IMMEDIATE
<1> HIDE DEF n
<1>4. Passes(s, e.st, n, q) /\ Passes(s, p.st, 0, q) /\ n \in Int
  BY <1>2, PassesFetch
<1>5. e.val \in Int /\ p.val \in Int
  BY <1>2, PeekReads, FetchReads DEF Reads
<1> HIDE DEF e, p
<1>6. a \in Int /\ b \in Int
  BY <1>1, <1>5, AddressInt, SignedAbsInt
<1>7. Passes(e.st, MemGet(e.st, a, size).st, 0, q) /\ Passes(p.st, MemGet(p.st, b, size).st, 0, q)
  BY <1>1, <1>4, <1>6, PassesGet DEF Passes
<1> DEFINE l == MemGet(e.st, a, size)
           k == MemGet(p.st, b, size)
<1> HIDE DEF l, k
<1>8. Passes(s, l.st, n, q) /\ Passes(s, k.st, 0, q)
  <2>1. n + 0 = n /\ 0 + 0 = 0
    BY <1>4
  <2>2. Passes(s, l.st, n + 0, q) /\ Passes(s, k.st, 0 + 0, q)
    BY <1>4, <1>7, PassesTrans DEF l, k
  <2> QED
    BY <2>1, <2>2
<1>9. Passes(s, Bump(l.st, mode, r, a, size), n, q)
  BY <1>4, <1>5, <1>8, PassesBump
<1>10. Passes(s, s, 0, q)
  BY PassesSame
<1>11. getData(s, mode, r, size) =
         Accessed(s, mode, r, size, e, Result(Bump(l.st, mode, r, a, size), l.val))
  BY DEF getData, getDataWith, Loaded, Bumped, e, n, l
<1>12. getDataSilent(s, mode, r, size) = Accessed(s, mode, r, size, p, k)
  BY DEF getDataSilent, getDataSilentWith, SignedAddress, p, n, k
<1> HIDE DEF a, b
<1>13. Passes(s, getData(s, mode, r, size).st, n, q)
  BY <1>3, <1>4, <1>9, <1>10, <1>11 DEF Accessed, Result
<1>14. Passes(s, getDataSilent(s, mode, r, size).st, 0, q)
  BY <1>3, <1>4, <1>8, <1>10, <1>12 DEF Accessed, Result
<1> QED
  BY <1>13, <1>14 DEF n

(* Writing an operand moves the counter past its extension, and leaves the *)
(* stack pointer even unless the operand is A7 itself.                     *)
LEMMA PassesStore ==
  ASSUME NEW s \in Machine, NEW mode, NEW r, NEW size, Operands(mode, r, size),
         IS_MEMORY_ALTERABLE(mode), NEW data \in Int, NEW q,
         q => ~(mode = DIRECT_ADDR /\ r = REG_A7)
  PROVE  Passes(s, setData(s, mode, r, size, data), ExtensionSize(mode, size), q)
<1> DEFINE n == ExtensionSize(mode, size)
           p == Peek(s, n)
           e == Fetch(s, n)
           a == EffectiveAddress(s, mode, r, size, SignedAbs(mode, p.val))
<1>1. mode \in AddressingMode /\ r \in 0 .. 15 /\ size \in DataSize
  BY DEF Operands
<1>2. n \in {0} \cup DataSize
  BY <1>1, ExtensionRange DEF DataSize
<1>3. mode \in {DIRECT_DATA, DIRECT_ADDR} => n = 0
  BY DEF ExtensionSize, DIRECT_DATA, DIRECT_ADDR, DISPLACEMENT, INDEX,
         PC_DISPLACEMENT, PC_INDEX, ABS_WORD, ABS_LONG, IMMEDIATE
<1> HIDE DEF n
<1>4. Passes(s, e.st, n, q) /\ Passes(s, p.st, 0, q) /\ n \in Int
  BY <1>2, PassesFetch
<1>5. p.val \in Int
  BY <1>2, PeekReads DEF Reads
<1>6. mode \notin {PC_DISPLACEMENT, PC_INDEX, IMMEDIATE, UNKNOWN}
  BY DEF IS_MEMORY_ALTERABLE
<1>7. CASE mode \in {DIRECT_DATA, DIRECT_ADDR}
  <2>1. setData(s, mode, r, size, data) = set(s, r, size, data)
    BY <1>7 DEF setData, setDataWith, StoreAt, PC_DISPLACEMENT, PC_INDEX, IMMEDIATE, UNKNOWN,
                DIRECT_DATA, DIRECT_ADDR, ABS_WORD
  <2>2. mode = DIRECT_DATA => r # REG_A7
    BY DEF Operands, EAFormed, DataReg, REG_A7
  <2>3. q => r # REG_A7
    BY <1>7, <2>2
  <2> QED
    BY <1>1, <1>3, <1>7, <2>1, <2>3, PassesSet DEF n
<1> HIDE DEF e, p
<1>8. a \in Int
  BY <1>1, <1>5, AddressInt, SignedAbsInt
<1>9. CASE mode = ABS_WORD
  <2>1. setData(s, mode, r, size, data) = SetPC(MemSet(p.st, a, size, data), PC(s) + n)
    BY <1>9 DEF setData, setDataWith, StoreAt, SignedAddress, a, p, n, PC_DISPLACEMENT,
                PC_INDEX, IMMEDIATE, UNKNOWN, DIRECT_DATA, DIRECT_ADDR, ABS_WORD
  <2>2. Passes(p.st, MemSet(p.st, a, size, data), 0, q)
    BY <1>1, <1>4, <1>8, PassesPut DEF Passes
  <2>3. Passes(s, MemSet(p.st, a, size, data), 0 + 0, q) /\ 0 + 0 = 0
    BY <1>4, <2>2, PassesTrans
  <2>4. Passes(s, MemSet(p.st, a, size, data), 0, q)
    BY <2>3
  <2> QED
    BY <1>4, <2>1, <2>4, PassesBy DEF n
<1>10. CASE mode \notin {DIRECT_DATA, DIRECT_ADDR, ABS_WORD}
  <2>1. setData(s, mode, r, size, data) = Bump(MemSet(e.st, a, size, data), mode, r, a, size)
    BY <1>6, <1>10 DEF setData, setDataWith, StoreAt, SignedAddress, Fetch, a, e, p, n
  <2>2. Passes(e.st, MemSet(e.st, a, size, data), 0, q)
    BY <1>1, <1>4, <1>8, PassesPut DEF Passes
  <2>3. Passes(s, MemSet(e.st, a, size, data), n + 0, q) /\ n + 0 = n
    BY <1>4, <2>2, PassesTrans
  <2>4. Passes(s, MemSet(e.st, a, size, data), n, q) /\ SignedAbs(mode, p.val) \in Int
    BY <1>5, <2>3, SignedAbsInt
  <2> QED
    BY <1>4, <2>1, <2>4, PassesBump DEF n
<1> QED
  BY <1>7, <1>9, <1>10

(* A push and a pop move the stack pointer by an even size.                *)
LEMMA PassesStack ==
  ASSUME NEW s \in Machine, NEW data \in Int, NEW q
  PROVE  /\ Passes(s, stackPush(s, SIZE_LONG, data), 0, q)
         /\ Passes(s, stackPop(s, SIZE_LONG).st, 0, q)
<1> DEFINE sp == get(s, REG_USP, SIZE_LONG)
           t == set(s, REG_USP, SIZE_LONG, sp - SIZE_LONG)
           g == MemGet(s, sp, SIZE_LONG)
<1>1. /\ REG_USP \in 0 .. 15 /\ REG_USP = REG_A7 /\ SIZE_LONG \in DataSize
      /\ SIZE_LONG = 4
  BY DEF REG_USP, REG_A7, DataSize, SIZE_LONG
<1>2. sp = ActiveSP(s) /\ sp \in Int
  BY Pointers
<1> HIDE DEF sp
<1>3. /\ sp - SIZE_LONG \in Int /\ sp + SIZE_LONG \in Int
      /\ sp % 2 = 0 => (sp - SIZE_LONG) % 2 = 0 /\ (sp + SIZE_LONG) % 2 = 0
  BY <1>1, <1>2
<1>4. Passes(s, t, 0, q)
  BY <1>1, <1>2, <1>3, PassesSet
<1>5. MASK(sp - SIZE_LONG, SIZE_LONG) \in Int
  BY <1>1, <1>3, MaskInt
<1> HIDE DEF t
<1>6. Passes(t, MemSet(t, MASK(sp - SIZE_LONG, SIZE_LONG), SIZE_LONG, data), 0, q)
  BY <1>1, <1>4, <1>5, PassesPut DEF Passes
<1>7. Passes(s, MemSet(t, MASK(sp - SIZE_LONG, SIZE_LONG), SIZE_LONG, data), 0 + 0, q)
  BY <1>4, <1>6, PassesTrans
<1>8. Passes(s, g.st, 0, q)
  BY <1>1, <1>2, PassesGet
<1> HIDE DEF g
<1> DEFINE up == sp + SIZE_LONG
           none == 0
<1>9. /\ Passes(s, g.st, none, q) /\ none \in Int /\ up \in Int
      /\ q => REG_USP # REG_A7 \/ (SIZE_LONG = SIZE_LONG /\ (ActiveSP(s) % 2 = 0 => up % 2 = 0))
  BY <1>2, <1>3, <1>8
<1> HIDE DEF up, none
<1>10. Passes(s, set(g.st, REG_USP, SIZE_LONG, up), none, q)
  BY <1>1, <1>9, PassesSetAfter
<1> QED
  BY <1>7, <1>10 DEF up, none, stackPush, stackPop, Result, t, g, sp

(* Resolving a control address moves the counter past the extension.       *)
LEMMA PassesControl ==
  ASSUME NEW s \in Machine, NEW mode \in AddressingMode, IS_CONTROL_ADDR(mode),
         NEW r \in 0 .. 15, NEW q
  PROVE  Passes(s, getControlAddress(s, mode, r).st, ExtensionSize(mode, SIZE_LONG), q)
<1> DEFINE n == ExtensionSize(mode, SIZE_LONG)
           t == SetPC(s, PC(s) + n)
<1>1. SIZE_LONG \in DataSize
  BY DEF DataSize
<1>2. n \in {0} \cup DataSize
  BY <1>1, ExtensionRange DEF DataSize
<1>3. CASE mode \in {ABS_WORD, ABS_LONG}
  <2>1. getControlAddress(s, mode, r) = MemGet(t, PC(s), n)
    BY <1>3 DEF getControlAddress, ABS_WORD, ABS_LONG, INDIRECT, DISPLACEMENT, INDEX,
                PC_DISPLACEMENT, PC_INDEX
  <2>2. n \in DataSize
    BY <1>3 DEF ExtensionSize, ABS_WORD, ABS_LONG, DISPLACEMENT, INDEX, PC_DISPLACEMENT,
                PC_INDEX, DataSize
  <2> HIDE DEF n
  <2>3. n \in Int /\ PC(s) \in Int /\ n + 0 = n
    BY <2>2, Pointers DEF DataSize, SIZE_BYTE, SIZE_WORD, SIZE_LONG
  <2>4. Passes(s, t, n, q)
    BY <2>3, PassesSame, PassesBy
  <2> HIDE DEF t
  <2>5. Passes(t, MemGet(t, PC(s), n).st, 0, q)
    BY <2>2, <2>3, <2>4, PassesGet DEF Passes
  <2>6. Passes(s, MemGet(t, PC(s), n).st, n + 0, q)
    BY <2>3, <2>4, <2>5, PassesTrans
  <2> QED
    BY <2>1, <2>3, <2>6 DEF n, t
<1>4. CASE mode \notin {ABS_WORD, ABS_LONG}
  <2>1. mode \in {INDIRECT, DISPLACEMENT, INDEX, PC_DISPLACEMENT, PC_INDEX}
    BY <1>4 DEF IS_CONTROL_ADDR, AddressingMode
  <2>2. getControlAddress(s, mode, r).st = Fetch(s, n).st
    BY <1>4, <2>1 DEF getControlAddress, Resolved, Result, INDIRECT, DISPLACEMENT, INDEX,
                      PC_DISPLACEMENT, PC_INDEX
  <2> HIDE DEF n
  <2> QED
    BY <1>2, <2>2, PassesFetch DEF n
<1> QED
  BY <1>3, <1>4
-----------------------------------------------------------------------------
(* The write to the destination may move the stack pointer anywhere only   *)
(* if A7 is the destination.                                               *)
Free(i) == i.dest_mode = DIRECT_ADDR /\ i.dest_reg = REG_A7

(* The bytes of the operands' extensions.                                  *)
SourceBytes(i) == ExtensionSize(i.src_mode, i.data_size)
DestBytes(i) == ExtensionSize(i.dest_mode, i.data_size)
ImmediateBytes(i) == ExtensionSize(IMMEDIATE, i.data_size)

(* They are numbers.                                                       *)
LEMMA BytesInt ==
  ASSUME NEW i \in Instruction
  PROVE  SourceBytes(i) \in Int /\ DestBytes(i) \in Int /\ ImmediateBytes(i) \in Int
<1>1. /\ i.src_mode \in AddressingMode /\ i.dest_mode \in AddressingMode
      /\ IMMEDIATE \in AddressingMode /\ i.data_size \in DataSize
  BY Members DEF Operands, AddressingMode
<1> QED
  BY <1>1, ExtensionRange DEF SourceBytes, DestBytes, ImmediateBytes, SIZE_WORD, SIZE_LONG

(* The opening of every execute() passes the opcode word.                  *)
LEMMA PassesBegin ==
  ASSUME NEW s \in Machine, NEW q
  PROVE  Passes(s, Begin(s), SIZE_WORD, q)
<1>1. Passes(s, s, 0, q) /\ SIZE_WORD \in Int
  BY PassesSame DEF SIZE_WORD
<1> QED
  BY <1>1, PassesBy DEF Begin

(* Reading the source or the immediate passes its extension too.           *)
LEMMA PassesSource ==
  ASSUME NEW s \in Machine, NEW i \in Instruction, NEW q
  PROVE  /\ Passes(s, Source(s, i).st, SIZE_WORD + SourceBytes(i), q)
         /\ Passes(s, Immediate(s, i).st, SIZE_WORD + ImmediateBytes(i), q)
<1> DEFINE b == Begin(s)
<1>1. Passes(s, b, SIZE_WORD, q) /\ SIZE_WORD \in Int
  BY PassesBegin DEF SIZE_WORD
<1>2. b \in Machine
  BY <1>1 DEF Passes
<1> HIDE DEF b
<1>3. Operands(IMMEDIATE, REG_D0, i.data_size) /\ Operands(i.src_mode, i.src_reg, i.data_size)
  BY Members DEF Operands, EAFormed, AddressingMode, REG_D0, DIRECT_DATA, DIRECT_ADDR,
     INDIRECT, POSTINCREMENT, PREDECREMENT, DISPLACEMENT, INDEX, IMMEDIATE
<1>4. Passes(b, getData(b, i.src_mode, i.src_reg, i.data_size).st, SourceBytes(i), q)
  BY <1>2, <1>3, PassesRead DEF SourceBytes
<1>5. Passes(b, getData(b, IMMEDIATE, REG_D0, i.data_size).st, ImmediateBytes(i), q)
  BY <1>2, <1>3, PassesRead DEF ImmediateBytes
<1> QED
  BY <1>1, <1>4, <1>5, BytesInt, PassesTrans DEF Source, Immediate, b

(* Reading the destination silently passes nothing.                        *)
LEMMA PassesDest ==
  ASSUME NEW s \in Machine, NEW t, NEW n \in Int, NEW q, Passes(s, t, n, q),
         NEW i \in Instruction
  PROVE  Passes(s, Dest(t, i).st, n, q)
<1>1. t \in Machine
  BY DEF Passes
<1>2. Passes(t, Dest(t, i).st, 0, q)
  BY <1>1, Members, PassesRead DEF Dest
<1>3. Passes(s, Dest(t, i).st, n + 0, q) /\ n + 0 = n
  BY <1>2, PassesTrans
<1> QED
  BY <1>3

(* Storing the result passes its extension.                                *)
LEMMA PassesWrite ==
  ASSUME NEW s \in Machine, NEW t, NEW n \in Int, NEW q, Passes(s, t, n, q),
         NEW i \in Instruction, IS_MEMORY_ALTERABLE(i.dest_mode), q => ~Free(i), NEW v \in Int
  PROVE  Passes(s, Store(t, i, v), n + DestBytes(i), q)
<1>1. t \in Machine /\ Operands(i.dest_mode, i.dest_reg, i.data_size)
  BY Members DEF Passes
<1>2. q => ~(i.dest_mode = DIRECT_ADDR /\ i.dest_reg = REG_A7)
  BY DEF Free
<1>3. Passes(t, Store(t, i, v), DestBytes(i), q)
  BY <1>1, <1>2, PassesStore DEF Store, DestBytes
<1> QED
  BY <1>3, BytesInt, PassesTrans

(* Setting the flags passes nothing.                                       *)
LEMMA PassesAndFlags ==
  ASSUME NEW s \in Machine, NEW t, NEW n \in Int, NEW q, Passes(s, t, n, q), NEW ccr \in CCR
  PROVE  Passes(s, SetFlags(t, ccr), n, q)
<1>1. t \in Machine
  BY DEF Passes
<1>2. Passes(t, SetFlags(t, ccr), 0, q)
  BY <1>1, PassesFlags
<1>3. Passes(s, SetFlags(t, ccr), n + 0, q) /\ n + 0 = n
  BY <1>2, PassesTrans
<1> QED
  BY <1>3

(* Describing a result.                                                    *)
LEMMA PassesDescribe ==
  ASSUME NEW s \in Machine, NEW t, NEW n \in Int, NEW q, Passes(s, t, n, q), NEW i, NEW r
  PROVE  Passes(s, Describe(t, i, r), n, q)
<1>1. LogicFlags(t, r, i.data_size) \in CCR
  BY FlagsInCCR DEF Passes
<1> QED
  BY <1>1, PassesAndFlags DEF Describe
-----------------------------------------------------------------------------
(* Both operands are read: numbers, and the counter is n bytes further.    *)
Gathers(s, o, n, q) == Passes(s, o.st, n, q) /\ o.src \in Int /\ o.val \in Int

(* The three places a source comes from.                                   *)
LEMMA PassesOperands ==
  ASSUME NEW s \in Machine, NEW i \in Instruction, NEW q
  PROVE  /\ Gathers(s, FromSource(s, i), SIZE_WORD + SourceBytes(i), q)
         /\ Gathers(s, FromImmediate(s, i), SIZE_WORD + ImmediateBytes(i), q)
         /\ Gathers(s, FromOpcode(s, i), SIZE_WORD, q)
         /\ Gathers(s, ReadBoth(Result(Begin(s), 0), i), SIZE_WORD, q)
<1>1. ASSUME NEW a, NEW n \in Int, Passes(s, a.st, n, q), ReadQuietly(s, ReadBoth(a, i))
      PROVE  Gathers(s, ReadBoth(a, i), n, q)
  <2>1. Passes(s, Dest(a.st, i).st, n, q)
    BY <1>1, PassesDest
  <2>2. ReadBoth(a, i).st = Dest(a.st, i).st
    BY DEF ReadBoth, Pair
  <2> QED
    BY <1>1, <2>1, <2>2 DEF Gathers, ReadQuietly
<1>2. /\ SIZE_WORD \in Int /\ SIZE_WORD + SourceBytes(i) \in Int
      /\ SIZE_WORD + ImmediateBytes(i) \in Int
  BY BytesInt DEF SIZE_WORD
<1>3. \A v : Passes(s, Result(Begin(s), v).st, SIZE_WORD, q)
  BY PassesBegin DEF Result
<1> QED
  BY <1>1, <1>2, <1>3, PassesSource, OperandsRead DEF FromSource, FromImmediate, FromOpcode

(* An arithmetic or logical result stored, with its flags.                 *)
LEMMA PassesArith ==
  ASSUME NEW s \in Machine, NEW o, NEW n \in Int, NEW q, Passes(s, o.st, n, q),
         NEW i \in Instruction, IS_MEMORY_ALTERABLE(i.dest_mode), q => ~Free(i), NEW r \in Int
  PROVE  /\ Passes(s, Arith(o, i, r), n + DestBytes(i), q)
         /\ Passes(s, ExtendedArith(s, o, i, r), n + DestBytes(i), q)
         /\ Passes(s, Logic(o, i, r), n + DestBytes(i), q)
<1> DEFINE m == n + DestBytes(i)
<1>1. m \in Int
  BY BytesInt
<1>2. Passes(s, Store(o.st, i, r), m, q)
  BY PassesWrite
<1> HIDE DEF m
<1>3. /\ ArithFlags(o.src, o.val, r, i.data_size) \in CCR
      /\ ExtendedFlags(s, o.src, o.val, r, i.data_size) \in CCR
  BY FlagsInCCR
<1>4. Passes(s, Arith(o, i, r), m, q) /\ Passes(s, ExtendedArith(s, o, i, r), m, q)
  BY <1>1, <1>2, <1>3, PassesAndFlags DEF Arith, ExtendedArith
<1>5. Passes(s, Logic(o, i, r), m, q)
  BY <1>1, <1>2, PassesDescribe DEF Logic
<1> QED
  BY <1>4, <1>5 DEF m

(* What an instruction does with two numbers it has read.                  *)
LEMMA PassesSums ==
  ASSUME NEW s \in Machine, NEW o, NEW n \in Int, NEW q, Gathers(s, o, n, q),
         NEW i \in Instruction, IS_MEMORY_ALTERABLE(i.dest_mode), q => ~Free(i)
  PROVE  /\ Passes(s, AddTo(o, i), n + DestBytes(i), q)
         /\ Passes(s, SubtractFrom(o, i), n + DestBytes(i), q)
         /\ Passes(s, AddToAddress(o, i), n + DestBytes(i), q)
         /\ Passes(s, SubtractFromAddress(o, i), n + DestBytes(i), q)
         /\ Passes(s, Negate(o, i), n + DestBytes(i), q)
         /\ Passes(s, AddExtended(s, o, i), n + DestBytes(i), q)
         /\ Passes(s, SubtractExtended(s, o, i), n + DestBytes(i), q)
         /\ \A op \in {"and", "or", "eor"} : Passes(s, Combine(op, o, i), n + DestBytes(i), q)
<1>1. o.src \in Int /\ o.val \in Int /\ Passes(s, o.st, n, q)
  BY DEF Gathers
<1>2. /\ Sum(o) \in Int /\ Difference(o) \in Int /\ (o.src - o.val) % Long \in Int
      /\ (o.src + o.val + Extend(s)) % Long \in Int
      /\ (o.val - o.src - Extend(s)) % Long \in Int
  BY <1>1, LongInt, ExtendInt DEF Sum, Difference
<1>3. \A op \in {"and", "or", "eor"} : Bitwise(op, o.src, o.val) \in Int
  BY <1>1, BitwiseInt
<1> QED
  BY <1>1, <1>2, <1>3, PassesArith, PassesWrite
     DEF AddTo, SubtractFrom, AddToAddress, SubtractFromAddress, Negate, AddExtended,
         SubtractExtended, Combine

(* The instructions that read a source, then read and write a destination. *)
LEMMA PassesTwoOperands ==
  ASSUME NEW s \in Machine, NEW i \in Instruction, i.class \in ReadModifyWrite, NEW q,
         q => ~Free(i)
  PROVE  /\ Passes(s, AddExecute(s, i), SIZE_WORD + SourceBytes(i) + DestBytes(i), q)
         /\ Passes(s, SubExecute(s, i), SIZE_WORD + SourceBytes(i) + DestBytes(i), q)
         /\ Passes(s, AddaExecute(s, i), SIZE_WORD + SourceBytes(i) + DestBytes(i), q)
         /\ Passes(s, SubaExecute(s, i), SIZE_WORD + SourceBytes(i) + DestBytes(i), q)
         /\ Passes(s, AddxExecute(s, i), SIZE_WORD + SourceBytes(i) + DestBytes(i), q)
         /\ Passes(s, SubxExecute(s, i), SIZE_WORD + SourceBytes(i) + DestBytes(i), q)
         /\ Passes(s, AndExecute(s, i), SIZE_WORD + SourceBytes(i) + DestBytes(i), q)
         /\ Passes(s, OrExecute(s, i), SIZE_WORD + SourceBytes(i) + DestBytes(i), q)
         /\ Passes(s, EorExecute(s, i), SIZE_WORD + SourceBytes(i) + DestBytes(i), q)
<1> DEFINE n == SIZE_WORD + SourceBytes(i)
           o == FromSource(s, i)
<1>1. n \in Int /\ Gathers(s, o, n, q)
  BY BytesInt, PassesOperands DEF SIZE_WORD
<1>2. IS_MEMORY_ALTERABLE(i.dest_mode)
  BY DEF Instruction, InstructionsWith, WellFormed
<1> HIDE DEF n, o
<1> QED
  BY <1>1, <1>2, PassesSums
     DEF n, o, AddExecute, SubExecute, AddaExecute, SubaExecute, AddxExecute, SubxExecute,
         AndExecute, OrExecute, EorExecute

(* Their immediate forms.                                                  *)
LEMMA PassesImmediates ==
  ASSUME NEW s \in Machine, NEW i \in Instruction, i.class \in ReadModifyWrite, NEW q,
         q => ~Free(i)
  PROVE  /\ Passes(s, AddiExecute(s, i), SIZE_WORD + ImmediateBytes(i) + DestBytes(i), q)
         /\ Passes(s, SubiExecute(s, i), SIZE_WORD + ImmediateBytes(i) + DestBytes(i), q)
         /\ Passes(s, AndiExecute(s, i), SIZE_WORD + ImmediateBytes(i) + DestBytes(i), q)
         /\ Passes(s, OriExecute(s, i), SIZE_WORD + ImmediateBytes(i) + DestBytes(i), q)
         /\ Passes(s, EoriExecute(s, i), SIZE_WORD + ImmediateBytes(i) + DestBytes(i), q)
<1> DEFINE n == SIZE_WORD + ImmediateBytes(i)
           o == FromImmediate(s, i)
<1>1. n \in Int /\ Gathers(s, o, n, q)
  BY BytesInt, PassesOperands DEF SIZE_WORD
<1>2. IS_MEMORY_ALTERABLE(i.dest_mode)
  BY DEF Instruction, InstructionsWith, WellFormed
<1> HIDE DEF n, o
<1> QED
  BY <1>1, <1>2, PassesSums
     DEF n, o, AddiExecute, SubiExecute, AndiExecute, OriExecute, EoriExecute

(* The ones with a single operand.                                         *)
LEMMA PassesQuick ==
  ASSUME NEW s \in Machine, NEW i \in Instruction, i.class \in ReadModifyWrite, NEW q,
         q => ~Free(i)
  PROVE  /\ Passes(s, AddqExecute(s, i), SIZE_WORD + DestBytes(i), q)
         /\ Passes(s, SubqExecute(s, i), SIZE_WORD + DestBytes(i), q)
         /\ Passes(s, NegExecute(s, i), SIZE_WORD + DestBytes(i), q)
<1> DEFINE o == FromOpcode(s, i)
           z == ReadBoth(Result(Begin(s), 0), i)
<1>1. SIZE_WORD \in Int /\ Gathers(s, o, SIZE_WORD, q) /\ Gathers(s, z, SIZE_WORD, q)
  BY PassesOperands DEF SIZE_WORD
<1>2. IS_MEMORY_ALTERABLE(i.dest_mode)
  BY DEF Instruction, InstructionsWith, WellFormed
<1> HIDE DEF o, z
<1> QED
  BY <1>1, <1>2, PassesSums DEF o, z, AddqExecute, SubqExecute, NegExecute
-----------------------------------------------------------------------------
(* btst, bchg, bclr and bset.                                              *)
LEMMA PassesBitManip ==
  ASSUME NEW s \in Machine, NEW i \in Instruction, i.class \in ReadModifyWrite, NEW q,
         q => ~Free(i)
  PROVE  Passes(s, BitManipExecute(s, i), SIZE_WORD + SourceBytes(i) + DestBytes(i), q)
<1> DEFINE n == SIZE_WORD + SourceBytes(i)
           m == n + DestBytes(i)
           o == FromSource(s, i)
           w == i.data_size * Bits
           p == Pow2[o.src % w]
           bit == (o.val \div p) % 2
           r == CASE i.kind = 1 -> IF bit = 1 THEN o.val - p ELSE o.val + p
                  [] i.kind = 2 -> o.val - bit * p
                  [] i.kind = 3 -> o.val + (1 - bit) * p
                  [] OTHER      -> o.val
           f == [o.st.ccr EXCEPT !.Z = (bit = 0)]
<1>1. /\ n \in Int /\ m \in Int /\ Passes(s, o.st, n, q)
      /\ o.src \in Int /\ o.val \in Int /\ o.st \in Machine
  BY BytesInt, PassesOperands DEF Gathers, Passes, SIZE_WORD
<1> HIDE DEF o, n
<1>2. w \in Nat \ {0}
  BY Members, WidthFacts
<1>3. o.src % w \in 0 .. w - 1
  BY <1>1, <1>2, ModRange
<1>4. p \in Nat \ {0}
  BY <1>3, Members, WidthFacts
<1> HIDE DEF p
<1>5. bit \in Int
  <2>1. o.val \div p \in Int
    BY <1>1, <1>4
  <2> QED
    BY <2>1
<1> HIDE DEF bit
<1>6. bit * p \in Int /\ (1 - bit) * p \in Int
  BY <1>4, <1>5
<1>7. o.val - p \in Int /\ o.val + p \in Int /\ o.val - bit * p \in Int
      /\ o.val + (1 - bit) * p \in Int
  BY <1>1, <1>4, <1>6
<1>8. r \in Int
  BY <1>1, <1>7
<1> HIDE DEF r
<1>9. IS_MEMORY_ALTERABLE(i.dest_mode) /\ r % Long \in Int
  BY <1>8, LongInt DEF Instruction, InstructionsWith, WellFormed
<1>10. Passes(s, Store(o.st, i, r % Long), m, q)
  BY <1>1, <1>9, PassesWrite
<1> HIDE DEF m
<1>11. f \in CCR
  BY <1>1 DEF Machine, CCR
<1>12. Passes(s, SetFlags(Store(o.st, i, r % Long), f), m, q)
  BY <1>1, <1>10, <1>11, PassesAndFlags
<1> QED
  BY <1>12 DEF BitManipExecute, ChangeBit, o, p, bit, r, m, n

(* A comparison reads its destination with getData.                        *)
LEMMA PassesCompare ==
  ASSUME NEW s \in Machine, NEW a, NEW n \in Int, NEW q, Passes(s, a.st, n, q),
         NEW i \in Instruction
  PROVE  Passes(s, Compare(a, i), n + DestBytes(i), q)
<1> DEFINE d == getData(a.st, i.dest_mode, i.dest_reg, i.data_size)
           o == Pair(a, d)
           m == n + DestBytes(i)
           f == CompareFlags(o.st, o.src, o.val, Difference(o), i.data_size)
<1>1. a.st \in Machine
  BY DEF Passes
<1>2. Passes(a.st, d.st, DestBytes(i), q)
  BY <1>1, Members, PassesRead DEF DestBytes
<1> HIDE DEF d
<1>3. Passes(s, d.st, m, q) /\ m \in Int
  BY <1>2, BytesInt, PassesTrans
<1> HIDE DEF m
<1>4. Passes(s, o.st, m, q)
  BY <1>3 DEF Pair
<1> HIDE DEF o
<1>5. f \in CCR
  BY <1>4, FlagsInCCR DEF Passes
<1> HIDE DEF f
<1>6. Passes(s, SetFlags(o.st, f), m, q)
  BY <1>3, <1>4, <1>5, PassesAndFlags
<1> QED
  BY <1>6 DEF Compare, Compared, f, o, d, m

(* The four instructions made of it.                                       *)
LEMMA PassesComparisons ==
  ASSUME NEW s \in Machine, NEW i \in Instruction, NEW q
  PROVE  /\ Passes(s, CmpExecute(s, i), SIZE_WORD + SourceBytes(i) + DestBytes(i), q)
         /\ Passes(s, CmpaExecute(s, i), SIZE_WORD + SourceBytes(i) + DestBytes(i), q)
         /\ Passes(s, CmpiExecute(s, i), SIZE_WORD + ImmediateBytes(i) + DestBytes(i), q)
         /\ Passes(s, TstExecute(s, i), SIZE_WORD + SourceBytes(i), q)
<1> DEFINE n == SIZE_WORD + SourceBytes(i)
           m == SIZE_WORD + ImmediateBytes(i)
           a == Source(s, i)
           w == Widened(a, i.data_size)
<1>1. /\ n \in Int /\ m \in Int /\ Passes(s, a.st, n, q)
      /\ Passes(s, Immediate(s, i).st, m, q)
  BY BytesInt, PassesSource DEF SIZE_WORD
<1>2. w.st = a.st
  BY DEF Widened, Result
<1> HIDE DEF n, m, a, w
<1>3. /\ Passes(s, Compare(a, i), n + DestBytes(i), q)
      /\ Passes(s, Compare(w, i), n + DestBytes(i), q)
      /\ Passes(s, Compare(Immediate(s, i), i), m + DestBytes(i), q)
  BY <1>1, <1>2, PassesCompare
<1>4. Passes(s, Test(a, i), n, q)
  BY <1>1, PassesDescribe DEF Test
<1> QED
  BY <1>3, <1>4 DEF n, m, a, w, CmpExecute, CmpiExecute, CmpaExecute, TstExecute
-----------------------------------------------------------------------------
(* A long written to a destination in a register.                          *)
LEMMA PassesStoreLong ==
  ASSUME NEW s \in Machine, NEW t, NEW n \in Int, NEW q, Passes(s, t, n, q),
         NEW i \in Instruction, i.dest_mode \in {DIRECT_DATA, DIRECT_ADDR}, q => ~Free(i),
         NEW v \in Int
  PROVE  Passes(s, StoreLong(t, i, v), n + DestBytes(i), q) /\ DestBytes(i) = 0
<1>1. t \in Machine /\ Operands(i.dest_mode, i.dest_reg, SIZE_LONG)
  BY Members DEF Passes, Operands, DataSize
<1>2. ExtensionSize(i.dest_mode, SIZE_LONG) = 0 /\ DestBytes(i) = 0
  BY DEF DestBytes, ExtensionSize, DIRECT_DATA, DIRECT_ADDR, DISPLACEMENT, INDEX,
         PC_DISPLACEMENT, PC_INDEX, ABS_WORD, ABS_LONG, IMMEDIATE
<1>3. IS_MEMORY_ALTERABLE(i.dest_mode) /\ (q => ~(i.dest_mode = DIRECT_ADDR /\ i.dest_reg = REG_A7))
  BY DEF Free, IS_MEMORY_ALTERABLE, DIRECT_DATA, DIRECT_ADDR, UNKNOWN, PC_DISPLACEMENT, PC_INDEX,
         IMMEDIATE
<1>4. Passes(t, StoreLong(t, i, v), DestBytes(i), q)
  BY <1>1, <1>2, <1>3, PassesStore DEF StoreLong
<1> QED
  BY <1>2, <1>4, BytesInt, PassesTrans

(* clr and moveq.                                                          *)
LEMMA PassesClrMoveq ==
  ASSUME NEW s \in Machine, NEW i \in Instruction, IS_MEMORY_ALTERABLE(i.dest_mode), NEW q,
         q => ~Free(i)
  PROVE  /\ Passes(s, ClrExecute(s, i), SIZE_WORD + DestBytes(i), q)
         /\ Passes(s, MoveqExecute(s, i), SIZE_WORD + DestBytes(i), q)
<1> DEFINE m == SIZE_WORD + DestBytes(i)
           b == Begin(s)
<1>1. m \in Int /\ SIZE_WORD \in Int /\ Passes(s, b, SIZE_WORD, q) /\ i.imm \in Int /\ 0 \in Int
  BY BytesInt, PassesBegin, Members DEF SIZE_WORD
<1> HIDE DEF b
<1>2. Passes(s, Store(b, i, i.imm), m, q) /\ Passes(s, Store(b, i, 0), m, q)
  BY <1>1, PassesWrite
<1> HIDE DEF m
<1>3. Passes(s, Describe(Store(b, i, i.imm), i, i.imm), m, q)
      /\ Passes(s, Describe(Store(b, i, 0), i, 0), m, q)
  BY <1>1, <1>2, PassesDescribe
<1> QED
  BY <1>3 DEF ClrExecute, MoveqExecute, m, b

(* move and movea.                                                         *)
LEMMA PassesMove ==
  ASSUME NEW s \in Machine, NEW i \in Instruction, IS_MEMORY_ALTERABLE(i.dest_mode), NEW q,
         q => ~Free(i)
  PROVE  Passes(s, MoveExecute(s, i), SIZE_WORD + SourceBytes(i) + DestBytes(i), q)
<1> DEFINE n == SIZE_WORD + SourceBytes(i)
           m == n + DestBytes(i)
           a == Source(s, i)
           v == Widened(a, i.data_size).val
<1>1. n \in Int /\ m \in Int /\ Passes(s, a.st, n, q) /\ a.val \in Int /\ v \in Int
  BY BytesInt, PassesSource, SourceReads, WidenedReads DEF Reads, SIZE_WORD
<1> HIDE DEF n, a, v
<1>2. i.dest_mode = DIRECT_ADDR => Passes(s, StoreLong(a.st, i, v), m, q)
  BY <1>1, PassesStoreLong
<1>3. Passes(s, Store(a.st, i, a.val), m, q)
  BY <1>1, PassesWrite
<1> HIDE DEF m
<1>4. Passes(s, Describe(Store(a.st, i, a.val), i, a.val), m, q)
  BY <1>1, <1>3, PassesDescribe
<1>5. MoveExecute(s, i) = IF i.dest_mode = DIRECT_ADDR THEN StoreLong(a.st, i, v)
                          ELSE Describe(Store(a.st, i, a.val), i, a.val)
  BY DEF MoveExecute, MoveTo, a, v
<1>6. Passes(s, MoveExecute(s, i), m, q)
  BY <1>2, <1>4, <1>5
<1> QED
  BY <1>6 DEF m, n

(* ext.                                                                    *)
LEMMA PassesExt ==
  ASSUME NEW s \in Machine, NEW i \in Instruction, i.class = "Ext", NEW q
  PROVE  Passes(s, ExtExecute(s, i), SIZE_WORD + DestBytes(i), q)
<1> DEFINE z == IF i.data_size = SIZE_WORD THEN SIZE_BYTE ELSE SIZE_WORD
           g == Begin(s)
           b == getData(g, i.dest_mode, i.dest_reg, z)
           r == MASK(SignExtend(b.val, SIZE_BYTE), i.data_size)
<1>1. /\ i.dest_mode = DIRECT_DATA /\ ~Free(i) /\ IS_MEMORY_ALTERABLE(i.dest_mode)
      /\ Operands(i.dest_mode, i.dest_reg, z) /\ z \in DataSize
  BY Members DEF Instruction, InstructionsWith, WellFormed, Free, DIRECT_DATA, DIRECT_ADDR,
     IS_MEMORY_ALTERABLE, Operands, DataSize, UNKNOWN, PC_DISPLACEMENT, PC_INDEX, IMMEDIATE
<1>2. ExtensionSize(i.dest_mode, z) = 0 /\ DestBytes(i) = 0
  BY <1>1 DEF DestBytes, ExtensionSize, DIRECT_DATA, DISPLACEMENT, INDEX,
         PC_DISPLACEMENT, PC_INDEX, ABS_WORD, ABS_LONG, IMMEDIATE
<1>3. Passes(s, g, SIZE_WORD, q) /\ SIZE_WORD \in Int /\ g \in Machine
  BY PassesBegin DEF SIZE_WORD, Passes
<1> HIDE DEF g, z
<1>4. Passes(g, b.st, 0, q) /\ b.val \in Int
  BY <1>1, <1>2, <1>3, PassesRead, GetDataReads DEF Reads
<1> HIDE DEF b
<1>5. Passes(s, b.st, SIZE_WORD + 0, q) /\ SIZE_WORD + 0 = SIZE_WORD
  BY <1>3, <1>4, PassesTrans
<1>6. SignExtend(b.val, SIZE_BYTE) \in Int
  BY <1>4, MaskInt DEF DataSize
<1>7. r \in Int
  BY <1>6, Members, MaskInt
<1> HIDE DEF r
<1>8. Passes(s, Logic(b, i, r), SIZE_WORD + DestBytes(i), q)
  BY <1>1, <1>3, <1>5, <1>7, PassesArith
<1> QED
  BY <1>8 DEF ExtExecute, ExtendByte, b, r, g, z

(* mulu and muls.                                                          *)
LEMMA PassesMul ==
  ASSUME NEW s \in Machine, NEW i \in Instruction, i.dest_mode = DIRECT_DATA,
         NEW u \in Undefined, NEW q
  PROVE  Passes(s, MulExecute(s, i, u), SIZE_WORD + SourceBytes(i) + DestBytes(i), q)
<1> DEFINE k == SIZE_WORD + SourceBytes(i)
           m == k + DestBytes(i)
           o == FromSource(s, i)
           x == IF i.kind = 1 THEN Signed(o.src, SIZE_WORD) * Signed(o.val, SIZE_WORD)
                ELSE o.src * o.val
           r == x % Long
           f == LogicFlags(o.st, r, SIZE_LONG)
           g == [f EXCEPT !.N = IF i.kind = 1 THEN f.N ELSE f.N /\ u.N]
<1>1. /\ k \in Int /\ m \in Int /\ Passes(s, o.st, k, q) /\ o.st \in Machine
      /\ o.src \in Int /\ o.val \in Int
  BY BytesInt, PassesOperands DEF Gathers, Passes, SIZE_WORD
<1> HIDE DEF o, k
<1>2. Signed(o.src, SIZE_WORD) \in Int /\ Signed(o.val, SIZE_WORD) \in Int
  BY <1>1, MaskInt DEF DataSize
<1>3. x \in Int
  BY <1>1, <1>2
<1> HIDE DEF x
<1>4. r \in Int /\ ~Free(i)
  BY <1>3, LongInt DEF Free, DIRECT_DATA, DIRECT_ADDR
<1> HIDE DEF r
<1>5. f \in CCR
  BY <1>1, FlagsInCCR
<1> HIDE DEF f
<1>6. g \in CCR
  <2>1. f.N \in BOOLEAN /\ u.N \in BOOLEAN
    BY <1>5 DEF CCR, Undefined
  <2>2. (f.N /\ u.N) \in BOOLEAN
    BY <2>1
  <2> QED
    BY <1>5, <2>1, <2>2 DEF CCR
<1> HIDE DEF g
<1>7. Passes(s, StoreLong(o.st, i, r), m, q)
  BY <1>1, <1>4, PassesStoreLong
<1> HIDE DEF m
<1>8. Passes(s, SetFlags(StoreLong(o.st, i, r), g), m, q)
  BY <1>1, <1>6, <1>7, PassesAndFlags
<1> QED
  BY <1>8 DEF MulExecute, Multiply, o, x, r, f, g, m, k

(* divu and divs.                                                          *)
LEMMA PassesDiv ==
  ASSUME NEW s \in Machine, NEW i \in Instruction, i.dest_mode = DIRECT_DATA,
         NEW u \in Undefined, NEW q
  PROVE  Passes(s, DivExecute(s, i, u), SIZE_WORD + SourceBytes(i) + DestBytes(i), q)
<1> DEFINE k == SIZE_WORD + SourceBytes(i)
           l == k + DestBytes(i)
           o == FromSource(s, i)
           n == IF i.kind = 1 THEN Signed(o.val, SIZE_WORD) ELSE o.val
           m == IF i.kind = 1 THEN Signed(o.src, SIZE_WORD) ELSE o.src
           d == IF m = 0 THEN 0 ELSE Quotient(n, m)
           x == n - d * m
           r == MASK(x, SIZE_WORD) * Word + MASK(d, SIZE_WORD)
           t == StoreLong(o.st, i, r)
           f == LogicFlags(o.st, d, SIZE_WORD)
<1>1. /\ k \in Int /\ l \in Int /\ Passes(s, o.st, k, q) /\ o.st \in Machine
      /\ o.src \in Int /\ o.val \in Int
  BY BytesInt, PassesOperands DEF Gathers, Passes, SIZE_WORD
<1> HIDE DEF o, k
<1>2. n \in Int /\ m \in Int
  BY <1>1, MaskInt DEF DataSize
<1> HIDE DEF n, m
<1>3. d \in Int
  BY <1>2, QuotientInt
<1> HIDE DEF d
<1>4. x \in Int
  BY <1>2, <1>3
<1> HIDE DEF x
<1>5. MASK(x, SIZE_WORD) \in Int /\ MASK(d, SIZE_WORD) \in Int
  BY <1>3, <1>4, MaskInt DEF DataSize
<1>6. r \in Int
  <2>1. \A y, z, b \in Int : y * b + z \in Int
    OBVIOUS
  <2> QED
    BY <1>5, <2>1, Positive
<1> HIDE DEF r
<1>7. Passes(s, t, l, q) /\ DestBytes(i) = 0
  <2>1. ~Free(i)
    BY DEF Free, DIRECT_DATA, DIRECT_ADDR
  <2> QED
    BY <1>1, <1>6, <2>1, PassesStoreLong
<1> HIDE DEF t
<1>8. f \in CCR
  BY <1>1, FlagsInCCR
<1> HIDE DEF f
<1>9. Passes(o.st, Throw(o.st, "fatal"), 0, q)
  BY <1>1, PassesThrow DEF Exceptions
<1>10. Passes(s, Throw(o.st, "fatal"), k + 0, q) /\ k + 0 = l
  BY <1>1, <1>7, <1>9, PassesTrans
<1> HIDE DEF l
<1>11. Passes(s, SetFlags(t, f), l, q)
  BY <1>1, <1>7, <1>8, PassesAndFlags
<1>12. DivExecute(s, i, u) = IF m = 0 /\ u.C THEN Throw(o.st, "fatal") ELSE SetFlags(t, f)
  BY DEF DivExecute, Divide, o, n, m, d, x, r, t, f
<1>13. Passes(s, DivExecute(s, i, u), l, q)
  BY <1>10, <1>11, <1>12
<1> QED
  BY <1>13 DEF l, k

(* nop and illegal.                                                        *)
LEMMA PassesNop ==
  ASSUME NEW s \in Machine, NEW q
  PROVE  /\ Passes(s, NopExecute(s), SIZE_WORD, q)
         /\ Passes(s, IllegalExecute(s), SIZE_WORD, q)
<1> DEFINE b == Begin(s)
<1>1. Passes(s, b, SIZE_WORD, q) /\ SIZE_WORD \in Int /\ b \in Machine
  BY PassesBegin DEF SIZE_WORD, Passes
<1> HIDE DEF b
<1>2. Passes(b, Throw(b, "invalid_argument"), 0, q)
  BY <1>1, PassesThrow DEF Exceptions
<1>3. Passes(s, Throw(b, "invalid_argument"), SIZE_WORD + 0, q) /\ SIZE_WORD + 0 = SIZE_WORD
  BY <1>1, <1>2, PassesTrans
<1> QED
  BY <1>1, <1>3 DEF NopExecute, IllegalExecute, b

(* scc writes a byte whatever the opcode's size bits are.                  *)
LEMMA PassesScc ==
  ASSUME NEW s \in Machine, NEW i \in Instruction, IS_DATA_ALTERABLE(i.dest_mode), NEW q
  PROVE  Passes(s, SccExecute(s, i), SIZE_WORD + DestBytes(i), q)
<1> DEFINE t == Begin(s)
           v == IF checkCondition(t, i.kind) THEN Byte - 1 ELSE 0
<1>1. Passes(s, t, SIZE_WORD, q) /\ SIZE_WORD \in Int /\ t \in Machine
  BY PassesBegin DEF SIZE_WORD, Passes
<1> HIDE DEF t
<1>2. v \in Int
  <2>1. Byte - 1 \in Int
    BY Positive
  <2> QED
    BY <2>1
<1> HIDE DEF v
<1>3. Operands(i.dest_mode, i.dest_reg, SIZE_BYTE)
  BY Members DEF Operands, DataSize
<1>4. /\ ~(i.dest_mode = DIRECT_ADDR /\ i.dest_reg = REG_A7) /\ IS_MEMORY_ALTERABLE(i.dest_mode)
      /\ ExtensionSize(i.dest_mode, SIZE_BYTE) = DestBytes(i)
  BY DEF IS_DATA_ALTERABLE, IS_MEMORY_ALTERABLE, DestBytes, ExtensionSize
<1>5. Passes(t, setData(t, i.dest_mode, i.dest_reg, SIZE_BYTE, v), DestBytes(i), q)
  BY <1>1, <1>2, <1>3, <1>4, PassesStore
<1>6. Passes(s, setData(t, i.dest_mode, i.dest_reg, SIZE_BYTE, v), SIZE_WORD + DestBytes(i), q)
  BY <1>1, <1>5, BytesInt, PassesTrans
<1> QED
  BY <1>6 DEF SccExecute, t, v
-----------------------------------------------------------------------------
(* Control addresses have the same extension for every operand size.       *)
LEMMA PassesAddress ==
  ASSUME NEW s \in Machine, NEW mode \in AddressingMode, IS_CONTROL_ADDR(mode),
         NEW r \in 0 .. 15, NEW size \in DataSize, NEW q
  PROVE  Passes(s, getControlAddress(Begin(s), mode, r).st,
                SIZE_WORD + ExtensionSize(mode, size), q)
<1> DEFINE b == Begin(s)
           n == ExtensionSize(mode, size)
<1>1. Passes(s, b, SIZE_WORD, q) /\ SIZE_WORD \in Int /\ b \in Machine
  BY PassesBegin DEF SIZE_WORD, Passes
<1>2. ExtensionSize(mode, SIZE_LONG) = n
  BY DEF IS_CONTROL_ADDR, ExtensionSize
<1>3. n \in Int
  BY ExtensionRange DEF SIZE_WORD, SIZE_LONG
<1> HIDE DEF b, n
<1>4. Passes(b, getControlAddress(b, mode, r).st, n, q)
  BY <1>1, <1>2, PassesControl
<1>5. Passes(s, getControlAddress(b, mode, r).st, SIZE_WORD + n, q)
  BY <1>1, <1>3, <1>4, PassesTrans
<1> QED
  BY <1>5 DEF b, n

(* lea and pea.                                                            *)
LEMMA PassesLea ==
  ASSUME NEW s \in Machine, NEW i \in Instruction, i.class = "Lea", NEW q,
         q => i.dest_reg # REG_A7
  PROVE  Passes(s, LeaExecute(s, i), SIZE_WORD + SourceBytes(i), q)
<1> DEFINE a == getControlAddress(Begin(s), i.src_mode, i.src_reg)
           n == SIZE_WORD + SourceBytes(i)
<1>1. /\ IS_CONTROL_ADDR(i.src_mode) /\ i.src_mode \in AddressingMode /\ i.src_reg \in 0 .. 15
      /\ i.data_size \in DataSize /\ i.dest_reg \in 0 .. 15 /\ SIZE_LONG \in DataSize
  BY Members DEF Instruction, InstructionsWith, WellFormed, Operands, DataSize
<1>2. Passes(s, a.st, n, q) /\ n \in Int
  <2>1. Passes(s, a.st, n, q)
    BY <1>1, PassesAddress DEF SourceBytes
  <2>2. n \in Int
    BY BytesInt DEF SIZE_WORD
  <2> QED
    BY <2>1, <2>2
<1>3. a.val \in Int
  BY <1>1, BeginQuiet, ControlReads DEF Reads
<1> HIDE DEF n, a
<1>4. setData(a.st, DIRECT_ADDR, i.dest_reg, SIZE_LONG, a.val) = set(a.st, i.dest_reg, SIZE_LONG, a.val)
  BY DEF setData, setDataWith, StoreAt, PC_DISPLACEMENT, PC_INDEX, IMMEDIATE, UNKNOWN,
         DIRECT_DATA, DIRECT_ADDR, ABS_WORD
<1>5. Passes(s, set(a.st, i.dest_reg, SIZE_LONG, a.val), n, q)
  BY <1>1, <1>2, <1>3, PassesSetAfter
<1> QED
  BY <1>4, <1>5 DEF LeaExecute, a, n

(* pea passes the extension words of its control address.                  *)
LEMMA PassesPea ==
  ASSUME NEW s \in Machine, NEW i \in Instruction, i.class = "Pea", NEW q
  PROVE  Passes(s, PeaExecute(s, i), SIZE_WORD + SourceBytes(i), q)
<1> DEFINE a == getControlAddress(Begin(s), i.src_mode, i.src_reg)
           n == SIZE_WORD + SourceBytes(i)
<1>1. /\ IS_CONTROL_ADDR(i.src_mode) /\ i.src_mode \in AddressingMode /\ i.src_reg \in 0 .. 15
      /\ i.data_size \in DataSize
  BY Members DEF Instruction, InstructionsWith, WellFormed, Operands
<1>2. Passes(s, a.st, n, q) /\ n \in Int /\ a.st \in Machine
  <2>1. Passes(s, a.st, n, q)
    BY <1>1, PassesAddress DEF SourceBytes
  <2>2. n \in Int
    BY BytesInt DEF SIZE_WORD
  <2> QED
    BY <2>1, <2>2 DEF Passes
<1>3. a.val \in Int
  BY <1>1, BeginQuiet, ControlReads DEF Reads
<1> HIDE DEF n, a
<1>4. Passes(a.st, stackPush(a.st, SIZE_LONG, a.val), 0, q)
  BY <1>2, <1>3, PassesStack
<1>5. Passes(s, stackPush(a.st, SIZE_LONG, a.val), n + 0, q) /\ n + 0 = n
  BY <1>2, <1>4, PassesTrans
<1> QED
  BY <1>5 DEF PeaExecute, a, n

(* link and unlk load the stack pointer, so only the counter is at stake.  *)
LEMMA PassesLink ==
  ASSUME NEW s \in Machine, NEW i \in Instruction, NEW q, ~q
  PROVE  Passes(s, LinkExecute(s, i), SIZE_WORD + SIZE_WORD, q)
<1> DEFINE two == 2 * SIZE_WORD
           e == MemGet(s, PC(s) + SIZE_WORD, SIZE_WORD)
           t == SetPC(e.st, PC(s) + two)
           v == get(t, i.dest_reg, SIZE_LONG)
           p == stackPush(t, SIZE_LONG, v)
           sp == get(p, REG_USP, SIZE_LONG)
           w == sp + SignExtend(e.val, SIZE_WORD)
           x == set(p, i.dest_reg, SIZE_LONG, sp)
<1>1. /\ i.dest_reg \in Named /\ REG_USP \in Named /\ i.dest_reg \in 0 .. 15 /\ REG_USP \in 0 .. 15
      /\ SIZE_LONG \in DataSize /\ SIZE_WORD \in DataSize
  BY Members DEF Operands, Named, DataReg, AddrReg, DataSize, REG_USP
<1>2. PC(s) + SIZE_WORD \in Int /\ two \in Int /\ two = SIZE_WORD + SIZE_WORD
  BY PCInt DEF SIZE_WORD
<1>3. e.val \in Int /\ Passes(s, e.st, 0, q)
  BY <1>1, <1>2, MemGetReads, PassesGet DEF Reads
<1> HIDE DEF two, e
<1>4. Passes(s, t, two, q) /\ t \in Machine
  BY <1>2, <1>3, PassesBy DEF Passes
<1> HIDE DEF t
<1>5. v \in Int
  BY <1>1, <1>4, GetInt
<1> HIDE DEF v
<1>6. Passes(t, p, 0, q) /\ p \in Machine
  BY <1>4, <1>5, PassesStack DEF Passes
<1> HIDE DEF p
<1>7. Passes(s, p, two + 0, q) /\ two + 0 = two
  BY <1>2, <1>4, <1>6, PassesTrans
<1>8. sp \in Int
  BY <1>1, <1>6, GetInt
<1> HIDE DEF sp
<1>9. w \in Int
  BY <1>1, <1>3, <1>8, MaskInt
<1> HIDE DEF w
<1>10. Passes(s, x, two, q)
  BY <1>1, <1>2, <1>7, <1>8, PassesSetAfter
<1> HIDE DEF x
<1>11. Passes(s, set(x, REG_USP, SIZE_LONG, w), two, q)
  BY <1>1, <1>2, <1>9, <1>10, PassesSetAfter
<1>12. LinkExecute(s, i) = set(x, REG_USP, SIZE_LONG, w)
  BY DEF LinkExecute, e, t, v, p, sp, w, x, two
<1> QED
  BY <1>2, <1>11, <1>12

(* unlk passes one word; the stack pointer it restores may be any value.   *)
LEMMA PassesUnlk ==
  ASSUME NEW s \in Machine, NEW i \in Instruction, NEW q, ~q
  PROVE  Passes(s, UnlkExecute(s, i), SIZE_WORD, q)
<1> DEFINE t == Begin(s)
           v == get(t, i.dest_reg, SIZE_LONG)
           p == set(t, REG_USP, SIZE_LONG, v)
           r == stackPop(p, SIZE_LONG)
<1>1. /\ i.dest_reg \in Named /\ i.dest_reg \in 0 .. 15 /\ REG_USP \in 0 .. 15
      /\ SIZE_LONG \in DataSize /\ SIZE_WORD \in Int /\ 0 \in Int
  BY Members DEF Operands, Named, DataReg, AddrReg, DataSize, REG_USP, SIZE_WORD
<1>2. Passes(s, t, SIZE_WORD, q) /\ t \in Machine
  BY PassesBegin DEF Passes
<1> HIDE DEF t
<1>3. v \in Int
  BY <1>1, <1>2, GetInt
<1> HIDE DEF v
<1>4. Passes(s, p, SIZE_WORD, q) /\ p \in Machine
  BY <1>1, <1>2, <1>3, PassesSetAfter DEF Passes
<1> HIDE DEF p
<1>5. Passes(p, r.st, 0, q) /\ r.val \in Int
  BY <1>1, <1>4, PassesStack, PopReads DEF Reads
<1> HIDE DEF r
<1>6. Passes(s, r.st, SIZE_WORD + 0, q) /\ SIZE_WORD + 0 = SIZE_WORD
  BY <1>1, <1>4, <1>5, PassesTrans
<1>7. Passes(s, set(r.st, i.dest_reg, SIZE_LONG, r.val), SIZE_WORD, q)
  BY <1>1, <1>5, <1>6, PassesSetAfter
<1> QED
  BY <1>7 DEF UnlkExecute, t, v, p, r
-----------------------------------------------------------------------------
(* Keeping the stack pointer even, step by step.                           *)
LEMMA LevelTrans ==
  ASSUME NEW s, NEW t, NEW u, Level(s, t), Level(t, u)
  PROVE  Level(s, u)
  BY DEF Level

(* jmp, jsr and rts.                                                       *)
LEMMA LevelJumps ==
  ASSUME NEW s \in Machine, NEW i \in Instruction
  PROVE  /\ i.class \in {"Jmp", "Jsr"} => Level(s, JmpExecute(s, i)) /\ Level(s, JsrExecute(s, i))
         /\ Level(s, RtsExecute(s))
<1> DEFINE yes == TRUE
<1>1. yes
  OBVIOUS
<1> HIDE DEF yes
<1>2. ASSUME i.class \in {"Jmp", "Jsr"}
      PROVE  Level(s, JmpExecute(s, i)) /\ Level(s, JsrExecute(s, i))
  <2> DEFINE a == getControlAddress(Begin(s), i.dest_mode, i.dest_reg)
             p == stackPush(a.st, SIZE_LONG, PC(a.st))
  <2>1. /\ IS_CONTROL_ADDR(i.dest_mode) /\ i.dest_mode \in AddressingMode
        /\ i.dest_reg \in 0 .. 15 /\ i.data_size \in DataSize
    BY <1>2, Members DEF Instruction, InstructionsWith, WellFormed, Operands
  <2>2. Level(s, a.st) /\ a.st \in Machine
    BY <1>1, <2>1, PassesAddress DEF Passes
  <2>3. a.val \in Int
    BY <2>1, BeginQuiet, ControlReads DEF Reads
  <2> HIDE DEF a
  <2>4. PC(a.st) \in Int
    BY <2>2, PCInt
  <2>5. Level(a.st, p) /\ p \in Machine
    BY <1>1, <2>2, <2>4, PassesStack DEF Passes
  <2> HIDE DEF p
  <2>6. Level(a.st, SetPC(a.st, a.val)) /\ Level(p, SetPC(p, a.val))
    BY <2>2, <2>3, <2>5, PassesPC
  <2>7. Level(s, SetPC(a.st, a.val)) /\ Level(s, SetPC(p, a.val))
    BY <2>2, <2>5, <2>6, LevelTrans
  <2> QED
    BY <2>7 DEF JmpExecute, JsrExecute, a, p
<1>3. Level(s, RtsExecute(s))
  <2> DEFINE r == stackPop(s, SIZE_LONG)
             zero == 0
  <2>1. zero \in Int
    OBVIOUS
  <2>2. Level(s, r.st) /\ r.st \in Machine /\ r.val \in Int
    BY <1>1, <2>1, PassesStack, PopReads DEF Passes, Reads, DataSize
  <2> HIDE DEF r
  <2>3. Level(r.st, SetPC(r.st, r.val))
    BY <2>2, PassesPC
  <2>4. Level(s, SetPC(r.st, r.val))
    BY <2>2, <2>3, LevelTrans
  <2> QED
    BY <2>4 DEF RtsExecute, r
<1> QED
  BY <1>2, <1>3

(* The branches.                                                           *)
LEMMA LevelBranch ==
  ASSUME NEW s \in Machine, NEW i \in Instruction
  PROVE  Level(s, BccExecute(s, i))
<1> DEFINE yes == TRUE
           pc == MASK(PC(s) + SIZE_WORD, SIZE_LONG)
           e == IF i.data_size = SIZE_BYTE THEN Result(Begin(s), i.imm)
                ELSE Immediate(s, i)
           target == pc + SignExtend(e.val, i.data_size)
           c == checkCondition(e.st, i.kind)
           p == stackPush(e.st, SIZE_LONG, pc)
<1>1. yes
  OBVIOUS
<1> HIDE DEF yes
<1>2. pc \in Int
  <2>1. PC(s) + SIZE_WORD \in Int
    BY PCInt DEF SIZE_WORD
  <2> QED
    BY <2>1, MaskInt DEF DataSize
<1>3. e.st \in Machine /\ Level(s, e.st) /\ e.val \in Int
  <2>1. /\ Level(s, Begin(s)) /\ Begin(s) \in Machine
        /\ Level(s, Immediate(s, i).st) /\ Immediate(s, i).st \in Machine
    BY <1>1, PassesBegin, PassesSource DEF Passes
  <2> QED
    BY <2>1, SourceReads, Members DEF Reads, Result
<1> HIDE DEF e, pc, c
<1>4. target \in Int
  BY <1>2, <1>3, Members, MaskInt
<1> HIDE DEF target
<1>5. Level(e.st, p) /\ p \in Machine
  BY <1>1, <1>2, <1>3, PassesStack DEF Passes
<1> HIDE DEF p
<1>6. Level(e.st, SetPC(e.st, target)) /\ Level(p, SetPC(p, target))
  BY <1>3, <1>4, <1>5, PassesPC
<1>7. Level(s, SetPC(e.st, target)) /\ Level(s, SetPC(p, target))
  BY <1>3, <1>5, <1>6, LevelTrans
<1>8. BccExecute(s, i) =
        CASE i.kind = 0 -> SetPC(e.st, target)
          [] i.kind = 1 -> SetPC(p, target)
          [] OTHER -> IF c THEN SetPC(e.st, target) ELSE e.st
  BY DEF BccExecute, Branch, e, pc, target, c, p
<1> QED
  BY <1>3, <1>7, <1>8

(* The shifts write no register.                                           *)
LEMMA LevelShift ==
  ASSUME NEW s \in Machine, NEW i \in Instruction, NEW u \in Undefined
  PROVE  Level(s, BitShiftExecute(s, i, u))
<1> DEFINE yes == TRUE
           d == Dest(Begin(s), i)
<1>1. yes /\ SIZE_WORD \in Int
  BY DEF SIZE_WORD
<1> HIDE DEF yes
<1>2. Level(s, d.st) /\ d.st \in Machine
  BY <1>1, PassesBegin, PassesDest DEF Passes
<1> HIDE DEF d
<1>3. \A f : Level(d.st, SetFlags(d.st, f))
  BY <1>2 DEF Level, SetFlags, ActiveSP, Bank, Machine
<1>4. \A f : Level(s, SetFlags(d.st, f))
  BY <1>2, <1>3, LevelTrans
<1> QED
  BY <1>4 DEF BitShiftExecute, Shift, d
-----------------------------------------------------------------------------
(* The length of an instruction, class by class.                           *)
LEMMA LengthCases ==
  ASSUME NEW i \in Instruction
  PROVE  /\ i.class \in {"Add", "Sub", "Adda", "Suba", "Addx", "Subx", "And", "Or", "Eor",
                         "BitManip", "Cmp", "Cmpa", "Move", "Mul", "Div"} =>
              Length(i) = SIZE_WORD + SourceBytes(i) + DestBytes(i)
         /\ i.class \in {"Addi", "Subi", "Andi", "Ori", "Eori", "Cmpi"} =>
              Length(i) = SIZE_WORD + ImmediateBytes(i) + DestBytes(i)
         /\ i.class \in {"Addq", "Subq", "Neg", "Clr", "Moveq", "Ext", "Scc"} =>
              Length(i) = SIZE_WORD + DestBytes(i)
         /\ i.class \in {"Tst", "Lea", "Pea"} => Length(i) = SIZE_WORD + SourceBytes(i)
         /\ i.class \in {"Nop", "Illegal", "Unlk"} => Length(i) = SIZE_WORD
         /\ i.class = "Link" => Length(i) = SIZE_WORD + SIZE_WORD
<1>1. SIZE_WORD \in Int /\ SourceBytes(i) \in Int /\ DestBytes(i) \in Int /\ ImmediateBytes(i) \in Int
  BY BytesInt DEF SIZE_WORD
<1>2. Length(i) = SIZE_WORD + ImmediateSize(i)
                    + (IF i.class \in SourceClasses THEN SourceBytes(i) ELSE 0)
                    + (IF i.class \in DestClasses THEN DestBytes(i) ELSE 0)
  BY DEF Length, SourceBytes, DestBytes
<1>3. CASE i.class \in {"Add", "Sub", "Adda", "Suba", "Addx", "Subx", "And", "Or", "Eor",
                        "BitManip", "Cmp", "Cmpa", "Move", "Mul", "Div"}
  <2>1. ImmediateSize(i) = 0 /\ i.class \in SourceClasses /\ i.class \in DestClasses
    BY <1>3 DEF ImmediateSize, SourceClasses, DestClasses, ReadModifyWrite
  <2> QED
    BY <1>1, <1>2, <1>3, <2>1
<1>4. CASE i.class \in {"Addi", "Subi", "Andi", "Ori", "Eori", "Cmpi"}
  <2>1. ImmediateSize(i) = ImmediateBytes(i) /\ i.class \notin SourceClasses /\ i.class \in DestClasses
    BY <1>4 DEF ImmediateSize, ImmediateBytes, SourceClasses, DestClasses, ReadModifyWrite
  <2> QED
    BY <1>1, <1>2, <1>4, <2>1
<1>5. CASE i.class \in {"Addq", "Subq", "Neg", "Clr", "Moveq", "Ext", "Scc"}
  <2>1. ImmediateSize(i) = 0 /\ i.class \notin SourceClasses /\ i.class \in DestClasses
    BY <1>5 DEF ImmediateSize, SourceClasses, DestClasses, ReadModifyWrite
  <2> QED
    BY <1>1, <1>2, <1>5, <2>1
<1>6. CASE i.class \in {"Tst", "Lea", "Pea"}
  <2>1. ImmediateSize(i) = 0 /\ i.class \in SourceClasses /\ i.class \notin DestClasses
    BY <1>6 DEF ImmediateSize, SourceClasses, DestClasses, ReadModifyWrite
  <2> QED
    BY <1>1, <1>2, <1>6, <2>1
<1>7. CASE i.class \in {"Nop", "Illegal", "Unlk"}
  <2>1. ImmediateSize(i) = 0 /\ i.class \notin SourceClasses /\ i.class \notin DestClasses
    BY <1>7 DEF ImmediateSize, SourceClasses, DestClasses, ReadModifyWrite
  <2> QED
    BY <1>1, <1>2, <1>7, <2>1
<1>8. CASE i.class = "Link"
  <2>1. ImmediateSize(i) = SIZE_WORD /\ i.class \notin SourceClasses /\ i.class \notin DestClasses
    BY <1>8 DEF ImmediateSize, SourceClasses, DestClasses, ReadModifyWrite
  <2> QED
    BY <1>1, <1>2, <1>8, <2>1
<1> QED
  BY <1>3, <1>4, <1>5, <1>6, <1>7, <1>8

(* The branches and the shifts, whose end the length does not give.        *)
Unmeasured == {"Bcc", "Jmp", "Jsr", "Rts", "BitShift"}

(* The instruction in the table is the one that was executed.              *)
LEMMA StepExecutes ==
  ASSUME Step, Ok(Fetched.st)
  PROVE  LET s == Fetched.st
             i == Decoded
         IN  /\ i.class = "Add" => cpu' = AddExecute(s, i)
             /\ i.class = "Adda" => cpu' = AddaExecute(s, i)
             /\ i.class = "Addi" => cpu' = AddiExecute(s, i)
             /\ i.class = "Addq" => cpu' = AddqExecute(s, i)
             /\ i.class = "Addx" => cpu' = AddxExecute(s, i)
             /\ i.class = "And" => cpu' = AndExecute(s, i)
             /\ i.class = "Andi" => cpu' = AndiExecute(s, i)
             /\ i.class = "Bcc" => cpu' = BccExecute(s, i)
             /\ i.class = "BitManip" => cpu' = BitManipExecute(s, i)
             /\ i.class = "Clr" => cpu' = ClrExecute(s, i)
             /\ i.class = "Cmp" => cpu' = CmpExecute(s, i)
             /\ i.class = "Cmpa" => cpu' = CmpaExecute(s, i)
             /\ i.class = "Cmpi" => cpu' = CmpiExecute(s, i)
             /\ i.class = "Eor" => cpu' = EorExecute(s, i)
             /\ i.class = "Eori" => cpu' = EoriExecute(s, i)
             /\ i.class = "Ext" => cpu' = ExtExecute(s, i)
             /\ i.class = "Illegal" => cpu' = IllegalExecute(s)
             /\ i.class = "Jmp" => cpu' = JmpExecute(s, i)
             /\ i.class = "Jsr" => cpu' = JsrExecute(s, i)
             /\ i.class = "Lea" => cpu' = LeaExecute(s, i)
             /\ i.class = "Link" => cpu' = LinkExecute(s, i)
             /\ i.class = "Move" => cpu' = MoveExecute(s, i)
             /\ i.class = "Moveq" => cpu' = MoveqExecute(s, i)
             /\ i.class = "Neg" => cpu' = NegExecute(s, i)
             /\ i.class = "Nop" => cpu' = NopExecute(s)
             /\ i.class = "Or" => cpu' = OrExecute(s, i)
             /\ i.class = "Ori" => cpu' = OriExecute(s, i)
             /\ i.class = "Pea" => cpu' = PeaExecute(s, i)
             /\ i.class = "Rts" => cpu' = RtsExecute(s)
             /\ i.class = "Scc" => cpu' = SccExecute(s, i)
             /\ i.class = "Sub" => cpu' = SubExecute(s, i)
             /\ i.class = "Suba" => cpu' = SubaExecute(s, i)
             /\ i.class = "Subi" => cpu' = SubiExecute(s, i)
             /\ i.class = "Subq" => cpu' = SubqExecute(s, i)
             /\ i.class = "Subx" => cpu' = SubxExecute(s, i)
             /\ i.class = "Tst" => cpu' = TstExecute(s, i)
             /\ i.class = "Unlk" => cpu' = UnlkExecute(s, i)
             /\ i.class = "BitShift" => \E u \in Undefined : cpu' = BitShiftExecute(s, i, u)
             /\ i.class = "Div" => \E u \in Undefined : cpu' = DivExecute(s, i, u)
             /\ i.class = "Mul" => \E u \in Undefined : cpu' = MulExecute(s, i, u)
  BY DEF Step, FetchFault, Executes, Add, Adda, Addi, Addq, Addx, And, Andi, Bcc, BitManip,
     BitShift, Clr, Cmp, Cmpa, Cmpi, Div, Eor, Eori, Ext, Illegal, Jmp, Jsr, Lea, Link, Move,
     Moveq, Mul, Neg, Nop, Or, Ori, Pea, Rts, Scc, Sub, Suba, Subi, Subq, Subx, Tst, Unlk

(* Every other instruction passes itself and keeps the stack pointer even. *)
LEMMA StepPasses ==
  ASSUME TypeOK, Step, Ok(Fetched.st)
  PROVE  /\ Decoded.class \notin Unmeasured =>
              Passes(Fetched.st, cpu', Length(Decoded), ~LoadsA7(Decoded))
         /\ Decoded.class \in Unmeasured => Level(Fetched.st, cpu')
<1> DEFINE s == Fetched.st
           i == Decoded
           q == ~LoadsA7(i)
<1>1. s \in Machine /\ i \in Instruction /\ WellFormed(i)
  BY FetchedFacts DEF Instruction, InstructionsWith
<1>2. q => ~Free(i)
  BY DEF LoadsA7, Free
<1>3. \A class, result : Executes(class, result) => i.class = class /\ cpu' = result
  BY DEF Executes
<1>4. q => i.class \notin {"Link", "Unlk"} /\ (i.class = "Lea" => i.dest_reg # REG_A7)
  BY DEF LoadsA7
<1> HIDE DEF s, i, q
<1> SUFFICES /\ i.class \notin Unmeasured => Passes(s, cpu', Length(i), q)
             /\ i.class \in Unmeasured => Level(s, cpu')
  BY DEF s, i, q
<1>5. CASE Add \/ Sub \/ Adda \/ Suba \/ Addx \/ Subx \/ And \/ Or \/ Eor
  <2>1. /\ i.class \in {"Add", "Sub", "Adda", "Suba", "Addx", "Subx", "And", "Or", "Eor"}
        /\ cpu' \in {AddExecute(s, i), SubExecute(s, i), AddaExecute(s, i), SubaExecute(s, i),
                     AddxExecute(s, i), SubxExecute(s, i), AndExecute(s, i), OrExecute(s, i),
                     EorExecute(s, i)}
    BY <1>3, <1>5 DEF Add, Sub, Adda, Suba, Addx, Subx, And, Or, Eor, s, i
  <2>2. i.class \in ReadModifyWrite /\ i.class \notin Unmeasured
    BY <2>1 DEF ReadModifyWrite, Unmeasured
  <2>3. Passes(s, cpu', SIZE_WORD + SourceBytes(i) + DestBytes(i), q)
    BY <1>1, <1>2, <2>1, <2>2, PassesTwoOperands
  <2> QED
    BY <1>1, <2>1, <2>2, <2>3, LengthCases
<1>6. CASE Addi \/ Subi \/ Andi \/ Ori \/ Eori
  <2>1. /\ i.class \in {"Addi", "Subi", "Andi", "Ori", "Eori"}
        /\ cpu' \in {AddiExecute(s, i), SubiExecute(s, i), AndiExecute(s, i), OriExecute(s, i),
                     EoriExecute(s, i)}
    BY <1>3, <1>6 DEF Addi, Subi, Andi, Ori, Eori, s, i
  <2>2. i.class \in ReadModifyWrite /\ i.class \notin Unmeasured
    BY <2>1 DEF ReadModifyWrite, Unmeasured
  <2>3. Passes(s, cpu', SIZE_WORD + ImmediateBytes(i) + DestBytes(i), q)
    BY <1>1, <1>2, <2>1, <2>2, PassesImmediates
  <2> QED
    BY <1>1, <2>1, <2>2, <2>3, LengthCases
<1>7. CASE Addq \/ Subq \/ Neg
  <2>1. /\ i.class \in {"Addq", "Subq", "Neg"}
        /\ cpu' \in {AddqExecute(s, i), SubqExecute(s, i), NegExecute(s, i)}
    BY <1>3, <1>7 DEF Addq, Subq, Neg, s, i
  <2>2. i.class \in ReadModifyWrite /\ i.class \notin Unmeasured
    BY <2>1 DEF ReadModifyWrite, Unmeasured
  <2>3. Passes(s, cpu', SIZE_WORD + DestBytes(i), q)
    BY <1>1, <1>2, <2>1, <2>2, PassesQuick
  <2> QED
    BY <1>1, <2>1, <2>2, <2>3, LengthCases
<1>8. CASE BitManip
  <2>1. i.class = "BitManip" /\ cpu' = BitManipExecute(s, i)
    BY <1>3, <1>8 DEF BitManip, s, i
  <2>2. i.class \in ReadModifyWrite /\ i.class \notin Unmeasured
    BY <2>1 DEF ReadModifyWrite, Unmeasured
  <2>3. Passes(s, cpu', SIZE_WORD + SourceBytes(i) + DestBytes(i), q)
    BY <1>1, <1>2, <2>1, <2>2, PassesBitManip
  <2> QED
    BY <1>1, <2>1, <2>2, <2>3, LengthCases
<1>9. CASE Cmp \/ Cmpa \/ Cmpi \/ Tst
  <2>1. \/ i.class \in {"Cmp", "Cmpa"} /\ cpu' \in {CmpExecute(s, i), CmpaExecute(s, i)}
        \/ i.class = "Cmpi" /\ cpu' = CmpiExecute(s, i)
        \/ i.class = "Tst" /\ cpu' = TstExecute(s, i)
    BY <1>3, <1>9 DEF Cmp, Cmpa, Cmpi, Tst, s, i
  <2>2. i.class \notin Unmeasured
    BY <2>1 DEF Unmeasured
  <2> QED
    BY <1>1, <2>1, <2>2, PassesComparisons, LengthCases
<1>10. CASE Clr \/ Moveq
  <2>1. i.class \in {"Clr", "Moveq"} /\ cpu' \in {ClrExecute(s, i), MoveqExecute(s, i)}
    BY <1>3, <1>10 DEF Clr, Moveq, s, i
  <2>2. IS_MEMORY_ALTERABLE(i.dest_mode) /\ i.class \notin Unmeasured
    BY <1>1, <2>1 DEF WellFormed, Unmeasured, IS_MEMORY_ALTERABLE, DIRECT_DATA, UNKNOWN,
       PC_DISPLACEMENT, PC_INDEX, IMMEDIATE
  <2> QED
    BY <1>1, <1>2, <2>1, <2>2, PassesClrMoveq, LengthCases
<1>11. CASE Move
  <2>1. i.class = "Move" /\ cpu' = MoveExecute(s, i)
    BY <1>3, <1>11 DEF Move, s, i
  <2>2. IS_MEMORY_ALTERABLE(i.dest_mode) /\ i.class \notin Unmeasured
    BY <1>1, <2>1 DEF WellFormed, Unmeasured
  <2> QED
    BY <1>1, <1>2, <2>1, <2>2, PassesMove, LengthCases
<1>12. CASE Ext
  <2>1. i.class = "Ext" /\ cpu' = ExtExecute(s, i)
    BY <1>3, <1>12 DEF Ext, s, i
  <2> QED
    BY <1>1, <2>1, PassesExt, LengthCases DEF Unmeasured
<1>13. CASE Mul \/ Div
  <2>1. /\ i.class \in {"Mul", "Div"}
        /\ \E u \in Undefined : cpu' \in {MulExecute(s, i, u), DivExecute(s, i, u)}
    BY <1>3, <1>13 DEF Mul, Div, s, i
  <2>2. i.dest_mode = DIRECT_DATA /\ i.class \notin Unmeasured
    BY <1>1, <2>1 DEF WellFormed, Unmeasured
  <2> QED
    BY <1>1, <2>1, <2>2, PassesMul, PassesDiv, LengthCases
<1>14. CASE Nop \/ Illegal
  <2>1. i.class \in {"Nop", "Illegal"} /\ cpu' \in {NopExecute(s), IllegalExecute(s)}
    BY <1>3, <1>14 DEF Nop, Illegal, s, i
  <2> QED
    BY <1>1, <2>1, PassesNop, LengthCases DEF Unmeasured
<1>15. CASE Scc
  <2>1. i.class = "Scc" /\ cpu' = SccExecute(s, i)
    BY <1>3, <1>15 DEF Scc, s, i
  <2>2. IS_DATA_ALTERABLE(i.dest_mode) /\ i.class \notin Unmeasured
    BY <1>1, <2>1 DEF WellFormed, Unmeasured
  <2> QED
    BY <1>1, <2>1, <2>2, PassesScc, LengthCases
<1>16. CASE Lea \/ Pea
  <2>1. \/ i.class = "Lea" /\ cpu' = LeaExecute(s, i)
        \/ i.class = "Pea" /\ cpu' = PeaExecute(s, i)
    BY <1>3, <1>16 DEF Lea, Pea, s, i
  <2>2. Passes(s, cpu', SIZE_WORD + SourceBytes(i), q)
    BY <1>1, <1>4, <2>1, PassesLea, PassesPea
  <2> QED
    BY <1>1, <2>1, <2>2, LengthCases DEF Unmeasured
<1>17. CASE Link
  <2>1. i.class = "Link" /\ cpu' = LinkExecute(s, i)
    BY <1>3, <1>17 DEF Link, s, i
  <2> QED
    BY <1>1, <1>4, <2>1, PassesLink, LengthCases DEF Unmeasured
<1>18. CASE Unlk
  <2>1. i.class = "Unlk" /\ cpu' = UnlkExecute(s, i)
    BY <1>3, <1>18 DEF Unlk, s, i
  <2> QED
    BY <1>1, <1>4, <2>1, PassesUnlk, LengthCases DEF Unmeasured
<1>19. CASE Jmp \/ Jsr \/ Rts
  <2>1. \/ i.class \in {"Jmp", "Jsr"} /\ cpu' \in {JmpExecute(s, i), JsrExecute(s, i)}
        \/ i.class = "Rts" /\ cpu' = RtsExecute(s)
    BY <1>3, <1>19 DEF Jmp, Jsr, Rts, s, i
  <2> QED
    BY <1>1, <2>1, LevelJumps DEF Unmeasured
<1>20. CASE Bcc
  <2>1. i.class = "Bcc" /\ cpu' = BccExecute(s, i)
    BY <1>3, <1>20 DEF Bcc, s, i
  <2> QED
    BY <1>1, <2>1, LevelBranch DEF Unmeasured
<1>21. CASE BitShift
  <2>1. i.class = "BitShift" /\ \E u \in Undefined : cpu' = BitShiftExecute(s, i, u)
    BY <1>3, <1>21 DEF BitShift, s, i
  <2> QED
    BY <1>1, <2>1, LevelShift DEF Unmeasured
<1>22. ~FetchFault
  BY DEF FetchFault
<1> QED
  BY <1>5, <1>6, <1>7, <1>8, <1>9, <1>10, <1>11, <1>12, <1>13, <1>14, <1>15, <1>16, <1>17,
     <1>18, <1>19, <1>20, <1>21, <1>22 DEF Step

(* The opcode fetch moves nothing.                                         *)
LEMMA FetchMovesNothing ==
  ASSUME TypeOK
  PROVE  /\ Fetched.st \in Machine
         /\ Fetched.st.reg = cpu.reg /\ Fetched.st.sup = cpu.sup
         /\ PC(Fetched.st) = PC(cpu) /\ ActiveSP(Fetched.st) = ActiveSP(cpu)
<1>1. Ready \in Machine /\ Ready.reg = cpu.reg /\ Ready.sup = cpu.sup
  BY ReadyFacts
<1>2. Fetched = MemGet(Ready, PC(Ready), SIZE_WORD)
  BY DEF Fetched, Ready
<1>3. Fetched.st \in Machine
  BY FetchedFacts
<1>4. Fetched.st.reg = Ready.reg /\ Fetched.st.sup = Ready.sup
  BY <1>1, <1>2 DEF MemGet, Result, Throw, Machine
<1> QED
  BY <1>1, <1>3, <1>4, Pointers DEF ActiveSP, Bank, TypeOK
-----------------------------------------------------------------------------
(* The mixture of getData, getDataSilent, setData and getControlAddress in *)
(* an execute() leaves the program counter right behind the instruction,   *)
(* whatever the operands, for every class but the branches and the shifts. *)
THEOREM CounterPasses == Spec => PcPassesInstruction
<1>1. ASSUME TypeOK, Next, Ok(Fetched.st), Ok(cpu'), cpu'.sup = cpu.sup,
             Decoded.class \notin Unmeasured
      PROVE  PC(cpu') = MASK(PC(cpu) + Length(Decoded), SIZE_LONG)
  <2>1. CASE Step
    <3>1. Moves(Fetched.st, cpu', Length(Decoded))
      BY <1>1, <2>1, StepPasses DEF Passes
    <3>2. PC(cpu') = (PC(cpu) + Length(Decoded)) % Long
      BY <1>1, <3>1, FetchMovesNothing DEF Moves
    <3> QED
      BY <3>2 DEF MASK, Modulus, SIZE_BYTE, SIZE_WORD, SIZE_LONG
  <2>2. CASE HostMode
    <3>1. cpu' = [Ready EXCEPT !.sup = ~cpu.sup] /\ Ready \in Machine
      BY <1>1, <2>2, ReadyFacts DEF HostMode, SetSupervisor, Ready, Ok, TypeOK, Machine
    <3>2. cpu'.sup = ~cpu.sup /\ cpu.sup \in BOOLEAN
      BY <1>1, <3>1 DEF Machine, TypeOK
    <3> QED
      BY <1>1, <3>2
  <2> QED
    BY <1>1, <2>1, <2>2 DEF Next
<1>2. TypeOK /\ [Next]_cpu =>
        [ (/\ Ok(Fetched.st) /\ Ok(cpu') /\ cpu'.sup = cpu.sup
           /\ Decoded.class \notin {"Bcc", "Jmp", "Jsr", "Rts", "BitShift"})
            => PC(cpu') = MASK(PC(cpu) + Length(Decoded), SIZE_LONG) ]_cpu
  BY <1>1 DEF Unmeasured
<1> QED
  BY <1>2, TypeCorrect, PTL DEF Spec, PcPassesInstruction

(* However an instruction uses the stack pointer, failing or not, an even  *)
(* one stays even unless A7 is the destination: postincrement and          *)
(* predecrement of a byte move A7 by two, push and pop by four.            *)
THEOREM StackAligned == Spec => StackStaysAligned
<1>1. ASSUME TypeOK, Next, cpu'.sup = cpu.sup, ActiveSP(cpu) % 2 = 0, ~LoadsA7(Decoded)
      PROVE  ActiveSP(cpu') % 2 = 0
  <2>1. CASE Step /\ Ok(Fetched.st)
    <3>1. Level(Fetched.st, cpu')
      BY <1>1, <2>1, StepPasses DEF Passes
    <3> QED
      BY <1>1, <3>1, FetchMovesNothing DEF Level
  <2>2. CASE Step /\ ~Ok(Fetched.st)
    <3>1. FetchFault
      BY <2>2 DEF Step, Executes, Add, Adda, Addi, Addq, Addx, And, Andi, Bcc, BitManip, BitShift,
         Clr, Cmp, Cmpa, Cmpi, Div, Eor, Eori, Ext, Illegal, Jmp, Jsr, Lea, Link, Move, Moveq,
         Mul, Neg, Nop, Or, Ori, Pea, Rts, Scc, Sub, Suba, Subi, Subq, Subx, Tst, Unlk
    <3> QED
      BY <1>1, <3>1, FetchMovesNothing DEF FetchFault
  <2>3. CASE HostMode
    <3>1. cpu'.reg = cpu.reg
      BY <1>1, <2>3, HostModeFacts
    <3> QED
      BY <1>1, <3>1 DEF ActiveSP, Bank
  <2> QED
    BY <1>1, <2>1, <2>2, <2>3 DEF Next
<1>2. TypeOK /\ [Next]_cpu =>
        [ (cpu'.sup = cpu.sup /\ ActiveSP(cpu) % 2 = 0 /\ ~LoadsA7(Decoded))
            => ActiveSP(cpu') % 2 = 0 ]_cpu
  BY <1>1
<1> QED
  BY <1>2, TypeCorrect, PTL DEF Spec, StackStaysAligned
-----------------------------------------------------------------------------
(* A digit more: the remainder by b * c from those by b and by c.          *)
LEMMA DigitSplit ==
  ASSUME NEW v \in Int, NEW b \in Nat \ {0}, NEW c \in Nat \ {0}
  PROVE  v % (b * c) = ((v \div b) % c) * b + (v % b)
<1> DEFINE q == v \div b
           r == v % b
           q2 == q \div c
           r2 == q % c
<1>1. q \in Int /\ r \in 0 .. b - 1 /\ v = b * q + r
  BY DivMod
<1> HIDE DEF q, r
<1>2. q2 \in Int /\ r2 \in 0 .. c - 1 /\ q = c * q2 + r2
  BY <1>1, DivMod
<1> HIDE DEF q2, r2
<1>3. b * c \in Nat \ {0} /\ b * r2 + r \in Int /\ b * r2 >= 0
  BY <1>1, <1>2
<1>4. b * r2 <= b * (c - 1)
  <2>1. \A x, y \in Nat : x <= y => b * x <= b * y
    OBVIOUS
  <2> QED
    BY <1>2, <2>1
<1>5. b * (c - 1) = b * c - b
  OBVIOUS
<1>6. b * r2 + r \in 0 .. b * c - 1
  BY <1>1, <1>2, <1>3, <1>4, <1>5
<1>7. v = (b * c) * q2 + (b * r2 + r)
  <2>1. b * (c * q2 + r2) = (b * c) * q2 + b * r2
    BY <1>2
  <2> QED
    BY <1>1, <1>2, <1>3, <2>1
<1> DEFINE m == b * c
           x == b * r2 + r
<1>8. m \in Nat \ {0} /\ x \in 0 .. m - 1 /\ v = m * q2 + x
  BY <1>3, <1>6, <1>7
<1> HIDE DEF m, x
<1>9. v % m = x
  BY <1>2, <1>8, ModUnique
<1>10. b * r2 = r2 * b
  BY <1>2
<1> QED
  BY <1>9, <1>10 DEF m, x, q, r, q2, r2

(* The bytes of a number, put together again, give its low part.           *)
LEMMA BytesJoin ==
  ASSUME NEW v \in Int
  PROVE  /\ ByteOf(v, 0) = v % Byte
         /\ ByteOf(v, 1) * Byte + ByteOf(v, 0) = v % Word
         /\ ((ByteOf(v, 3) * Byte + ByteOf(v, 2)) * Byte + ByteOf(v, 1)) * Byte + ByteOf(v, 0)
              = v % Long
<1> DEFINE d1 == (v \div Byte) % Byte
           d2 == (v \div Word) % Byte
           d3 == (v \div AddrSpace) % Byte
<1>1. v \div 1 = v
  OBVIOUS
<1>2. ByteOf(v, 0) = v % Byte /\ ByteOf(v, 1) = d1 /\ ByteOf(v, 2) = d2 /\ ByteOf(v, 3) = d3
  BY <1>1 DEF ByteOf
<1>3. /\ v % (Byte * Byte) = d1 * Byte + (v % Byte)
      /\ v % (Word * Byte) = d2 * Word + (v % Word)
      /\ v % (AddrSpace * Byte) = d3 * AddrSpace + (v % AddrSpace)
  BY DigitSplit, Positive
<1>4. Word * Byte = AddrSpace /\ Byte * Byte = Word /\ AddrSpace = Byte * Byte * Byte
  BY DEF Word, AddrSpace
<1>5. AddrSpace * Byte = Long
  <2>1. \A b \in Int : (b * b * b) * b = (b * b) * (b * b)
    OBVIOUS
  <2> QED
    BY <2>1, Positive DEF AddrSpace, Word, Long
<1>6. /\ d1 \in Int /\ d2 \in Int /\ d3 \in Int /\ v % Byte \in Int
  BY <1>2, ByteOfRange, Positive DEF ByteVal
<1> HIDE DEF d1, d2, d3
<1>7. v % Word = d1 * Byte + (v % Byte)
  BY <1>3, <1>4
<1>8. v % Long = d3 * (Byte * Byte * Byte) + (d2 * (Byte * Byte) + (d1 * Byte + (v % Byte)))
  BY <1>3, <1>4, <1>5
<1>9. \A b, w, x, y, z \in Int :
        ((w * b + x) * b + y) * b + z = w * (b * b * b) + (x * (b * b) + (y * b + z))
  OBVIOUS
<1>10. ((d3 * Byte + d2) * Byte + d1) * Byte + (v % Byte) = v % Long
  BY <1>6, <1>8, <1>9, Positive
<1> QED
  BY <1>2, <1>7, <1>10

(* read_real_mem finds what write_real_mem put there, byte order and all.  *)
LEMMA ReadBack ==
  ASSUME NEW m, NEW a \in Address, NEW size \in DataSize, a + size <= MemSize, NEW data \in Int
  PROVE  read_real_mem(write_real_mem(m, a, size, data), a, size) = MASK(data, size)
<1> DEFINE w == write_real_mem(m, a, size, data)
<1>1. a \in Nat /\ MemSize \in Nat /\ Address = 0 .. MemSize - 1
  BY MemSizeAssumption, Positive DEF Address
<1>2. \A b \in Address : w[b] = IF b \in a .. a + size - 1 THEN ByteOf(data, a + size - 1 - b)
                                ELSE m[b]
  BY DEF write_real_mem
<1> HIDE DEF w
<1>3. CASE size = SIZE_BYTE
  <2>1. w[a] = ByteOf(data, 0)
    <3>1. a \in a .. a + size - 1 /\ a + size - 1 - a = 0
      BY <1>1, <1>3 DEF SIZE_BYTE
    <3> QED
      BY <1>2, <3>1
  <2> QED
    BY <1>3, <2>1, BytesJoin DEF w, read_real_mem, MASK, Modulus
<1>4. CASE size = SIZE_WORD
  <2>1. /\ a \in a .. a + size - 1 /\ a + size - 1 - a = 1
        /\ a + 1 \in Address /\ a + 1 \in a .. a + size - 1 /\ a + size - 1 - (a + 1) = 0
    BY <1>1, <1>4 DEF SIZE_WORD
  <2>2. w[a] = ByteOf(data, 1) /\ w[a + 1] = ByteOf(data, 0)
    BY <1>2, <2>1
  <2> QED
    BY <1>4, <2>2, BytesJoin DEF w, read_real_mem, MASK, Modulus, SIZE_BYTE, SIZE_WORD
<1>5. CASE size = SIZE_LONG
  <2>1. /\ a \in a .. a + size - 1 /\ a + size - 1 - a = 3
        /\ a + 1 \in Address /\ a + 1 \in a .. a + size - 1 /\ a + size - 1 - (a + 1) = 2
        /\ a + 2 \in Address /\ a + 2 \in a .. a + size - 1 /\ a + size - 1 - (a + 2) = 1
        /\ a + 3 \in Address /\ a + 3 \in a .. a + size - 1 /\ a + size - 1 - (a + 3) = 0
    BY <1>1, <1>5 DEF SIZE_LONG
  <2>2. /\ w[a] = ByteOf(data, 3) /\ w[a + 1] = ByteOf(data, 2)
        /\ w[a + 2] = ByteOf(data, 1) /\ w[a + 3] = ByteOf(data, 0)
    BY <1>2, <2>1
  <2> QED
    BY <1>5, <2>2, BytesJoin DEF w, read_real_mem, MASK, Modulus, SIZE_BYTE, SIZE_WORD, SIZE_LONG
<1> QED
  BY <1>3, <1>4, <1>5 DEF DataSize

(* Masking once more changes nothing, and a partial write leaves the low   *)
(* part it was given.                                                      *)
LEMMA MergeLow ==
  ASSUME NEW old \in Int, NEW size \in DataSize, NEW data \in Int
  PROVE  MASK(Merge(old, size, data), size) = MASK(data, size)
<1> DEFINE m == Modulus(size)
           q == old \div m
           r == data % m
<1>1. m \in Nat \ {0}
  BY ModulusDivides
<1>2. q \in Int /\ r \in 0 .. m - 1
  BY <1>1, DivMod
<1> HIDE DEF m, q, r
<1>3. q * m + r = m * q + r /\ q * m + r \in Int
  BY <1>1, <1>2
<1>4. (q * m + r) % m = r
  BY <1>1, <1>2, <1>3, ModUnique
<1> QED
  BY <1>4 DEF m, q, r, Merge, MASK

(* A register read after it was written.                                   *)
LEMMA GetAfterSet ==
  ASSUME NEW s \in Machine, Ok(s), NEW r \in Named, NEW size \in DataSize, NEW data \in Int
  PROVE  get(set(s, r, size, data), r, size) = MASK(data, size)
<1> DEFINE t == set(s, r, size, data)
<1>1. t.sup = s.sup
  BY SetFacts
<1>2. t.reg[Bank(s, r)] = Merge(s.reg[Bank(s, r)], size, data)
  BY SetStores
<1>3. s.reg[Bank(s, r)] \in Int
  BY BankSeparate, Positive DEF Machine, LongVal
<1> HIDE DEF t
<1>4. Bank(t, r) = Bank(s, r)
  BY <1>1 DEF Bank
<1>5. get(t, r, size) = MASK(data, size)
  BY <1>2, <1>3, <1>4, MergeLow DEF get
<1> QED
  BY <1>5 DEF t
-----------------------------------------------------------------------------
(* A checked read that went through read the memory and changed nothing.   *)
LEMMA GetThrough ==
  ASSUME NEW s \in Machine, NEW address \in Int, NEW size \in DataSize,
         Ok(MemGet(s, address, size).st)
  PROVE  /\ Ok(s) /\ AccessError(address, size) = "none"
         /\ MemGet(s, address, size).st = s
         /\ MemGet(s, address, size).val = read_real_mem(s.mem, MASK_ADDR(address), size)
<1>1. Ok(s)
  BY DEF MemGet, Result
<1>2. AccessError(address, size) = "none"
  <2>1. SUFFICES ASSUME AccessError(address, size) # "none" PROVE FALSE
    OBVIOUS
  <2>2. MemGet(s, address, size).st = [s EXCEPT !.exc = AccessError(address, size)]
    BY <1>1, <2>1 DEF MemGet, Result, Throw
  <2>3. MemGet(s, address, size).st.exc = AccessError(address, size)
    BY <2>2 DEF Machine
  <2> QED
    BY <2>1, <2>3 DEF Ok
<1> QED
  BY <1>1, <1>2 DEF MemGet, Result

(* The same for the extension.                                             *)
LEMMA PeekThrough ==
  ASSUME NEW s \in Machine, NEW n \in {0} \cup DataSize, Ok(Peek(s, n).st)
  PROVE  /\ Ok(s) /\ Peek(s, n).st = s
         /\ n # 0 => n \in DataSize /\ AccessError(PC(s), n) = "none"
<1>1. CASE n = 0
  BY <1>1 DEF Peek, Result
<1>2. CASE n # 0
  <2>1. n \in DataSize /\ PC(s) \in Int /\ Peek(s, n) = MemGet(s, PC(s), n)
    BY <1>2, Pointers DEF Peek
  <2> QED
    BY <2>1, GetThrough
<1> QED
  BY <1>1, <1>2

(* Two machines with the same registers: the same operand address.         *)
LEMMA SameAddress ==
  ASSUME NEW s \in Machine, NEW o \in Machine, o.reg = s.reg, o.sup = s.sup,
         NEW mode, NEW r, NEW size, NEW ext
  PROVE  /\ PC(o) = PC(s)
         /\ EffectiveAddress(o, mode, r, size, ext) = EffectiveAddress(s, mode, r, size, ext)
<1>1. \A x, z : get(o, x, z) = get(s, x, z)
  BY DEF get, Bank
<1>2. PC(o) = PC(s)
  BY <1>1 DEF PC
<1>3. Base(o, mode, r) = Base(s, mode, r)
  BY <1>1, <1>2 DEF Base
<1>4. IndexOffset(o, ext) = IndexOffset(s, ext)
  BY <1>1 DEF IndexOffset
<1>5. Offset(o, mode, r, size, ext) = Offset(s, mode, r, size, ext)
  BY <1>4 DEF Offset
<1> QED
  BY <1>2, <1>3, <1>5 DEF EffectiveAddress

(* Where setData stores in memory: at the address the silent read used.    *)
LEMMA StoreHits ==
  ASSUME NEW s \in Machine, NEW mode, NEW r, NEW size, Operands(mode, r, size),
         IS_MEMORY_ALTERABLE(mode), mode \notin {DIRECT_DATA, DIRECT_ADDR}, NEW data \in Int,
         Ok(getDataSilent(s, mode, r, size).st)
  PROVE  LET n == ExtensionSize(mode, size)
             a == EffectiveAddress(s, mode, r, size, SignedAbs(mode, Peek(s, n).val))
             t == setData(s, mode, r, size, data)
         IN  /\ Ok(s) /\ Ok(t) /\ a \in Int /\ AccessError(a, size) = "none"
             /\ Ok(Peek(s, n).st)
             /\ t \in Machine /\ t.sup = s.sup
             /\ t.mem = write_real_mem(s.mem, MASK_ADDR(a), size, data)
<1> DEFINE n == ExtensionSize(mode, size)
           p == Peek(s, n)
           a == EffectiveAddress(s, mode, r, size, SignedAbs(mode, p.val))
           c == Fetch(s, n).st
           w == write_real_mem(s.mem, MASK_ADDR(a), size, data)
           t == setData(s, mode, r, size, data)
<1>1. /\ mode \in AddressingMode /\ r \in 0 .. 15 /\ size \in DataSize
      /\ mode \notin {PC_DISPLACEMENT, PC_INDEX, IMMEDIATE, UNKNOWN}
  BY DEF Operands, IS_MEMORY_ALTERABLE
<1>2. n \in {0} \cup DataSize
  BY <1>1, ExtensionRange DEF DataSize
<1>3. p.val \in Int /\ p.st \in Machine
  BY <1>2, PeekReads DEF Reads, Quiet
<1>4. a \in Int
  BY <1>1, <1>3, AddressInt, SignedAbsInt
<1>5. getDataSilent(s, mode, r, size) = MemGet(p.st, a, size)
  BY <1>1 DEF getDataSilent, getDataSilentWith, Accessed, SignedAddress
<1>6. Safe(s, t) /\ t \in Machine /\ t.sup = s.sup
  BY SetDataSafe DEF Safe
<1>7. t = CASE mode = ABS_WORD -> SetPC(MemSet(p.st, a, size, data), PC(s) + n)
            [] mode # ABS_WORD -> Bump(MemSet(c, a, size, data), mode, r, a, size)
  BY <1>1 DEF setData, setDataWith, StoreAt, SignedAddress, Fetch
<1>8. PC(s) + n \in Int
  BY <1>2, Pointers DEF DataSize, SIZE_BYTE, SIZE_WORD, SIZE_LONG
<1>9. c = IF n = 0 THEN p.st ELSE SetPC(p.st, PC(s) + n)
  BY DEF Fetch, Consume, Result
<1> HIDE DEF n, p, a, t, c
<1>10. Ok(p.st) /\ AccessError(a, size) = "none"
  BY <1>1, <1>3, <1>4, <1>5, GetThrough
<1>11. Ok(s) /\ p.st = s
  BY <1>2, <1>10, PeekThrough DEF p
<1>12. c \in Machine /\ Ok(c) /\ c.mem = s.mem
  <2>1. REG_PC \in Named /\ SIZE_LONG \in DataSize
    BY DEF Named, DataSize
  <2>2. /\ SetPC(s, PC(s) + n) \in Machine /\ SetPC(s, PC(s) + n).exc = s.exc
        /\ SetPC(s, PC(s) + n).mem = s.mem
    BY <1>8, <2>1, SetFacts DEF SetPC
  <2> QED
    BY <1>9, <1>11, <2>2 DEF Ok
<1> DEFINE u == MemSet(c, a, size, data)
           v == MemSet(s, a, size, data)
<1>13. u \in Machine /\ v \in Machine
  BY <1>1, <1>4, <1>12, MemSetSafe DEF Safe
<1>14. u.mem = w /\ Ok(u) /\ v.mem = w /\ Ok(v)
  BY <1>10, <1>11, <1>12 DEF MemSet, Machine, Ok
<1> HIDE DEF u, v, w
<1>15. CASE mode = ABS_WORD
  <2>1. REG_PC \in Named /\ SIZE_LONG \in DataSize
    BY DEF Named, DataSize
  <2>2. t = SetPC(v, PC(s) + n)
    BY <1>7, <1>11, <1>15 DEF v
  <2> QED
    BY <1>8, <1>13, <1>14, <2>1, <2>2, SetFacts, <1>4, <1>6, <1>10, <1>11
       DEF SetPC, Ok, n, p, a, t, w
<1>16. CASE mode # ABS_WORD
  <2>1. t = Bump(u, mode, r, a, size)
    BY <1>7, <1>16 DEF u
  <2>2. r \in Named /\ SIZE_LONG \in DataSize /\ a + Stride(r, size) \in Int
    BY <1>1, <1>4, StrideInt DEF Named, DataReg, AddrReg, DataSize
  <2>3. t.mem = u.mem /\ t.exc = u.exc
    BY <1>4, <1>13, <2>1, <2>2, SetFacts DEF Bump
  <2> QED
    BY <1>14, <2>3, <1>4, <1>6, <1>10, <1>11 DEF Ok, n, p, a, t, w
<1> QED
  BY <1>15, <1>16

(* Reading the operand again with the registers of before finds the value  *)
(* just stored, unless the write replaced the extension words.             *)
LEMMA RereadHits ==
  ASSUME NEW s \in Machine, NEW mode, NEW r, NEW size, Operands(mode, r, size),
         IS_MEMORY_ALTERABLE(mode), mode \notin {DIRECT_DATA, DIRECT_ADDR}, NEW data \in Int,
         Ok(getDataSilent(s, mode, r, size).st),
         NEW o \in Machine, o.reg = s.reg, o.sup = s.sup, Ok(o),
         o.mem = setData(s, mode, r, size, data).mem,
         Peek(o, ExtensionSize(mode, size)).val = Peek(s, ExtensionSize(mode, size)).val
  PROVE  getDataSilent(o, mode, r, size).val = MASK(data, size)
<1> DEFINE n == ExtensionSize(mode, size)
           e == SignedAbs(mode, Peek(s, n).val)
           a == EffectiveAddress(s, mode, r, size, e)
           t == setData(s, mode, r, size, data)
           w == write_real_mem(s.mem, MASK_ADDR(a), size, data)
<1>1. /\ Ok(s) /\ Ok(t) /\ a \in Int /\ AccessError(a, size) = "none"
      /\ Ok(Peek(s, n).st) /\ t \in Machine /\ t.sup = s.sup /\ t.mem = w
  BY StoreHits
<1>2. /\ mode \in AddressingMode /\ size \in DataSize
      /\ mode \notin {PC_DISPLACEMENT, PC_INDEX, IMMEDIATE, UNKNOWN}
  BY DEF Operands, IS_MEMORY_ALTERABLE
<1>3. n \in {0} \cup DataSize
  BY <1>2, ExtensionRange DEF DataSize
<1>4. getDataSilent(o, mode, r, size) =
        MemGet(Peek(o, n).st, EffectiveAddress(o, mode, r, size, e), size)
  BY <1>2 DEF getDataSilent, getDataSilentWith, Accessed, SignedAddress
<1> HIDE DEF n, e, a, w, t
<1>5. o.mem = w
  BY <1>1 DEF t
<1>6. PC(o) = PC(s) /\ EffectiveAddress(o, mode, r, size, e) = a
  <2>1. /\ PC(o) = PC(s)
        /\ EffectiveAddress(o, mode, r, size, e) = EffectiveAddress(s, mode, r, size, e)
    BY SameAddress
  <2> QED
    BY <2>1 DEF a
<1>7. Peek(o, n).st = o
  <2>1. n # 0 => AccessError(PC(s), n) = "none"
    BY <1>1, <1>3, PeekThrough
  <2> QED
    BY <1>5, <1>6, <2>1 DEF Peek, MemGet, Result
<1>8. getDataSilent(o, mode, r, size).val = read_real_mem(w, MASK_ADDR(a), size)
  <2>1. getDataSilent(o, mode, r, size) = MemGet(o, a, size)
    BY <1>4, <1>6, <1>7
  <2>2. MemGet(o, a, size) = Result(o, read_real_mem(w, MASK_ADDR(a), size))
    BY <1>1, <1>5 DEF MemGet
  <2> QED
    BY <2>1, <2>2 DEF Result
<1>9. MASK_ADDR(a) \in Address /\ MASK_ADDR(a) + size <= MemSize
  BY <1>1, <1>2, AccessInside
<1>10. read_real_mem(w, MASK_ADDR(a), size) = MASK(data, size)
  BY <1>2, <1>9, ReadBack DEF w
<1> QED
  BY <1>8, <1>10

(* A machine of the right type has the property.                           *)
LEMMA WriteBackInState ==
  ASSUME TypeOK
  PROVE  WriteBackHitsOperand
<1> SUFFICES ASSUME Alive, Ok(Fetched.st), Decoded.class \in ReadModifyWrite
             PROVE  LET s == Operand(Fetched.st, Decoded)
                        t == Store(s, Decoded, Long - 1)
                    IN  Ok(Dest(s, Decoded).st) => Ok(t) /\ ReReads(s, t, Decoded)
  BY DEF WriteBackHitsOperand
<1> DEFINE i == Decoded
           f == Fetched.st
           s == Operand(f, i)
           data == Long - 1
           mode == i.dest_mode
           r == i.dest_reg
           size == i.data_size
           t == Store(s, i, data)
           n == ExtensionSize(mode, size)
<1>1. i \in Instruction /\ f \in Machine /\ i.class \in ReadModifyWrite
  BY FetchedFacts
<1> HIDE DEF i, f
<1>2. s \in Machine
  <2>1. Reads(f, Source(f, i)) /\ Reads(f, Immediate(f, i)) /\ Begin(f) \in Machine
    BY <1>1, SourceReads, BeginQuiet
  <2> QED
    BY <2>1 DEF Operand, Reads, Quiet
<1>3. /\ Operands(mode, r, size) /\ IS_MEMORY_ALTERABLE(mode) /\ data \in Int
      /\ size \in DataSize /\ r \in Named
  BY <1>1, Members, Positive DEF Instruction, InstructionsWith, WellFormed, Operands, Named,
     DataReg, AddrReg
<1> HIDE DEF s
<1> SUFFICES ASSUME Ok(Dest(s, i).st) PROVE Ok(t) /\ ReReads(s, t, i)
  BY DEF s, i, f
<1>4. Ok(getDataSilent(s, mode, r, size).st) /\ t = setData(s, mode, r, size, data)
  BY DEF Dest, Store
<1>5. CASE mode \in {DIRECT_DATA, DIRECT_ADDR}
  <2>1. \A x : Dest(x, i) = Result(x, get(x, r, size))
    BY <1>5 DEF Dest, getDataSilent, getDataSilentWith, Accessed, DIRECT_DATA, DIRECT_ADDR,
                IMMEDIATE, UNKNOWN
  <2>2. Ok(s) /\ t = set(s, r, size, data)
    BY <1>4, <1>5, <2>1 DEF Result, setData, setDataWith, StoreAt, DIRECT_DATA, DIRECT_ADDR,
                PC_DISPLACEMENT, PC_INDEX, IMMEDIATE, UNKNOWN, ABS_WORD
  <2>3. Ok(t) /\ get(t, r, size) = MASK(data, size)
    BY <1>2, <1>3, <2>2, SetFacts, GetAfterSet DEF Ok
  <2> QED
    BY <1>5, <2>1, <2>3 DEF ReReads, Result
<1>6. CASE mode \notin {DIRECT_DATA, DIRECT_ADDR}
  <2>1. Ok(t) /\ t \in Machine /\ t.sup = s.sup
    BY <1>2, <1>3, <1>4, <1>6, StoreHits
  <2> DEFINE o == [t EXCEPT !.reg = s.reg]
  <2> HIDE DEF t
  <2>2. /\ o \in Machine /\ o.reg = s.reg /\ o.sup = s.sup /\ Ok(o) /\ o.mem = t.mem
    BY <1>2, <2>1 DEF Machine, Ok
  <2> HIDE DEF o
  <2>3. o.mem = setData(s, mode, r, size, data).mem
    BY <1>4, <2>2
  <2>4. Peek(o, n).val = Peek(s, n).val => Dest(o, i).val = MASK(data, size)
    BY <1>2, <1>3, <1>4, <1>6, <2>2, <2>3, RereadHits DEF Dest
  <2> QED
    BY <1>6, <2>1, <2>4 DEF ReReads, o
<1> QED
  BY <1>5, <1>6

(* In every reachable state the write half of the next read-modify-write   *)
(* succeeds if the read half does, and hits the operand the read half saw: *)
(* getDataSilent and setData compute the address separately, the one       *)
(* before and the other after the program counter and the registers move.  *)
THEOREM WriteBack == Spec => []WriteBackHitsOperand
  BY TypeCorrect, WriteBackInState, PTL
-----------------------------------------------------------------------------
(* An address wrapped to a register is the same address.                   *)
LEMMA AddressOfLong ==
  ASSUME NEW a \in Int
  PROVE  MASK_ADDR(a % Long) = MASK_ADDR(a)
<1>1. Long = Byte * AddrSpace
  <2>1. \A b \in Int : b * (b * b * b) = (b * b) * (b * b)
    OBVIOUS
  <2> QED
    BY <2>1, Positive DEF AddrSpace, Word, Long
<1>2. (a % (Byte * AddrSpace)) % AddrSpace = a % AddrSpace
  BY ModOfMod, Positive
<1> QED
  BY <1>1, <1>2 DEF MASK_ADDR

(* A long is masked by Long.                                               *)
LEMMA MaskLong == \A v : MASK(v, SIZE_LONG) = v % Long
  BY DEF MASK, Modulus, SIZE_BYTE, SIZE_WORD, SIZE_LONG

(* A push that went through left its operand in the four bytes below the   *)
(* stack pointer, where the stack pointer now is.                          *)
LEMMA PushStores ==
  ASSUME NEW s \in Machine, NEW data \in Int, Ok(stackPush(s, SIZE_LONG, data))
  PROVE  LET t == stackPush(s, SIZE_LONG, data)
             a == MASK_ADDR(ActiveSP(s) - SIZE_LONG)
         IN  /\ Ok(s) /\ t \in Machine /\ t.sup = s.sup
             /\ a \in Address /\ a + SIZE_LONG <= MemSize
             /\ read_real_mem(t.mem, a, SIZE_LONG) = data % Long
             /\ ActiveSP(t) = (ActiveSP(s) - SIZE_LONG) % Long
             /\ MASK_ADDR(ActiveSP(t)) = a
<1> DEFINE sp == get(s, REG_USP, SIZE_LONG) - SIZE_LONG
           u == set(s, REG_USP, SIZE_LONG, sp)
           m == MASK(sp, SIZE_LONG)
           t == MemSet(u, m, SIZE_LONG, data)
           a == MASK_ADDR(sp)
<1>1. t = stackPush(s, SIZE_LONG, data)
  BY DEF stackPush
<1>2. REG_USP \in Named /\ SIZE_LONG \in DataSize /\ REG_USP = REG_A7
  BY DEF Named, AddrReg, REG_USP, REG_A7, DataSize
<1>3. sp = ActiveSP(s) - SIZE_LONG /\ sp \in Int
  BY Pointers DEF SIZE_LONG
<1> HIDE DEF sp
<1>4. m = sp % Long /\ m \in Int /\ MASK_ADDR(m) = a
  BY <1>3, MaskLong, AddressOfLong, ModRange, Positive
<1> HIDE DEF m
<1>5. u \in Machine /\ u.sup = s.sup /\ u.exc = s.exc /\ u.mem = s.mem
  BY <1>2, <1>3, SetFacts
<1>6. Ok(u) => ActiveSP(u) = sp % Long
  <2> SUFFICES ASSUME Ok(u) PROVE ActiveSP(u) = sp % Long
    OBVIOUS
  <2>1. Ok(s)
    BY <1>5 DEF Ok
  <2>2. get(u, REG_USP, SIZE_LONG) = MASK(sp, SIZE_LONG)
    BY <1>2, <1>3, <2>1, GetAfterSet
  <2> QED
    BY <1>5, <2>2, Pointers, MaskLong
<1> HIDE DEF u
<1>7. t \in Machine
  BY <1>2, <1>4, <1>5, MemSetSafe DEF Safe
<1>8. Ok(u)
  BY <1>1 DEF MemSet, Throw
<1>9. AccessError(m, SIZE_LONG) = "none"
  <2>1. SUFFICES ASSUME AccessError(m, SIZE_LONG) # "none" PROVE FALSE
    OBVIOUS
  <2>2. t = [u EXCEPT !.exc = AccessError(m, SIZE_LONG)]
    BY <1>8, <2>1 DEF MemSet, Throw
  <2>3. t.exc = AccessError(m, SIZE_LONG)
    BY <1>5, <2>2 DEF Machine
  <2> QED
    BY <1>1, <2>1, <2>3 DEF Ok
<1>10. t = [u EXCEPT !.mem = write_real_mem(u.mem, a, SIZE_LONG, data)]
  BY <1>4, <1>8, <1>9 DEF MemSet
<1>11. t.mem = write_real_mem(u.mem, a, SIZE_LONG, data) /\ t.reg = u.reg /\ t.sup = u.sup
  BY <1>5, <1>10 DEF Machine
<1>12. a \in Address /\ a + SIZE_LONG <= MemSize
  BY <1>2, <1>4, <1>9, AccessInside
<1>13. read_real_mem(t.mem, a, SIZE_LONG) = data % Long
  BY <1>2, <1>11, <1>12, ReadBack, MaskLong
<1>14. ActiveSP(t) = sp % Long
  BY <1>6, <1>8, <1>11 DEF ActiveSP, Bank
<1>15. MASK_ADDR(ActiveSP(t)) = a
  BY <1>3, <1>14, AddressOfLong
<1>16. Ok(s) /\ t.sup = s.sup
  BY <1>5, <1>8, <1>11 DEF Ok
<1> HIDE DEF t
<1> QED
  BY <1>1, <1>3, <1>7, <1>12, <1>13, <1>14, <1>15, <1>16

(* A jump after a push leaves what was pushed at the stack pointer.        *)
LEMMA PushThenJump ==
  ASSUME NEW s \in Machine, NEW data \in Int, NEW target \in Int,
         Ok(SetPC(stackPush(s, SIZE_LONG, data), target))
  PROVE  LET t == SetPC(stackPush(s, SIZE_LONG, data), target)
             a == MASK_ADDR(ActiveSP(t))
         IN  /\ Ok(s) /\ PC(t) = target % Long
             /\ a \in Address /\ a + SIZE_LONG <= MemSize
             /\ read_real_mem(t.mem, a, SIZE_LONG) = data % Long
<1> DEFINE p == stackPush(s, SIZE_LONG, data)
           t == SetPC(p, target)
<1>1. p \in Machine
  BY PushSafe DEF Safe, DataSize
<1>2. /\ t.exc = p.exc /\ Level(p, t)
      /\ \A q \in RegisterType \ {REG_PC} : t.reg[q] = p.reg[q]
  BY <1>1, PassesPC
<1>3. t.mem = p.mem
  BY <1>1, SetFacts DEF SetPC, Named, DataSize
<1>4. Ok(p) /\ PC(t) = target % Long
  BY <1>1, <1>2, PassesPC DEF Ok
<1>5. t.sup = p.sup /\ Bank(p, REG_A7) \in RegisterType \ {REG_PC}
  BY <1>2 DEF Level, Bank, RegisterType, REG_PC, REG_A7, REG_SSP
<1>6. ActiveSP(t) = ActiveSP(p)
  BY <1>2, <1>5 DEF ActiveSP, Bank
<1> HIDE DEF t
<1>7. /\ Ok(s) /\ MASK_ADDR(ActiveSP(p)) \in Address
      /\ MASK_ADDR(ActiveSP(p)) + SIZE_LONG <= MemSize
      /\ read_real_mem(p.mem, MASK_ADDR(ActiveSP(p)), SIZE_LONG) = data % Long
  BY <1>4, PushStores
<1> HIDE DEF p
<1> QED
  BY <1>3, <1>4, <1>6, <1>7 DEF t, p
=============================================================================
