---------------------------- MODULE StateProofs ----------------------------
(***************************************************************************)
(* What the accesses of Registers, Memory and CPUState do to a machine,    *)
(* for every byte width, memory size and operand.                          *)
(***************************************************************************)
EXTENDS CPUState, TLAPS

(* A remainder is in range, whatever the sign of the dividend.             *)
LEMMA ModRange ==
  ASSUME NEW a \in Int, NEW n \in Nat \ {0}
  PROVE  a % n \in 0 .. n - 1
  OBVIOUS

(* The moduli are positive integers.                                       *)
LEMMA Positive ==
  /\ Byte \in Nat \ {0}
  /\ Word \in Nat \ {0}
  /\ Long \in Nat \ {0}
  /\ AddrSpace \in Nat \ {0}
<1>1. Byte \in Nat \ {0}
  <2>1. Bits \in 0 .. 8 * Bits
    BY BitsAssumption
  <2>2. Pow2 \in [0 .. 8 * Bits -> Nat \ {0}]
    BY Pow2Assumption
  <2> QED
    BY <2>1, <2>2 DEF Byte
<1>2. \A x, y \in Nat \ {0} : x * y \in Nat \ {0}
  OBVIOUS
<1>3. Word \in Nat \ {0}
  BY <1>1, <1>2 DEF Word
<1>4. Long \in Nat \ {0}
  BY <1>3, <1>2 DEF Long
<1>5. AddrSpace \in Nat \ {0}
  BY <1>1, <1>2 DEF AddrSpace
<1> QED
  BY <1>1, <1>3, <1>4, <1>5

(* A long is a whole number of operands of each size.                      *)
LEMMA ModulusDivides ==
  ASSUME NEW size \in DataSize
  PROVE  /\ Modulus(size) \in Nat \ {0}
         /\ \E k \in Nat \ {0} : Long = k * Modulus(size)
<1>1. \A x, y \in Nat \ {0} : x * y \in Nat \ {0}
  OBVIOUS
<1>2. CASE size = SIZE_BYTE
  <2>1. Modulus(size) = Byte
    BY <1>2 DEF Modulus
  <2>2. Byte * Byte * Byte \in Nat \ {0}
    BY <1>1, Positive
  <2>3. \A b \in Nat : (b * b) * (b * b) = (b * b * b) * b
    OBVIOUS
  <2> QED
    BY <2>1, <2>2, <2>3, Positive DEF Long, Word
<1>3. CASE size = SIZE_WORD
  <2>1. Modulus(size) = Word
    BY <1>3 DEF Modulus, SIZE_BYTE, SIZE_WORD
  <2> QED
    BY <2>1, Positive DEF Long
<1>4. CASE size = SIZE_LONG
  <2>1. Modulus(size) = Long
    BY <1>4 DEF Modulus, SIZE_BYTE, SIZE_WORD, SIZE_LONG
  <2>2. \A x \in Nat : x = 1 * x
    OBVIOUS
  <2> QED
    BY <2>1, <2>2, Positive
<1> QED
  BY <1>2, <1>3, <1>4 DEF DataSize

(* A register holds a long after any partial write.                        *)
LEMMA MergeRange ==
  ASSUME NEW old \in LongVal, NEW size \in DataSize, NEW data \in Int
  PROVE  Merge(old, size, data) \in LongVal
<1> DEFINE m == Modulus(size)
<1>1. PICK k \in Nat \ {0} : Long = k * m
  BY ModulusDivides
<1>2. m \in Nat \ {0}
  BY ModulusDivides
<1> DEFINE q == old \div m
<1>3. old \in Nat /\ old < k * m
  BY <1>1, Positive DEF LongVal
<1>4. q \in Nat /\ q * m <= old
  <2>1. \A a \in Nat, b \in Nat \ {0} : (a \div b) \in Nat /\ (a \div b) * b <= a
    OBVIOUS
  <2> QED
    BY <2>1, <1>2, <1>3
<1>5. q <= k - 1
  <2>1. \A x, y, z \in Nat : x * z < y * z => x < y
    OBVIOUS
  <2>2. q * m < k * m
    BY <1>2, <1>3, <1>4
  <2> HIDE DEF m, q
  <2> QED
    BY <2>1, <2>2, <1>1, <1>2, <1>4
<1>6. q * m <= (k - 1) * m
  <2>1. \A x, y, z \in Nat : x <= y => x * z <= y * z
    OBVIOUS
  <2> HIDE DEF m, q
  <2> QED
    BY <2>1, <1>1, <1>2, <1>4, <1>5
<1>7. (k - 1) * m = k * m - m
  <2>1. \A x \in Int, y \in Nat : (x - 1) * y = x * y - y
    OBVIOUS
  <2> QED
    BY <2>1, <1>1, <1>2
<1>8. data % m \in 0 .. m - 1
  BY <1>2, ModRange
<1>9. q * m \in Nat /\ k * m \in Nat
  BY <1>1, <1>2, <1>4, Positive
<1> HIDE DEF m, q
<1>10. q * m + (data % m) \in 0 .. Long - 1
  BY <1>1, <1>2, <1>6, <1>7, <1>8, <1>9
<1> QED
  BY <1>10 DEF Merge, MASK, LongVal, m, q
-----------------------------------------------------------------------------
(* The register numbers the code passes to Registers::get and set.         *)
Named == DataReg \cup AddrReg \cup {REG_PC}

(***************************************************************************)
(* Quiet(s, t): on the way from s to t nothing was written but address     *)
(* registers of the active bank, the program counter and the exception.    *)
(***************************************************************************)
Quiet(s, t) ==
  /\ t \in Machine
  /\ t.mem = s.mem
  /\ t.ccr = s.ccr
  /\ t.sup = s.sup
  /\ \A d \in DataReg : t.reg[d] = s.reg[d]
  /\ t.reg[BankedOut(s)] = s.reg[BankedOut(s)]

(***************************************************************************)
(* Safe(s, t): t is a machine with the same mode and banked-out stack      *)
(* pointer, and if an exception stopped the way to t it was quiet so far.  *)
(***************************************************************************)
Safe(s, t) ==
  /\ t \in Machine
  /\ t.sup = s.sup
  /\ t.reg[BankedOut(s)] = s.reg[BankedOut(s)]
  /\ ~Ok(t) => Quiet(s, t)

(* A read that was quiet and returned a number.                            *)
Reads(s, r) == Quiet(s, r.st) /\ r.val \in Int

(* Bank never selects the banked-out stack pointer.                        *)
LEMMA BankSeparate ==
  ASSUME NEW s \in Machine, NEW r \in Named
  PROVE  /\ Bank(s, r) \in RegisterType
         /\ Bank(s, r) # BankedOut(s)
         /\ r \in AddrReg \cup {REG_PC} => Bank(s, r) \notin DataReg
  BY DEF Named, DataReg, AddrReg, RegisterType, Bank, BankedOut, REG_PC, REG_A7,
         REG_USP, REG_SSP

(* Reading a register gives a number.                                      *)
LEMMA GetInt ==
  ASSUME NEW s \in Machine, NEW r \in Named, NEW size \in DataSize
  PROVE  get(s, r, size) \in Nat
<1>1. s.reg[Bank(s, r)] \in LongVal
  BY BankSeparate DEF Machine
<1>2. s.reg[Bank(s, r)] \in Int
  BY <1>1, Positive DEF LongVal
<1>3. s.reg[Bank(s, r)] % Modulus(size) \in 0 .. Modulus(size) - 1
  BY <1>2, ModulusDivides, ModRange
<1> QED
  BY <1>3, ModulusDivides DEF get, MASK

(* Writing a register changes that one register.                           *)
LEMMA SetFacts ==
  ASSUME NEW s \in Machine, NEW r \in Named, NEW size \in DataSize, NEW data \in Int
  PROVE  /\ set(s, r, size, data) \in Machine
         /\ set(s, r, size, data).mem = s.mem
         /\ set(s, r, size, data).ccr = s.ccr
         /\ set(s, r, size, data).sup = s.sup
         /\ set(s, r, size, data).exc = s.exc
         /\ \A q \in RegisterType :
              q # Bank(s, r) => set(s, r, size, data).reg[q] = s.reg[q]
<1> DEFINE b == Bank(s, r)
           v == Merge(s.reg[b], size, data)
<1>1. b \in RegisterType
  BY BankSeparate
<1>2. s.reg \in [RegisterType -> LongVal]
  BY DEF Machine
<1>3. v \in LongVal
  BY <1>1, <1>2, MergeRange
<1>4. set(s, r, size, data) = IF Ok(s) THEN [s EXCEPT !.reg = [s.reg EXCEPT ![b] = v]] ELSE s
  BY DEF set
<1> HIDE DEF b, v
<1>5. [s.reg EXCEPT ![b] = v] \in [RegisterType -> LongVal]
  BY <1>1, <1>2, <1>3
<1>6. \A q \in RegisterType : q # b => [s.reg EXCEPT ![b] = v][q] = s.reg[q]
  BY <1>1, <1>2
<1>7. CASE Ok(s)
  BY <1>4, <1>5, <1>6, <1>7 DEF Machine, b
<1>8. CASE ~Ok(s)
  BY <1>4, <1>8
<1> QED
  BY <1>7, <1>8
-----------------------------------------------------------------------------
(* Doing nothing is quiet.                                                 *)
LEMMA QuietRefl ==
  ASSUME NEW s \in Machine
  PROVE  Quiet(s, s)
  BY DEF Quiet

(* Two quiet steps in a row are one.                                       *)
LEMMA QuietTrans ==
  ASSUME NEW s \in Machine, NEW t, NEW u, Quiet(s, t), Quiet(t, u)
  PROVE  Quiet(s, u)
  BY DEF Quiet, BankedOut

(* An access that only reads is safe.                                      *)
LEMMA QuietIsSafe ==
  ASSUME NEW s \in Machine, NEW t, Quiet(s, t)
  PROVE  Safe(s, t)
  BY DEF Quiet, Safe

(* Reading first and then writing is safe if the write is.                 *)
LEMMA QuietSafe ==
  ASSUME NEW s \in Machine, NEW t, NEW u, Quiet(s, t), Safe(t, u)
  PROVE  Safe(s, u)
  BY DEF Quiet, Safe, BankedOut

(* Moving an address register or the program counter is quiet.             *)
LEMMA QuietSet ==
  ASSUME NEW s \in Machine, NEW t, Quiet(s, t), NEW r \in AddrReg \cup {REG_PC},
         NEW size \in DataSize, NEW data \in Int
  PROVE  Quiet(s, set(t, r, size, data))
<1>1. t \in Machine /\ r \in Named
  BY DEF Quiet, Named
<1>2. Bank(t, r) \in RegisterType /\ Bank(t, r) # BankedOut(t) /\ Bank(t, r) \notin DataReg
  BY <1>1, BankSeparate
<1>3. BankedOut(t) = BankedOut(s) /\ BankedOut(s) \in RegisterType
  BY DEF Quiet, BankedOut, RegisterType, REG_USP, REG_SSP
<1>4. \A d \in DataReg : d \in RegisterType
  BY DEF DataReg, RegisterType
<1> QED
  BY <1>1, <1>2, <1>3, <1>4, SetFacts DEF Quiet

(* No write of a register throws, so writing one more stays safe.          *)
LEMMA SafeSet ==
  ASSUME NEW s \in Machine, NEW t, Safe(s, t), NEW r \in Named,
         NEW size \in DataSize, NEW data \in Int
  PROVE  Safe(s, set(t, r, size, data))
<1>1. t \in Machine
  BY DEF Safe
<1>2. Bank(t, r) \in RegisterType /\ Bank(t, r) # BankedOut(t)
  BY <1>1, BankSeparate
<1>3. BankedOut(t) = BankedOut(s) /\ BankedOut(s) \in RegisterType
  BY DEF Safe, BankedOut, RegisterType, REG_USP, REG_SSP
<1>4. CASE Ok(t)
  BY <1>1, <1>2, <1>3, <1>4, SetFacts DEF Safe, Ok
<1>5. CASE ~Ok(t)
  <2>1. set(t, r, size, data) = t
    BY <1>5 DEF set
  <2> QED
    BY <2>1
<1> QED
  BY <1>4, <1>5

(* The same for the condition codes.                                       *)
LEMMA SafeFlags ==
  ASSUME NEW s \in Machine, NEW t, Safe(s, t), NEW ccr \in CCR
  PROVE  Safe(s, SetFlags(t, ccr))
<1>1. t \in Machine
  BY DEF Safe
<1>2. CASE Ok(t)
  <2>1. SetFlags(t, ccr) = [t EXCEPT !.ccr = ccr]
    BY <1>2 DEF SetFlags
  <2>2. /\ [t EXCEPT !.ccr = ccr] \in Machine
        /\ [t EXCEPT !.ccr = ccr].reg = t.reg
        /\ [t EXCEPT !.ccr = ccr].sup = t.sup
        /\ [t EXCEPT !.ccr = ccr].exc = t.exc
    BY <1>1 DEF Machine
  <2> QED
    BY <1>2, <2>1, <2>2 DEF Safe, Ok
<1>3. CASE ~Ok(t)
  BY <1>3 DEF SetFlags
<1> QED
  BY <1>2, <1>3

(* Throwing is quiet.                                                      *)
LEMMA QuietThrow ==
  ASSUME NEW s \in Machine, NEW e \in Exceptions
  PROVE  Quiet(s, Throw(s, e))
<1>1. /\ [s EXCEPT !.exc = e] \in Machine
      /\ [s EXCEPT !.exc = e].reg = s.reg
      /\ [s EXCEPT !.exc = e].mem = s.mem
      /\ [s EXCEPT !.exc = e].ccr = s.ccr
      /\ [s EXCEPT !.exc = e].sup = s.sup
  BY DEF Machine
<1>2. CASE Ok(s)
  BY <1>1, <1>2 DEF Throw, Quiet
<1>3. CASE ~Ok(s)
  BY <1>3, QuietRefl DEF Throw
<1> QED
  BY <1>2, <1>3
-----------------------------------------------------------------------------
(* An access either throws or stays inside the memory.                     *)
LEMMA AccessInside ==
  ASSUME NEW address \in Int, NEW size \in DataSize
  PROVE  /\ AccessError(address, size) \in Exceptions \cup {"none"}
         /\ AccessError(address, size) = "none" =>
              /\ MASK_ADDR(address) \in Address
              /\ MASK_ADDR(address) + size <= MemSize
<1>1. MASK_ADDR(address) \in Nat
  BY ModRange, Positive DEF MASK_ADDR
<1> QED
  BY <1>1, MemSizeAssumption, Positive
  DEF AccessError, Exceptions, Address, DataSize, SIZE_BYTE, SIZE_WORD, SIZE_LONG

(* A read in range gives a number, below Word if it reads a word.          *)
LEMMA ReadRange ==
  ASSUME NEW m \in [Address -> ByteVal], NEW a \in Address, NEW size \in DataSize,
         a + size <= MemSize
  PROVE  /\ read_real_mem(m, a, size) \in Nat
         /\ size = SIZE_WORD => read_real_mem(m, a, size) \in WordVal
<1>1. MemSize \in Nat /\ Byte \in Nat \ {0}
  BY MemSizeAssumption, Positive
<1>2. \A k \in 0 .. size - 1 : a + k \in Address /\ m[a + k] \in ByteVal
  BY <1>1 DEF Address, DataSize, SIZE_BYTE, SIZE_WORD, SIZE_LONG
<1>3. \A x, y, b \in Nat : x * b + y \in Nat
  OBVIOUS
<1>4. ByteVal \subseteq Nat
  BY <1>1 DEF ByteVal
<1>5. CASE size = SIZE_BYTE
  <2>1. m[a] \in ByteVal
    OBVIOUS
  <2>2. read_real_mem(m, a, size) = m[a]
    BY <1>5 DEF read_real_mem
  <2>3. size # SIZE_WORD
    BY <1>5 DEF SIZE_BYTE, SIZE_WORD
  <2>4. read_real_mem(m, a, size) \in Nat
    BY <1>4, <2>1, <2>2
  <2> QED
    BY <2>3, <2>4
<1>6. CASE size = SIZE_WORD
  <2>1. m[a] \in ByteVal /\ m[a + 1] \in ByteVal
    BY <1>2, <1>6 DEF SIZE_WORD
  <2>2. read_real_mem(m, a, size) = m[a] * Byte + m[a + 1]
    BY <1>6 DEF read_real_mem, SIZE_BYTE, SIZE_WORD
  <2>3. \A b \in Nat \ {0} : \A x, y \in 0 .. b - 1 : x * b + y \in 0 .. b * b - 1
    <3> SUFFICES ASSUME NEW b \in Nat \ {0}, NEW x \in 0 .. b - 1, NEW y \in 0 .. b - 1
                 PROVE  x * b + y \in 0 .. b * b - 1
      OBVIOUS
    <3>1. x * b <= (b - 1) * b
      OBVIOUS
    <3>2. (b - 1) * b = b * b - b
      OBVIOUS
    <3>3. x * b \in Nat /\ b * b \in Nat
      OBVIOUS
    <3> QED
      BY <3>1, <3>2, <3>3
  <2> QED
    BY <1>1, <1>3, <1>4, <2>1, <2>2, <2>3 DEF ByteVal, WordVal, Word
<1>7. CASE size = SIZE_LONG
  <2>1. m[a] \in Nat /\ m[a + 1] \in Nat /\ m[a + 2] \in Nat /\ m[a + 3] \in Nat
    <3>1. a + 1 \in Address /\ a + 2 \in Address /\ a + 3 \in Address
      BY <1>1, <1>7 DEF Address, SIZE_LONG
    <3> QED
      BY <3>1, <1>4
  <2>2. read_real_mem(m, a, size) =
          ((m[a] * Byte + m[a + 1]) * Byte + m[a + 2]) * Byte + m[a + 3]
    BY <1>7 DEF read_real_mem, SIZE_BYTE, SIZE_WORD, SIZE_LONG
  <2>3. m[a] * Byte + m[a + 1] \in Nat
    BY <1>1, <1>3, <2>1
  <2>4. (m[a] * Byte + m[a + 1]) * Byte + m[a + 2] \in Nat
    BY <1>1, <1>3, <2>1, <2>3
  <2>5. ((m[a] * Byte + m[a + 1]) * Byte + m[a + 2]) * Byte + m[a + 3] \in Nat
    BY <1>1, <1>3, <2>1, <2>4
  <2> QED
    BY <1>7, <2>2, <2>5 DEF SIZE_WORD, SIZE_LONG
<1> QED
  BY <1>5, <1>6, <1>7 DEF DataSize

(* A read of memory changes nothing but the exception.                     *)
LEMMA MemGetReads ==
  ASSUME NEW s \in Machine, NEW address \in Int, NEW size \in DataSize
  PROVE  /\ Reads(s, MemGet(s, address, size))
         /\ size = SIZE_WORD => MemGet(s, address, size).val \in WordVal
<1> DEFINE e == AccessError(address, size)
<1>1. 0 \in WordVal /\ 0 \in Int
  BY Positive DEF WordVal
<1>2. CASE ~Ok(s)
  <2>1. MemGet(s, address, size) = Result(s, 0)
    BY <1>2 DEF MemGet
  <2> QED
    BY <1>1, <2>1, QuietRefl DEF Reads, Result
<1>3. CASE Ok(s) /\ e # "none"
  <2>1. MemGet(s, address, size) = Result(Throw(s, e), 0)
    BY <1>3 DEF MemGet
  <2>2. e \in Exceptions
    BY <1>3, AccessInside
  <2> QED
    BY <1>1, <2>1, <2>2, QuietThrow DEF Reads, Result
<1>4. CASE Ok(s) /\ e = "none"
  <2>1. MemGet(s, address, size) = Result(s, read_real_mem(s.mem, MASK_ADDR(address), size))
    BY <1>4 DEF MemGet
  <2>2. MASK_ADDR(address) \in Address /\ MASK_ADDR(address) + size <= MemSize
    BY <1>4, AccessInside
  <2>3. s.mem \in [Address -> ByteVal]
    BY DEF Machine
  <2>4. /\ read_real_mem(s.mem, MASK_ADDR(address), size) \in Nat
        /\ size = SIZE_WORD => read_real_mem(s.mem, MASK_ADDR(address), size) \in WordVal
    BY <2>2, <2>3, ReadRange
  <2> QED
    BY <2>1, <2>4, QuietRefl DEF Reads, Result
<1> QED
  BY <1>2, <1>3, <1>4

(* Bytes are bytes.                                                        *)
LEMMA ByteOfRange ==
  ASSUME NEW v \in Int, NEW k \in Int
  PROVE  ByteOf(v, k) \in ByteVal
<1> DEFINE unit == IF k = 0 THEN 1 ELSE IF k = 1 THEN Byte
                   ELSE IF k = 2 THEN Word ELSE AddrSpace
<1>1. unit \in Nat \ {0}
  BY Positive
<1>2. ByteOf(v, k) = (v \div unit) % Byte
  BY DEF ByteOf
<1>3. \A x \in Int, y \in Nat \ {0} : x \div y \in Int
  OBVIOUS
<1> HIDE DEF unit
<1> QED
  BY <1>1, <1>2, <1>3, ModRange, Positive DEF ByteVal

(* A write of memory checks before it writes.                              *)
LEMMA MemSetSafe ==
  ASSUME NEW s \in Machine, NEW address \in Int, NEW size \in DataSize, NEW data \in Int
  PROVE  Safe(s, MemSet(s, address, size, data))
<1> DEFINE e == AccessError(address, size)
           m == write_real_mem(s.mem, MASK_ADDR(address), size, data)
<1>1. CASE ~Ok(s)
  BY <1>1, QuietRefl, QuietIsSafe DEF MemSet
<1>2. CASE Ok(s) /\ e # "none"
  <2>1. MemSet(s, address, size, data) = Throw(s, e)
    BY <1>2 DEF MemSet
  <2>2. e \in Exceptions
    BY <1>2, AccessInside
  <2> QED
    BY <2>1, <2>2, QuietThrow, QuietIsSafe
<1>3. CASE Ok(s) /\ e = "none"
  <2>1. MemSet(s, address, size, data) = [s EXCEPT !.mem = m]
    BY <1>3 DEF MemSet
  <2>2. s.mem \in [Address -> ByteVal]
    BY DEF Machine
  <2>3. \A b \in Address : MASK_ADDR(address) + size - 1 - b \in Int
    BY <1>3, AccessInside, MemSizeAssumption
    DEF Address, DataSize, SIZE_BYTE, SIZE_WORD, SIZE_LONG
  <2>4. m \in [Address -> ByteVal]
    BY <2>2, <2>3, ByteOfRange DEF write_real_mem
  <2> HIDE DEF m
  <2>5. /\ [s EXCEPT !.mem = m] \in Machine
        /\ [s EXCEPT !.mem = m].reg = s.reg
        /\ [s EXCEPT !.mem = m].sup = s.sup
        /\ [s EXCEPT !.mem = m].exc = s.exc
    BY <2>4 DEF Machine
  <2> QED
    BY <1>3, <2>1, <2>5 DEF Safe, Ok
<1> QED
  BY <1>1, <1>2, <1>3
-----------------------------------------------------------------------------
(* The program counter is a number.                                        *)
LEMMA PCInt ==
  ASSUME NEW s \in Machine
  PROVE  PC(s) \in Int
  BY GetInt DEF PC, Named, DataSize

(* Moving the program counter is quiet.                                    *)
LEMMA QuietPC ==
  ASSUME NEW s \in Machine, NEW t, Quiet(s, t), NEW data \in Int
  PROVE  Quiet(s, SetPC(t, data))
  BY QuietSet DEF SetPC, DataSize

(* Moving it after a safe write is safe.                                   *)
LEMMA SafePC ==
  ASSUME NEW s \in Machine, NEW t, Safe(s, t), NEW data \in Int
  PROVE  Safe(s, SetPC(t, data))
  BY SafeSet DEF SetPC, DataSize, Named

(* Masking and sign extension give numbers.                                *)
LEMMA MaskInt ==
  ASSUME NEW v \in Int, NEW size \in DataSize
  PROVE  /\ MASK(v, size) \in Int
         /\ SignExtend(v, size) \in Int
         /\ Signed(v, size) \in Int
<1> DEFINE m == v % Modulus(size)
           n == Modulus(size)
<1>1. n \in Nat \ {0}
  BY ModulusDivides
<1>2. m \in Int
  BY <1>1, ModRange
<1>3. MASK(v, size) = m
  BY DEF MASK
<1> HIDE DEF m, n
<1>4. m - n \in Int /\ m - 0 \in Int
  BY <1>1, <1>2
<1>5. Signed(v, size) = m - (IF IS_NEGATIVE(v, size) THEN n ELSE 0)
  BY <1>3 DEF Signed, n
<1>6. Signed(v, size) \in Int
  BY <1>4, <1>5
<1>7. SignExtend(v, size) \in Int
  BY <1>6, Positive, ModRange DEF SignExtend
<1> QED
  BY <1>2, <1>3, <1>6, <1>7

(* Extensions have the size of a word or a long, or are missing.           *)
LEMMA ExtensionRange ==
  ASSUME NEW mode \in AddressingMode, NEW size \in DataSize
  PROVE  ExtensionSize(mode, size) \in {0} \cup {SIZE_WORD, SIZE_LONG}
  BY DEF ExtensionSize

(* Reading the extension is quiet.                                         *)
LEMMA PeekReads ==
  ASSUME NEW s \in Machine, NEW n \in {0} \cup DataSize
  PROVE  Reads(s, Peek(s, n))
<1>1. CASE n = 0
  BY <1>1, QuietRefl DEF Peek, Reads, Result
<1>2. CASE n # 0
  <2>1. Peek(s, n) = MemGet(s, PC(s), n)
    BY <1>2 DEF Peek
  <2> QED
    BY <1>2, <2>1, PCInt, MemGetReads
<1> QED
  BY <1>1, <1>2

(* So is consuming it.                                                     *)
LEMMA FetchReads ==
  ASSUME NEW s \in Machine, NEW n \in {0} \cup DataSize
  PROVE  Reads(s, Fetch(s, n))
<1>1. Reads(s, Peek(s, n))
  BY PeekReads
<1>2. CASE n = 0
  BY <1>1, <1>2 DEF Fetch, Consume
<1>3. CASE n # 0
  <2>1. Fetch(s, n) = Result(SetPC(Peek(s, n).st, PC(s) + n), Peek(s, n).val)
    BY <1>3 DEF Fetch, Consume
  <2>2. PC(s) + n \in Int
    BY PCInt DEF DataSize, SIZE_BYTE, SIZE_WORD, SIZE_LONG
  <2>3. Quiet(s, SetPC(Peek(s, n).st, PC(s) + n))
    BY <1>1, <2>2, QuietPC DEF Reads
  <2> QED
    BY <1>1, <2>1, <2>3 DEF Reads, Result
<1> QED
  BY <1>2, <1>3

(* The step of a pointer register is a number.                             *)
LEMMA StrideInt ==
  ASSUME NEW r, NEW size \in DataSize
  PROVE  Stride(r, size) \in Int
  BY DEF Stride, DataSize, SIZE_BYTE, SIZE_WORD, SIZE_LONG

(* An index register and its displacement add up to a number.              *)
LEMMA IndexOffsetInt ==
  ASSUME NEW s \in Machine, NEW ext \in Int
  PROVE  IndexOffset(s, ext) \in Int
<1> DEFINE k == (ext \div Byte) % Byte
           f == IndexField[k]
<1>1. \A x \in Int, y \in Nat \ {0} : x \div y \in Int
  OBVIOUS
<1>2. ext \div Byte \in Int
  BY <1>1, Positive
<1>3. k \in ByteVal
  BY <1>2, ModRange, Positive DEF ByteVal
<1>4. f.reg \in 0 .. 15 /\ f.size \in DataSize
  BY <1>3, IndexFieldAssumption DEF DataSize
<1>5. f.reg \in Named
  BY <1>4 DEF Named, DataReg, AddrReg
<1> HIDE DEF f, k
<1>6. get(s, f.reg, f.size) \in Int
  BY <1>4, <1>5, GetInt
<1>7. SignExtend(get(s, f.reg, f.size), f.size) \in Int
  BY <1>4, <1>6, MaskInt
<1>8. SignExtend(ext, SIZE_BYTE) \in Int
  BY MaskInt DEF DataSize
<1> QED
  BY <1>7, <1>8 DEF IndexOffset, f, k

(* Every operand address is a number.                                      *)
LEMMA AddressInt ==
  ASSUME NEW s \in Machine, NEW mode, NEW r \in 0 .. 15,
         NEW size \in DataSize, NEW ext \in Int
  PROVE  EffectiveAddress(s, mode, r, size, ext) \in Int
<1>1. get(s, r, SIZE_LONG) \in Int
  BY GetInt DEF Named, DataReg, AddrReg, DataSize
<1>2. /\ PC(s) \in Int
      /\ Stride(r, size) \in Int
      /\ SignExtend(ext, SIZE_WORD) \in Int
      /\ IndexOffset(s, ext) \in Int
  BY PCInt, StrideInt, MaskInt, IndexOffsetInt DEF DataSize
<1>3. Base(s, mode, r) \in Int
  BY <1>1, <1>2 DEF Base
<1>4. Offset(s, mode, r, size, ext) \in Int
  BY <1>2 DEF Offset, PREDECREMENT, DISPLACEMENT, INDEX, PC_DISPLACEMENT, PC_INDEX,
              ABS_WORD, ABS_LONG
<1>5. Base(s, mode, r) + Offset(s, mode, r, size, ext) \in Int
  BY <1>3, <1>4
<1> QED
  BY <1>5, ModRange, Positive DEF EffectiveAddress

(* An operand the constructors let pass.                                   *)
Operands(mode, r, size) ==
  /\ mode \in AddressingMode
  /\ r \in 0 .. 15
  /\ size \in DataSize
  /\ EAFormed(mode, r)

(* Postincrement and predecrement move an address register only.           *)
LEMMA BumpFacts ==
  ASSUME NEW s \in Machine, NEW t, NEW mode, NEW r, NEW size, Operands(mode, r, size),
         NEW a \in Int
  PROVE  /\ Quiet(s, t) => Quiet(s, Bump(t, mode, r, a, size))
         /\ Safe(s, t) => Safe(s, Bump(t, mode, r, a, size))
<1>1. a + Stride(r, size) \in Int
  BY StrideInt DEF Operands
<1>2. SIZE_LONG \in DataSize
  BY DEF DataSize
<1>3. mode \in {POSTINCREMENT, PREDECREMENT} => r \in AddrReg
  BY DEF Operands, EAFormed
<1>4. CASE mode = POSTINCREMENT
  <2>1. Bump(t, mode, r, a, size) = set(t, r, SIZE_LONG, a + Stride(r, size))
    BY <1>4 DEF Bump, POSTINCREMENT, PREDECREMENT
  <2>2. r \in Named /\ r \in AddrReg \cup {REG_PC}
    BY <1>3, <1>4 DEF Named
  <2> QED
    BY <1>1, <1>2, <2>1, <2>2, QuietSet, SafeSet
<1>5. CASE mode = PREDECREMENT
  <2>1. Bump(t, mode, r, a, size) = set(t, r, SIZE_LONG, a)
    BY <1>5 DEF Bump, POSTINCREMENT, PREDECREMENT
  <2>2. r \in Named /\ r \in AddrReg \cup {REG_PC}
    BY <1>3, <1>5 DEF Named
  <2> QED
    BY <1>2, <2>1, <2>2, QuietSet, SafeSet
<1>6. CASE mode \notin {POSTINCREMENT, PREDECREMENT}
  <2>1. Bump(t, mode, r, a, size) = t
    BY <1>6 DEF Bump
  <2> QED
    BY <2>1
<1> QED
  BY <1>4, <1>5, <1>6
-----------------------------------------------------------------------------
(* A pop reads before it moves the stack pointer.                          *)
LEMMA PopReads ==
  ASSUME NEW s \in Machine, NEW size \in DataSize
  PROVE  Reads(s, stackPop(s, size))
<1> DEFINE sp == get(s, REG_USP, SIZE_LONG)
           g == MemGet(s, sp, size)
<1>1. SIZE_LONG \in DataSize /\ REG_USP \in Named /\ REG_USP \in AddrReg \cup {REG_PC}
  BY DEF DataSize, Named, AddrReg, REG_USP
<1>2. sp \in Int
  BY <1>1, GetInt
<1>3. Reads(s, g)
  BY <1>2, MemGetReads
<1>4. stackPop(s, size) = Result(set(g.st, REG_USP, SIZE_LONG, sp + size), g.val)
  BY DEF stackPop
<1>5. sp + size \in Int
  BY <1>2 DEF DataSize, SIZE_BYTE, SIZE_WORD, SIZE_LONG
<1> HIDE DEF g, sp
<1>6. Quiet(s, set(g.st, REG_USP, SIZE_LONG, sp + size))
  BY <1>1, <1>3, <1>5, QuietSet DEF Reads
<1> QED
  BY <1>3, <1>4, <1>6 DEF Reads, Result

(* A push moves the stack pointer before it writes: if the write throws,   *)
(* only the stack pointer has changed.                                     *)
LEMMA PushSafe ==
  ASSUME NEW s \in Machine, NEW size \in DataSize, NEW data \in Int
  PROVE  Safe(s, stackPush(s, size, data))
<1> DEFINE sp == get(s, REG_USP, SIZE_LONG) - size
           t == set(s, REG_USP, SIZE_LONG, sp)
<1>1. SIZE_LONG \in DataSize /\ REG_USP \in Named /\ REG_USP \in AddrReg \cup {REG_PC}
  BY DEF DataSize, Named, AddrReg, REG_USP
<1>2. get(s, REG_USP, SIZE_LONG) \in Int
  BY <1>1, GetInt
<1>3. sp \in Int
  BY <1>2 DEF DataSize, SIZE_BYTE, SIZE_WORD, SIZE_LONG
<1>4. stackPush(s, size, data) = MemSet(t, MASK(sp, SIZE_LONG), size, data)
  BY DEF stackPush
<1> HIDE DEF sp
<1>5. Quiet(s, t)
  BY <1>1, <1>3, QuietRefl, QuietSet
<1>6. MASK(sp, SIZE_LONG) \in Int
  BY <1>1, <1>3, MaskInt
<1>7. Safe(t, MemSet(t, MASK(sp, SIZE_LONG), size, data))
  BY <1>5, <1>6, MemSetSafe DEF Quiet
<1> QED
  BY <1>4, <1>5, <1>7, QuietSafe
-----------------------------------------------------------------------------
(* Resolving a control address is quiet.                                   *)
LEMMA ControlReads ==
  ASSUME NEW s \in Machine, NEW mode \in AddressingMode, NEW r \in 0 .. 15
  PROVE  Reads(s, getControlAddress(s, mode, r))
<1> DEFINE n == ExtensionSize(mode, SIZE_LONG)
           e == Fetch(s, n)
           t == SetPC(s, PC(s) + n)
           q == MemGet(t, PC(s), n)
           a == EffectiveAddress(s, mode, r, SIZE_LONG, e.val)
<1>1. SIZE_LONG \in DataSize
  BY DEF DataSize
<1>2. n \in {0} \cup DataSize /\ n \in Int
  BY <1>1, ExtensionRange DEF DataSize, SIZE_WORD, SIZE_LONG
<1>3. Reads(s, e)
  BY <1>2, FetchReads
<1> HIDE DEF e
<1>4. a \in Int
  BY <1>1, <1>3, AddressInt DEF Reads
<1> HIDE DEF a
<1>5. CASE mode \in {ABS_WORD, ABS_LONG}
  <2>1. getControlAddress(s, mode, r) = q
    BY <1>5 DEF getControlAddress, ABS_WORD, ABS_LONG, INDIRECT, DISPLACEMENT, INDEX,
                PC_DISPLACEMENT, PC_INDEX
  <2>2. n \in DataSize
    BY <1>5 DEF ExtensionSize, ABS_WORD, ABS_LONG, DISPLACEMENT, INDEX,
                PC_DISPLACEMENT, PC_INDEX, DataSize
  <2> HIDE DEF n
  <2>3. PC(s) \in Int /\ PC(s) + n \in Int
    BY <1>2, PCInt
  <2>4. Quiet(s, t)
    BY <2>3, QuietRefl, QuietPC
  <2>5. t \in Machine
    BY <2>4 DEF Quiet
  <2> HIDE DEF t
  <2>6. Reads(t, q)
    BY <2>2, <2>3, <2>5, MemGetReads
  <2> HIDE DEF q
  <2> QED
    BY <2>1, <2>4, <2>6, QuietTrans DEF Reads
<1>6. CASE mode \in {INDIRECT, DISPLACEMENT, INDEX, PC_DISPLACEMENT, PC_INDEX}
  <2>1. getControlAddress(s, mode, r) = Result(e.st, a)
    BY <1>6 DEF getControlAddress, Resolved, a, e, ABS_WORD, ABS_LONG, INDIRECT,
                DISPLACEMENT, INDEX,
                PC_DISPLACEMENT, PC_INDEX
  <2> QED
    BY <1>3, <1>4, <2>1 DEF Reads, Result
<1>7. CASE mode \notin {ABS_WORD, ABS_LONG, INDIRECT, DISPLACEMENT, INDEX,
                        PC_DISPLACEMENT, PC_INDEX}
  <2>1. getControlAddress(s, mode, r) = Result(s, 0)
    BY <1>7 DEF getControlAddress
  <2> QED
    BY <2>1, QuietRefl DEF Reads, Result
<1> QED
  BY <1>5, <1>6, <1>7

(* Reading a source operand is quiet: it may move address registers and    *)
(* the program counter.                                                    *)
LEMMA GetDataReads ==
  ASSUME NEW s \in Machine, NEW mode, NEW r, NEW size, Operands(mode, r, size)
  PROVE  Reads(s, getData(s, mode, r, size))
<1> DEFINE n == ExtensionSize(mode, size)
           e == Fetch(s, n)
           a == EffectiveAddress(s, mode, r, size, e.val)
           d == MemGet(e.st, a, size)
<1>1. mode \in AddressingMode /\ r \in 0 .. 15 /\ size \in DataSize
  BY DEF Operands
<1>2. n \in {0} \cup DataSize
  BY <1>1, ExtensionRange DEF DataSize
<1>3. Reads(s, e)
  BY <1>2, FetchReads
<1> HIDE DEF e
<1>4. a \in Int
  BY <1>1, <1>3, AddressInt DEF Reads
<1> HIDE DEF a
<1>5. Reads(e.st, d)
  BY <1>1, <1>3, <1>4, MemGetReads DEF Reads, Quiet
<1> HIDE DEF d
<1>6. Quiet(s, d.st) /\ d.val \in Int
  BY <1>3, <1>5, QuietTrans DEF Reads
<1>7. CASE mode \in {DIRECT_DATA, DIRECT_ADDR}
  <2>1. getData(s, mode, r, size) = Result(s, get(s, r, size))
    BY <1>7 DEF getData, getDataWith, Accessed, DIRECT_DATA, DIRECT_ADDR,
                IMMEDIATE, UNKNOWN
  <2>2. get(s, r, size) \in Int
    BY <1>1, GetInt DEF Named, DataReg, AddrReg
  <2> QED
    BY <2>1, <2>2, QuietRefl DEF Reads, Result
<1>8. CASE mode = IMMEDIATE
  <2>1. getData(s, mode, r, size) = Result(e.st, MASK(e.val, size))
    BY <1>8 DEF getData, getDataWith, Accessed, e, DIRECT_DATA, DIRECT_ADDR,
                IMMEDIATE, UNKNOWN
  <2> QED
    BY <1>1, <1>3, <2>1, MaskInt DEF Reads, Result
<1>9. CASE mode = UNKNOWN
  <2>1. getData(s, mode, r, size) = Result(s, 0)
    BY <1>9 DEF getData, getDataWith, Accessed, UNKNOWN, IMMEDIATE, DIRECT_DATA,
                DIRECT_ADDR
  <2> QED
    BY <2>1, QuietRefl DEF Reads, Result
<1>10. CASE mode \notin {DIRECT_DATA, DIRECT_ADDR, IMMEDIATE, UNKNOWN}
  <2>1. getData(s, mode, r, size) = Result(Bump(d.st, mode, r, a, size), d.val)
    BY <1>10 DEF getData, getDataWith, Accessed, Loaded, Bumped, d, a, e
  <2>2. Quiet(s, Bump(d.st, mode, r, a, size))
    BY <1>4, <1>6, BumpFacts
  <2> QED
    BY <1>6, <2>1, <2>2 DEF Reads, Result
<1> QED
  BY <1>7, <1>8, <1>9, <1>10

(* The signed form of an absolute address is a number.                     *)
LEMMA SignedAbsInt ==
  ASSUME NEW mode, NEW ext \in Int
  PROVE  SignedAbs(mode, ext) \in Int
<1>1. SignExtend(ext, SIZE_WORD) \in Int
  BY MaskInt DEF DataSize
<1> QED
  BY <1>1 DEF SignedAbs

(* The silent read of a destination is quiet.                              *)
LEMMA SilentReads ==
  ASSUME NEW s \in Machine, NEW mode, NEW r, NEW size, Operands(mode, r, size)
  PROVE  Reads(s, getDataSilent(s, mode, r, size))
<1> DEFINE n == ExtensionSize(mode, size)
           e == Peek(s, n)
           a == EffectiveAddress(s, mode, r, size, SignedAbs(mode, e.val))
           d == MemGet(e.st, a, size)
<1>1. mode \in AddressingMode /\ r \in 0 .. 15 /\ size \in DataSize
  BY DEF Operands
<1>2. n \in {0} \cup DataSize
  BY <1>1, ExtensionRange DEF DataSize
<1>3. Reads(s, e)
  BY <1>2, PeekReads
<1> HIDE DEF e
<1>4. a \in Int
  BY <1>1, <1>3, AddressInt, SignedAbsInt DEF Reads
<1> HIDE DEF a
<1>5. Reads(e.st, d)
  BY <1>1, <1>3, <1>4, MemGetReads DEF Reads, Quiet
<1> HIDE DEF d
<1>6. Reads(s, d)
  BY <1>3, <1>5, QuietTrans DEF Reads
<1>7. CASE mode \in {DIRECT_DATA, DIRECT_ADDR}
  <2>1. getDataSilent(s, mode, r, size) = Result(s, get(s, r, size))
    BY <1>7 DEF getDataSilent, getDataSilentWith, Accessed, DIRECT_DATA,
                DIRECT_ADDR, IMMEDIATE, UNKNOWN
  <2>2. get(s, r, size) \in Int
    BY <1>1, GetInt DEF Named, DataReg, AddrReg
  <2> QED
    BY <2>1, <2>2, QuietRefl DEF Reads, Result
<1>8. CASE mode = IMMEDIATE
  <2>1. getDataSilent(s, mode, r, size) = Result(e.st, MASK(e.val, size))
    BY <1>8 DEF getDataSilent, getDataSilentWith, Accessed, e, DIRECT_DATA,
                DIRECT_ADDR, IMMEDIATE, UNKNOWN
  <2> QED
    BY <1>1, <1>3, <2>1, MaskInt DEF Reads, Result
<1>9. CASE mode = UNKNOWN
  <2>1. getDataSilent(s, mode, r, size) = Result(s, 0)
    BY <1>9 DEF getDataSilent, getDataSilentWith, Accessed, UNKNOWN, IMMEDIATE,
                DIRECT_DATA, DIRECT_ADDR
  <2> QED
    BY <2>1, QuietRefl DEF Reads, Result
<1>10. CASE mode \notin {DIRECT_DATA, DIRECT_ADDR, IMMEDIATE, UNKNOWN}
  <2>1. getDataSilent(s, mode, r, size) = d
    BY <1>10 DEF getDataSilent, getDataSilentWith, Accessed, SignedAddress, d, a, e
  <2> QED
    BY <1>6, <2>1
<1> QED
  BY <1>7, <1>8, <1>9, <1>10

(* Writing a destination is safe: the memory access is the last thing that *)
(* can throw, and nothing but pointer registers changed before it.         *)
LEMMA SetDataSafe ==
  ASSUME NEW s \in Machine, NEW mode, NEW r, NEW size, Operands(mode, r, size),
         NEW data \in Int
  PROVE  Safe(s, setData(s, mode, r, size, data))
<1> DEFINE n == ExtensionSize(mode, size)
           p == Peek(s, n)
           e == Fetch(s, n)
           a == EffectiveAddress(s, mode, r, size, SignedAbs(mode, p.val))
<1>1. mode \in AddressingMode /\ r \in 0 .. 15 /\ size \in DataSize
  BY DEF Operands
<1>2. n \in {0} \cup DataSize /\ n \in Int
  BY <1>1, ExtensionRange DEF DataSize, SIZE_WORD, SIZE_LONG
<1>3. Reads(s, p) /\ Reads(s, e)
  BY <1>2, PeekReads, FetchReads
<1> HIDE DEF p, e
<1>4. a \in Int
  BY <1>1, <1>3, AddressInt, SignedAbsInt DEF Reads
<1> HIDE DEF a
<1>5. CASE mode \in {DIRECT_DATA, DIRECT_ADDR}
  <2>1. setData(s, mode, r, size, data) = set(s, r, size, data)
    BY <1>5 DEF setData, setDataWith, StoreAt, PC_DISPLACEMENT, PC_INDEX,
                IMMEDIATE, UNKNOWN, DIRECT_DATA,
                DIRECT_ADDR, ABS_WORD
  <2>2. Safe(s, s) /\ r \in Named
    BY <1>1, QuietRefl, QuietIsSafe DEF Named, DataReg, AddrReg
  <2> QED
    BY <1>1, <2>1, <2>2, SafeSet
<1>6. CASE mode \in {PC_DISPLACEMENT, PC_INDEX, IMMEDIATE, UNKNOWN}
  <2>1. setData(s, mode, r, size, data) = s
    BY <1>6 DEF setData, setDataWith, StoreAt, PC_DISPLACEMENT, PC_INDEX,
                IMMEDIATE, UNKNOWN, DIRECT_DATA,
                DIRECT_ADDR, ABS_WORD
  <2> QED
    BY <2>1, QuietRefl, QuietIsSafe
<1>7. CASE mode = ABS_WORD
  <2>1. setData(s, mode, r, size, data) = SetPC(MemSet(p.st, a, size, data), PC(s) + n)
    BY <1>7 DEF setData, setDataWith, StoreAt, SignedAddress, a, p,
                PC_DISPLACEMENT, PC_INDEX, IMMEDIATE, UNKNOWN,
                DIRECT_DATA, DIRECT_ADDR, ABS_WORD
  <2>2. Safe(p.st, MemSet(p.st, a, size, data))
    BY <1>1, <1>3, <1>4, MemSetSafe DEF Reads, Quiet
  <2>3. Safe(s, MemSet(p.st, a, size, data))
    BY <1>3, <2>2, QuietSafe DEF Reads
  <2>4. PC(s) + n \in Int
    BY <1>2, PCInt
  <2> QED
    BY <2>1, <2>3, <2>4, SafePC
<1>8. CASE mode \notin {DIRECT_DATA, DIRECT_ADDR, PC_DISPLACEMENT, PC_INDEX, IMMEDIATE,
                        UNKNOWN, ABS_WORD}
  <2>1. setData(s, mode, r, size, data) = Bump(MemSet(e.st, a, size, data), mode, r, a, size)
    BY <1>8 DEF setData, setDataWith, StoreAt, SignedAddress, Fetch, a, e, p
  <2>2. Safe(e.st, MemSet(e.st, a, size, data))
    BY <1>1, <1>3, <1>4, MemSetSafe DEF Reads, Quiet
  <2>3. Safe(s, MemSet(e.st, a, size, data))
    BY <1>3, <2>2, QuietSafe DEF Reads
  <2> QED
    BY <1>4, <2>1, <2>3, BumpFacts
<1> QED
  BY <1>5, <1>6, <1>7, <1>8
=============================================================================
