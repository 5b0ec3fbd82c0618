------------------------------ MODULE Programs ------------------------------
(***************************************************************************)
(* What two instructions in a row compute.  The host steps a program until *)
(* the first exception, as the test programs do (test/test_fibonacci.cpp,  *)
(* test/test_bubblesort.cpp); start is the machine the program began in    *)
(* and trace the instructions it has executed since.                       *)
(***************************************************************************)
EXTENDS CPU, Sequences

VARIABLES start, trace

programVars == <<cpu, start, trace>>

ProgramsInit == Init /\ start = cpu /\ trace = <<>>

(* The host does not catch what step() throws.                             *)
HostGoesOn == Ok(cpu)

ProgramsNext ==
  /\ HostGoesOn
  /\ Step
  /\ trace' = IF Ok(cpu') THEN Append(trace, Decoded) ELSE trace
  /\ UNCHANGED start

ProgramsSpec == ProgramsInit /\ [][ProgramsNext]_programVars
-----------------------------------------------------------------------------
First2(P(_, _)) == Len(trace) = 2 /\ Ok(cpu) /\ P(trace[1], trace[2])

BetweenDataRegisters(i) == i.src_mode = DIRECT_DATA /\ i.dest_mode = DIRECT_DATA

(***************************************************************************)
(* Arithmetic on numbers of two limbs: add or sub on the low limbs, addx   *)
(* or subx on the high ones.                                               *)
(***************************************************************************)
LimbPair(i, j) ==
  /\ <<i.class, j.class>> \in {<<"Add", "Addx">>, <<"Sub", "Subx">>}
  /\ BetweenDataRegisters(i) /\ BetweenDataRegisters(j)
  /\ i.data_size = j.data_size
  /\ i.dest_reg \notin {j.src_reg, j.dest_reg}

Wide(s, low, high, size) == get(s, high, size) * Modulus(size) + get(s, low, size)

(* The result, the carry out, zero and sign are those of the whole number. *)
ExactInLimbs(i, j) ==
  LET size   == i.data_size
      range  == Modulus(size) * Modulus(size)
      src    == Wide(start, i.src_reg, j.src_reg, size)
      dest   == Wide(start, i.dest_reg, j.dest_reg, size)
      exact  == IF i.class = "Add" THEN dest + src ELSE dest - src
      result == Wide(cpu, i.dest_reg, j.dest_reg, size)
  IN  /\ result = exact % range
      /\ cpu.ccr.X = (exact # result)
      /\ cpu.ccr.C = (exact # result)
      /\ cpu.ccr.Z = (result = 0)
      /\ cpu.ccr.N = (2 * result >= range)

(***************************************************************************)
(* Numbers of two bytes or two words: the extend flag carries between the  *)
(* limbs (add.cpp, sub.cpp to addx.cpp, subx.cpp), and the zero flag, which*)
(* addx and subx only clear, describes the whole number.  Not for longs:   *)
(* their sum is computed in 32 bits, and its carry is lost.                *)
(***************************************************************************)
WideArithmetic ==
  First2(LAMBDA i, j : LimbPair(i, j) /\ i.data_size # SIZE_LONG) =>
    ExactInLimbs(trace[1], trace[2])

(***************************************************************************)
(* A division, then the multiplication of its quotient by the divisor.     *)
(***************************************************************************)
DivisionUndone(i, j) ==
  /\ i.class = "Div" /\ j.class = "Mul" /\ i.kind = j.kind
  /\ i.data_size = SIZE_WORD /\ j.data_size = SIZE_WORD
  /\ BetweenDataRegisters(i) /\ BetweenDataRegisters(j)
  /\ i.src_reg = j.src_reg /\ i.dest_reg = j.dest_reg /\ i.src_reg # i.dest_reg

Magnitude(x) == IF x < 0 THEN -x ELSE x

(* What a value stands for to the signed or the unsigned kind of i.        *)
Number(i, v, size) == IF i.kind = 1 THEN Signed(v, size) ELSE v

(* p is n without the rest of its truncated division by m.                 *)
MultipleBelow(p, n, m) ==
  /\ p % Magnitude(m) = 0
  /\ Magnitude(n - p) < Magnitude(m)
  /\ Magnitude(p) <= Magnitude(n)

(* The signed quotient that no word can hold.                              *)
QuotientOverflows(i, n, m) == i.kind = 1 /\ 2 * n = -Word /\ m = -1

(***************************************************************************)
(* mul finds the quotient where div left it, as a word of the same kind    *)
(* (div.cpp to mul.cpp): the product is the dividend but for a rest that   *)
(* is smaller than the divisor, of the dividend's sign, over two truncating*)
(* casts and a register that also holds the remainder.  Not for a zero     *)
(* divisor, nor for a quotient that does not fit.                          *)
(***************************************************************************)
QuotientTimesDivisor ==
  First2(DivisionUndone) =>
    LET i == trace[1]
        n == Number(i, get(start, i.dest_reg, SIZE_WORD), SIZE_WORD)
        m == Number(i, get(start, i.src_reg, SIZE_WORD), SIZE_WORD)
        p == Number(i, get(cpu, i.dest_reg, SIZE_LONG), SIZE_LONG)
    IN  (m # 0 /\ ~QuotientOverflows(i, n, m)) => MultipleBelow(p, n, m)

(***************************************************************************)
(* A comparison, then a byte set on a condition.                           *)
(***************************************************************************)
CompareAndSet(i, j) ==
  /\ i.class = "Cmp" /\ BetweenDataRegisters(i)
  /\ j.class = "Scc" /\ j.dest_mode = DIRECT_DATA

IsSet(j) == get(cpu, j.dest_reg, SIZE_BYTE) = Byte - 1

(* What the condition means for the operands, as unsigned numbers.         *)
UnsignedRelation(cond, a, b) ==
  CASE cond = 2 -> a > b   [] cond = 3 -> a <= b
    [] cond = 4 -> a >= b  [] cond = 5 -> a < b
    [] cond = 6 -> a # b   [] cond = 7 -> a = b

(* What the condition means for the operands, as signed numbers.           *)
SignedRelation(cond, a, b) ==
  CASE cond = 12 -> a >= b  [] cond = 13 -> a < b
    [] cond = 14 -> a > b   [] cond = 15 -> a <= b

(***************************************************************************)
(* After cmp.b and cmp.w the conditions hi, ls, cc, cs, ne and eq order    *)
(* the operands as unsigned numbers (cmp.cpp, checkCondition).             *)
(***************************************************************************)
UnsignedOrder ==
  First2(LAMBDA i, j : /\ CompareAndSet(i, j)
                       /\ j.kind \in 2 .. 7 /\ i.data_size # SIZE_LONG) =>
    LET i == trace[1]
        j == trace[2]
    IN  IsSet(j) = UnsignedRelation(j.kind, get(start, i.dest_reg, i.data_size),
                                            get(start, i.src_reg, i.data_size))

(***************************************************************************)
(* The conditions ge, lt, gt and le order the operands as signed numbers:  *)
(* the bubblesort program sorts an array of int with them, and its test    *)
(* expects "last_data <= data" (test/test_bubblesort.cpp).                 *)
(***************************************************************************)
SignedOrder ==
  First2(LAMBDA i, j : CompareAndSet(i, j) /\ j.kind \in 12 .. 15) =>
    LET i == trace[1]
        j == trace[2]
    IN  IsSet(j) = SignedRelation(j.kind,
                     Signed(get(start, i.dest_reg, i.data_size), i.data_size),
                     Signed(get(start, i.src_reg, i.data_size), i.data_size))

(***************************************************************************)
(* A store through an addressing mode, then a load through the same one,   *)
(* with the same extension words; or a push and a pop, either way up.      *)
(***************************************************************************)
Back(mode) ==
  IF mode = PREDECREMENT THEN POSTINCREMENT
  ELSE IF mode = POSTINCREMENT THEN PREDECREMENT ELSE mode

(* The extension of i, as it stands in mem k bytes behind the first opcode.*)
ExtensionAt(mem, k, i) ==
  LET n == ExtensionSize(i.dest_mode, i.data_size)
  IN  IF n = 0 THEN 0 ELSE read_real_mem(mem, MASK_ADDR(PC(start) + k), n)

StoreAndLoad(i, j) ==
  LET stored == ExtensionAt(start.mem, SIZE_WORD, i)
      loaded == ExtensionAt(cpu.mem, Length(i) + SIZE_WORD, i)
  IN  /\ i.class = "Move" /\ i.src_mode = DIRECT_DATA
      /\ j.class = "Move" /\ j.dest_mode = DIRECT_DATA
      /\ j.src_mode = Back(i.dest_mode) /\ j.src_mode # DIRECT_DATA
      /\ j.src_reg = i.dest_reg /\ j.data_size = i.data_size
      /\ stored = loaded
      /\ i.dest_mode = ABS_WORD => ~IS_NEGATIVE(stored, SIZE_WORD)

(***************************************************************************)
(* What setData stored, getData finds: the two compute the same address,   *)
(* in the same byte order (cpu_state.cpp, memory.cpp), as                  *)
(* test/test_addressing.cpp expects of an absolute short address           *)
(* ("TEST_TRUE(return_data == 0xCCDD)").  Not for an absolute short        *)
(* address of the upper half, which only setData sign-extends.             *)
(***************************************************************************)
LoadFindsStore ==
  First2(StoreAndLoad) =>
    LET i == trace[1]
        j == trace[2]
    IN  get(cpu, j.dest_reg, j.data_size) = get(start, i.src_reg, i.data_size)
=============================================================================
