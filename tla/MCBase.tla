------------------------------- MODULE MCBase -------------------------------
(***************************************************************************)
(* What the instances for TLC share: the constant functions for any number *)
(* of bits, names for instruction records, opcode tables and boot images.  *)
(***************************************************************************)
EXTENDS Instructions, Sequences

MCPow2 == [k \in 0 .. 8 * Bits |-> 2 ^ k]

BitOf(v, k) == (v \div 2 ^ k) % 2

FromBits(f) ==
  LET sum[k \in 0 .. Bits] == IF k = 0 THEN 0 ELSE sum[k - 1] + f[k - 1] * 2 ^ (k - 1)
  IN  sum[Bits]

MCLogicTable ==
  LET K == 0 .. Bits - 1
      And2(p) == FromBits([k \in K |-> BitOf(p[1], k) * BitOf(p[2], k)])
      Xor2(p) == FromBits([k \in K |-> (BitOf(p[1], k) + BitOf(p[2], k)) % 2])
  IN  [ op \in {"and", "or", "eor"} |->
          [ p \in ByteVal \X ByteVal |->
              CASE op = "and" -> And2(p)
                [] op = "eor" -> Xor2(p)
                [] op = "or"  -> p[1] + p[2] - And2(p) ] ]

(* The upper byte of an index extension word names D0, A0, D1 or A7.       *)
MCIndexField ==
  [h \in ByteVal |-> [ reg  |-> <<0, 8, 1, 15>>[((h \div 2) % 4) + 1],
                       size |-> IF h % 2 = 0 THEN SIZE_WORD ELSE SIZE_LONG ]]

(***************************************************************************)
(* Instruction records.  Ea is <<mode, register>>.                         *)
(***************************************************************************)
I(class, size, src, dest, kind, imm, left) ==
  [ class |-> class, data_size |-> size, kind |-> kind, imm |-> imm,
    src_mode |-> src[1], src_reg |-> src[2],
    dest_mode |-> dest[1], dest_reg |-> dest[2], left |-> left ]

D0 == <<DIRECT_DATA, 0>>
D1 == <<DIRECT_DATA, 1>>
A0 == <<DIRECT_ADDR, 8>>
A7 == <<DIRECT_ADDR, 15>>
Ind == <<INDIRECT, 8>>
Inc == <<POSTINCREMENT, 8>>
IncSP == <<POSTINCREMENT, 15>>
Dec == <<PREDECREMENT, 8>>
DecSP == <<PREDECREMENT, 15>>
Disp == <<DISPLACEMENT, 8>>
Idx == <<INDEX, 8>>
PcDisp == <<PC_DISPLACEMENT, 10>>
PcIdx == <<PC_INDEX, 11>>
AbsW == <<ABS_WORD, 8>>
AbsL == <<ABS_LONG, 9>>
Imm == <<IMMEDIATE, 12>>

ILLEGAL == I("Illegal", SIZE_WORD, D0, D0, 0, 0, FALSE)

Op2(class, size, src, dest) == I(class, size, src, dest, 0, 1, FALSE)
Op1(class, size, dest) == Op2(class, size, D0, dest)

(* A table holds a sequence of instructions from opcode 1 on.              *)
TableOf(seq) ==
  [w \in WordVal |-> IF w \in DOMAIN seq THEN seq[w] ELSE ILLEGAL]

(***************************************************************************)
(* Boot sets.  The program counter starts at 0 on one instruction, which   *)
(* is followed by the extension words e1 and e2.                           *)
(***************************************************************************)
ImageOf(words) ==
  [a \in Address |->
     LET w == (a \div 2) + 1
     IN  IF w \notin DOMAIN words THEN 0
         ELSE IF a % 2 = 0 THEN words[w] \div Byte ELSE words[w] % Byte]

Registers0(d0, a0, sp) ==
  [r \in RegisterType |->
     CASE r = 0 -> d0 [] r = 1 -> 21 [] r = REG_A0 -> a0
       [] r = REG_A7 -> sp [] r = REG_SSP -> 12 [] OTHER -> 0]

MachineOf(words, d0, a0, sp, x) ==
  [ reg |-> Registers0(d0, a0, sp), mem |-> ImageOf(words), sup |-> FALSE, exc |-> "none",
    ccr |-> [X |-> x, N |-> FALSE, Z |-> TRUE, V |-> FALSE, C |-> x] ]

(* Bound of the exploration: a machine whose address registers have left   *)
(* the memory by more than AddressSlack bytes is not followed further.     *)
AddressSlack == 4

NearMemory(s) ==
  \A r \in AddrReg \cup {REG_SSP} :
    \/ s.reg[r] <= MemSize + AddressSlack
    \/ s.reg[r] >= Long - AddressSlack
=============================================================================
