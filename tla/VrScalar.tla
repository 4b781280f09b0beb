------------------------------ MODULE VrScalar -------------------------------
(***************************************************************************)
(* What the integer instructions of the VR4300 compute: the functions of   *)
(* vr4300/functions.c, each for several opcodes, and the way a load or a   *)
(* store takes through vr4300/pipeline.c, when its line is in the cache,   *)
(* or VR4300_DCM of vr4300/fault.c when it goes past the cache. Beside     *)
(* each is the instruction set's definition.                               *)
(*                                                                         *)
(* A register has eight bytes of VByteBits bits, a word is four of them    *)
(* and an immediate two. A behaviour is one instruction.                   *)
(***************************************************************************)
EXTENDS Integers, Bitwise

CONSTANTS
  VByteBits,    \* 8
  VOperands,    \* what registers hold
  VLinked       \* are LL and SC among the instructions

VWordBits == 4 * VByteBits
VRegBits == 2 * VWordBits
VReg == 2 ^ VRegBits
VWord == 2 ^ VWordBits
VImm == 2 ^ (2 * VByteBits)

ASSUME VrScalarAssumption ==
  /\ VByteBits \in Nat \ {0}
  /\ VOperands \subseteq 0 .. VReg - 1
  /\ VLinked \in BOOLEAN

VARIABLES
  vin,    \* the instruction in EX, what it reads, and memory
  vout    \* what it gave

vscalarVars == <<vin, vout>>

VLow(x) == x % VReg
VSign(x, bits) == IF x % 2 ^ bits >= 2 ^ (bits - 1) THEN (x % 2 ^ bits) - 2 ^ bits ELSE x % 2 ^ bits
Int64(x) == VSign(x, VRegBits)
Int32(x) == VSign(x, VWordBits)
Sex(x) == VLow(Int32(x))               \* (int32_t) x, in a register
SexImm(imm) == VLow(VSign(imm, 2 * VByteBits))
VNot(x) == VReg - 1 - x

\* The bits of the instruction word that the functions look at.
VCode(op) ==
  CASE op = "ADDI" -> 8 [] op = "ADDIU" -> 9 [] op = "SLTI" -> 10 [] op = "SLTIU" -> 11
    [] op = "ANDI" -> 12 [] op = "ORI" -> 13 [] op = "XORI" -> 14 [] op = "LUI" -> 15
    [] op = "DADDI" -> 24 [] op = "DADDIU" -> 25
    [] op = "ADD" -> 32 [] op = "ADDU" -> 33 [] op = "SUB" -> 34 [] op = "SUBU" -> 35
    [] op = "AND" -> 36 [] op = "OR" -> 37 [] op = "XOR" -> 38
    [] op = "DADD" -> 44 [] op = "DADDU" -> 45 [] op = "DSUB" -> 46 [] op = "DSUBU" -> 47
    [] op = "DSLL" -> 56 [] op = "DSRL" -> 58 [] op = "DSRA" -> 59
    [] op = "DSLL32" -> 60 [] op = "DSRL32" -> 62 [] op = "DSRA32" -> 63
    [] op = "MULT" -> 24 [] op = "MULTU" -> 25 [] op = "DIV" -> 26 [] op = "DIVU" -> 27
    [] op = "TGE" -> 48 [] op = "TGEU" -> 49 [] op = "TLT" -> 50 [] op = "TLTU" -> 51
    [] op = "TEQ" -> 52 [] op = "TNE" -> 54
    [] op = "LDL" -> 26 [] op = "LDR" -> 27 [] op = "LB" -> 32 [] op = "LH" -> 33
    [] op = "LWL" -> 34 [] op = "LW" -> 35 [] op = "LBU" -> 36 [] op = "LHU" -> 37
    [] op = "LWR" -> 38 [] op = "LWU" -> 39 [] op = "SB" -> 40 [] op = "SH" -> 41
    [] op = "SWL" -> 42 [] op = "SW" -> 43 [] op = "SDL" -> 44 [] op = "SDR" -> 45
    [] op = "SWR" -> 46 [] op = "LL" -> 48 [] op = "LD" -> 55 [] op = "SC" -> 56 [] op = "SD" -> 63
VBit(op, n) == (VCode(op) \div 2 ^ n) % 2 = 1

-----------------------------------------------------------------------------
(***************************************************************************)
(* Arithmetic: result, or LO and HI.                                       *)
(***************************************************************************)
vr4300_addsub_mask(op) == IF VBit(op, 1) THEN VReg - 1 ELSE 0

\* rt is negated by the mask. ADD and SUB do not raise an overflow.
VR4300_ADDSUB64(op, rs, rt) ==
  LET mask == vr4300_addsub_mask(op) IN VLow(rs + ((rt ^^ mask) - mask))
VR4300_ADDU_SUBU(op, rs, rt) == Sex(VR4300_ADDSUB64(op, rs, rt))
VR4300_ADDIU_LUI_SUBIU(op, rs, imm) ==
  Sex(VLow(rs + SexImm(imm) * (IF VBit(op, 2) THEN VImm ELSE 1)))
VR4300_DADDIU_DSUBIU(rs, imm) == VLow(rs + SexImm(imm))

VR4300_AND_OR_XOR(op, rs, rt) ==
  LET rand == rs & rt
      rxor == rs ^^ rt
  IN IF VCode(op) % 4 = 0 THEN rand ELSE IF VCode(op) % 2 = 0 THEN rxor ELSE VLow(rand + rxor)

VR4300_NOR(rs, rt) == VNot(rs | rt)
VR4300_SLL_SLLV(rt, sa) == Sex(VLow(rt * 2 ^ sa))
VR4300_SRA(rt, sa) == Sex(rt \div 2 ^ sa)
VR4300_SRL(rt, sa) == Sex((rt % VWord) \div 2 ^ sa)
VR4300_DSLL(rt, sa) == VLow(rt * 2 ^ sa)
VR4300_DSRA(rt, sa) == VLow(Int64(rt) \div 2 ^ sa)
VR4300_DSRL(rt, sa) == rt \div 2 ^ sa
Flag(condition) == IF condition THEN 1 ELSE 0
VR4300_SLT(rs, rt) == Flag(Int64(rs) < Int64(rt))
VR4300_SLTU(rs, rt) == Flag(rs < rt)

\* Amounts: five bits of the instruction or of rs, and a half more for DSxx32.
Sa32(x) == x % VWordBits
Sa64(x) == x % VRegBits
SaOf(op, imm) == Sa32(imm) + (IF VBit(op, 2) THEN VWordBits ELSE 0)

Computing ==
  {"ADD", "ADDU", "SUB", "SUBU", "DADD", "DADDU", "DSUB", "DSUBU", "ADDI", "ADDIU", "LUI",
   "DADDI", "DADDIU", "AND", "OR", "XOR", "ANDI", "ORI", "XORI", "NOR", "SLL", "SLLV", "SRA",
   "SRAV", "SRL", "SRLV", "DSLL", "DSLLV", "DSLL32", "DSRA", "DSRAV", "DSRA32", "DSRL", "DSRLV",
   "DSRL32", "SLT", "SLTI", "SLTU", "SLTIU"}

ResultOf(op, rs, rt, imm) ==
  CASE op \in {"ADD", "ADDU", "SUB", "SUBU"} -> VR4300_ADDU_SUBU(op, rs, rt)
    [] op \in {"DADD", "DADDU", "DSUB", "DSUBU"} -> VR4300_ADDSUB64(op, rs, rt)
    [] op \in {"ADDI", "ADDIU", "LUI"} ->
         VR4300_ADDIU_LUI_SUBIU(op, IF op = "LUI" THEN 0 ELSE rs, imm)
    [] op \in {"DADDI", "DADDIU"} -> VR4300_DADDIU_DSUBIU(rs, imm)
    [] op \in {"AND", "OR", "XOR"} -> VR4300_AND_OR_XOR(op, rs, rt)
    [] op \in {"ANDI", "ORI", "XORI"} -> VR4300_AND_OR_XOR(op, rs, imm)
    [] op = "NOR" -> VR4300_NOR(rs, rt)
    [] op = "SLL" -> VR4300_SLL_SLLV(rt, Sa32(imm))
    [] op = "SLLV" -> VR4300_SLL_SLLV(rt, Sa32(rs))
    [] op = "SRA" -> VR4300_SRA(rt, Sa32(imm)) [] op = "SRAV" -> VR4300_SRA(rt, Sa32(rs))
    [] op = "SRL" -> VR4300_SRL(rt, Sa32(imm)) [] op = "SRLV" -> VR4300_SRL(rt, Sa32(rs))
    [] op \in {"DSLL", "DSLL32"} -> VR4300_DSLL(rt, SaOf(op, imm))
    [] op = "DSLLV" -> VR4300_DSLL(rt, Sa64(rs))
    [] op \in {"DSRA", "DSRA32"} -> VR4300_DSRA(rt, SaOf(op, imm))
    [] op = "DSRAV" -> VR4300_DSRA(rt, Sa64(rs))
    [] op \in {"DSRL", "DSRL32"} -> VR4300_DSRL(rt, SaOf(op, imm))
    [] op = "DSRLV" -> VR4300_DSRL(rt, Sa64(rs))
    [] op = "SLT" -> VR4300_SLT(rs, rt) [] op = "SLTI" -> VR4300_SLT(rs, SexImm(imm))
    [] op = "SLTU" -> VR4300_SLTU(rs, rt) [] op = "SLTIU" -> VR4300_SLTU(rs, SexImm(imm))

\* The quotient and the remainder of C.
Abs(x) == IF x < 0 THEN -x ELSE x
CDiv(a, b) == (IF (a < 0) = (b < 0) THEN 1 ELSE -1) * (Abs(a) \div Abs(b))
CMod(a, b) == a - b * CDiv(a, b)

\* A word as the multiplier takes it: with its sign, or without.
MultOperand(op, x) == IF VBit(op, 0) THEN x % VWord ELSE Int32(x)

HiLo(hi, lo) == [hi |-> hi, lo |-> lo]
VR4300_MULT_MULTU(op, rs, rt) ==
  LET result == VLow(MultOperand(op, rs) * MultOperand(op, rt))
  IN HiLo(Sex(result \div VWord), Sex(result))

VR4300_DIV_DIVU(op, rs, rt) ==
  LET a == MultOperand(op, rs)
      b == MultOperand(op, rt)
  IN IF b # 0 THEN HiLo(Sex(VLow(CMod(a, b))), Sex(VLow(CDiv(a, b))))
     ELSE HiLo(Sex(VLow(a)), IF a < 0 THEN 1 ELSE VReg - 1)

VR4300_DDIV(rs, rt) ==
  LET a == Int64(rs)
      b == Int64(rt)
  IN CASE a = -(VReg \div 2) /\ b = -1 -> HiLo(0, rs)
       [] b # 0 /\ ~ (a = -(VReg \div 2) /\ b = -1) -> HiLo(VLow(CMod(a, b)), VLow(CDiv(a, b)))
       [] b = 0 -> HiLo(rs, IF a < 0 THEN 1 ELSE VReg - 1)
VR4300_DDIVU(rs, rt) ==
  IF rt # 0 THEN HiLo(rs % rt, rs \div rt) ELSE HiLo(rs, VReg - 1)

\* The product of 128 bits.
VR4300_DMULT(rs, rt) ==
  LET result == Int64(rs) * Int64(rt) IN HiLo(VLow(result \div VReg), VLow(result))
VR4300_DMULTU(rs, rt) ==
  LET result == rs * rt IN HiLo(VLow(result \div VReg), VLow(result))

Multiplying == {"MULT", "MULTU", "DIV", "DIVU", "DDIV", "DDIVU", "DMULT", "DMULTU"}
HiLoOf(op, rs, rt) ==
  CASE op \in {"MULT", "MULTU"} -> VR4300_MULT_MULTU(op, rs, rt)
    [] op \in {"DIV", "DIVU"} -> VR4300_DIV_DIVU(op, rs, rt)
    [] op = "DDIV" -> VR4300_DDIV(rs, rt) [] op = "DDIVU" -> VR4300_DDIVU(rs, rt)
    [] op = "DMULT" -> VR4300_DMULT(rs, rt) [] op = "DMULTU" -> VR4300_DMULTU(rs, rt)

-----------------------------------------------------------------------------
(***************************************************************************)
(* Conditions of branches and traps. The offset of a branch, its link and  *)
(* its delay slot are those of VrPipeline.                                 *)
(***************************************************************************)
\* Bit 16 of a REGIMM branch, and bit 26 of the others, tell the two apart.
BranchBit(op) == op \in {"BNE", "BGEZ", "BGEZAL", "BGTZ"}
Conditions == {"BEQ", "BNE", "BGEZ", "BLTZ", "BGEZAL", "BLTZAL", "BGTZ", "BLEZ"}
BranchCmp(op, rs, rt) ==
  CASE op \in {"BEQ", "BNE"} -> rs = rt
    [] op \in {"BGEZ", "BLTZ", "BGEZAL", "BLTZAL"} -> Int64(rs) < 0
    [] op \in {"BGTZ", "BLEZ"} -> Int64(rs) <= 0
VrBranches(op, rs, rt) == BranchCmp(op, rs, rt) # BranchBit(op)

Traps == {"TGE", "TGEU", "TLT", "TLTU", "TEQ", "TNE"}
TrapCmp(op, rs, rt) ==
  CASE op \in {"TEQ", "TNE"} -> rs = rt
    [] op \in {"TGE", "TLT"} -> Int64(rs) >= Int64(rt)
    [] op \in {"TGEU", "TLTU"} -> rs >= rt

VrTraps(op, rs, rt) == TrapCmp(op, rs, rt) # VBit(op, 1)

-----------------------------------------------------------------------------
(***************************************************************************)
(* Loads and stores. A request is made in EX; DC serves it from the eight  *)
(* bytes of a line of the cache, or DCM from the words of memory. Bytes    *)
(* are numbered from the highest down.                                     *)
(***************************************************************************)
VLoads == {"LB", "LH", "LW", "LBU", "LHU", "LWU", "LD", "LWL", "LWR", "LDL", "LDR"}
          \cup (IF VLinked THEN {"LL"} ELSE {})
VStoring == {"SB", "SH", "SW", "SD", "SWL", "SWR", "SDL", "SDR"} \cup (IF VLinked THEN {"SC"} ELSE {})
IsStore(op) == VBit(op, 3) /\ op \notin {"LDL", "LDR"}
VBytes(n) == 2 ^ (n * VByteBits)

vr4300_load_sex_mask(op) ==
  LET index == VCode(op) % 8 IN
  CASE index \in {0, 1, 3} -> VReg - 1 [] index = 4 -> VBytes(1) - 1
    [] index = 5 -> VImm - 1 [] index = 7 -> VWord - 1

VRequest(vaddr, data, wdqm, dword, size, result) ==
  [vaddr |-> vaddr, data |-> data, wdqm |-> wdqm, dword |-> dword, size |-> size, result |-> result]

\* The size is in the low bits of the opcode.
VR4300_LOAD_STORE(op, a, rt) ==
  LET size == VCode(op) % 4
      up == VBytes(3 - size)
      down == VBytes(a % 4)
  IN IF IsStore(op)
     THEN VRequest(a, VLow(rt * up) \div down, (((VWord - 1) * up) % VWord) \div down, FALSE, size + 1, 0)
     ELSE VRequest(a, vr4300_load_sex_mask(op), 0, FALSE, size + 1, 0)

VR4300_LD_SD(op, a, rt) ==
  IF IsStore(op) THEN VRequest(a, rt, VReg - 1, TRUE, 8, 0) ELSE VRequest(a, VReg - 1, 0, TRUE, 8, 0)

VMerge(a, dqm, dword, size, rt) == VRequest(a, dqm, 0, dword, size, rt & VNot(dqm))
VR4300_LDL(a, rt) == VMerge(a, VLow((VReg - 1) * VBytes(a % 8)), TRUE, 8, rt)
VR4300_LDR(a, rt) == VMerge(a - (a % 8), VBytes((a % 8) + 1) - 1, TRUE, (a % 8) + 1, rt)
VR4300_LWL(a, rt) == VMerge(a, VLow((VReg - 1) * VBytes(a % 4)), FALSE, 4, rt)

\* LWR_forceset: when all four bytes come, the upper half takes their sign.
VR4300_LWR(a, rt) ==
  VMerge(a - (a % 4), IF a % 4 = 3 THEN VReg - 1 ELSE VBytes((a % 4) + 1) - 1, FALSE, (a % 4) + 1, rt)

VR4300_SDL(a, rt) == VRequest(a, rt \div VBytes(a % 8), (VReg - 1) \div VBytes(a % 8), TRUE, 8, 0)
VR4300_SDR(a, rt) ==
  VRequest(a, VLow(rt * VBytes(7 - (a % 8))), VLow((VReg - 1) * VBytes(7 - (a % 8))), TRUE, 8, 0)
VR4300_SWL(a, rt) == VRequest(a, rt \div VBytes(a % 4), (VWord - 1) \div VBytes(a % 4), FALSE, 4, 0)
VR4300_SWR(a, rt) ==
  VRequest(a, VLow(rt * VBytes(3 - (a % 4))), ((VWord - 1) * VBytes(3 - (a % 4))) % VWord, FALSE, 4, 0)

VRequestOf(op, a, rt) ==
  CASE op \in {"LD", "SD"} -> VR4300_LD_SD(op, a, rt)
    [] op = "LDL" -> VR4300_LDL(a, rt) [] op = "LDR" -> VR4300_LDR(a, rt)
    [] op = "LWL" -> VR4300_LWL(a, rt) [] op = "LWR" -> VR4300_LWR(a, rt)
    [] op = "SDL" -> VR4300_SDL(a, rt) [] op = "SDR" -> VR4300_SDR(a, rt)
    [] op = "SWL" -> VR4300_SWL(a, rt) [] op = "SWR" -> VR4300_SWR(a, rt)
    [] OTHER -> VR4300_LOAD_STORE(op, a, rt)

Written(old, data, dqm) == (old & VNot(dqm)) | (data & dqm)

\* Mutant of CachedRequest: a word is not moved to its half of the line.
CachedRequestUnmoved(m, r) ==
  [value |-> r.result | (VLow(Int64(VLow(m * VBytes(r.vaddr % 8))) \div VBytes(8 - r.size)) & r.data),
   mem |-> Written(m, r.data, r.wdqm)]

\* The hit of vr4300_dc_stage. A store's data and mask are moved to the word.
CachedRequest(m, r) ==
  LET move == IF r.dword \/ r.vaddr % 8 >= 4 THEN 1 ELSE VWord
  IN [value |-> r.result | (VLow(Int64(VLow(m * VBytes(r.vaddr % 8))) \div VBytes(8 - r.size)) & r.data),
      mem |-> Written(m, VLow(r.data * move), VLow(r.wdqm * move))]

\* VR4300_DCM past the cache: one word of the bus, or two. A read is aligned to
\* them; the word that is not read counts as zero. A write reads nothing.
UncachedRequest(m, r) ==
  LET a == r.vaddr
      second == a % 8 >= 4
      word == IF second THEN m % VWord ELSE m \div VWord
      shifted == IF r.dword THEN VLow(m * VBytes(a % 8)) ELSE VLow(word * VWord * VBytes(a % 4))
      written == (r.data % VWord) * (IF second THEN 1 ELSE VWord)
      dqm == (r.wdqm % VWord) * (IF second THEN 1 ELSE VWord)
  IN [value |-> IF r.wdqm # 0 THEN r.result
                ELSE r.result | (VLow(Int64(shifted) \div VBytes(8 - r.size)) & r.data),
      mem |-> IF r.dword THEN Written(m, r.data, r.wdqm) ELSE Written(m, written, dqm)]

-----------------------------------------------------------------------------
Nothing == [done |-> FALSE, result |-> 0, hi |-> 0, lo |-> 0, yes |-> FALSE, mem |-> 0]
VIn(op, rs, rt, imm) ==
  [op |-> op, rs |-> rs, rt |-> rt, imm |-> imm, at |-> 0, mem |-> 0, cached |-> TRUE]

\* Operands of instructions on words are words with their sign.
Wide(op) ==
  op \in {"DADD", "DADDU", "DSUB", "DSUBU", "DADDI", "DADDIU", "AND", "OR", "XOR", "NOR", "DSLL",
          "DSLLV", "DSLL32", "DSRA", "DSRAV", "DSRA32", "DSRL", "DSRLV", "DSRL32", "SLT", "SLTI",
          "SLTU", "SLTIU", "DDIV", "DDIVU", "DMULT", "DMULTU", "ANDI", "ORI", "XORI"}
Fits(op, x) == Wide(op) \/ Sex(x) = x

Bounds(op) == CASE op \in {"LH", "LHU", "SH"} -> 2 [] op \in {"LW", "LWU", "SW", "LL", "SC"} -> 4
                [] op \in {"LD", "SD"} -> 8 [] OTHER -> 1

VScalarInit ==
  /\ vout = Nothing
  /\ \E rs, rt \in VOperands :
       \/ \E op \in Computing \cup Multiplying :
            /\ Fits(op, rs) /\ Fits(op, rt)
            /\ vin = VIn(op, rs, rt, rt % VImm)
       \/ \E op \in Conditions \cup Traps : vin = VIn(op, rs, rt, rt % VImm)
       \/ \E op \in VLoads \cup VStoring, at \in 0 .. 7, cached \in BOOLEAN :
            /\ at % Bounds(op) = 0
            /\ vin = [VIn(op, 0, rt, 0) EXCEPT !.at = at, !.mem = rs, !.cached = cached]

VGives(what) == ~ vout.done /\ vout' = [what EXCEPT !.done = TRUE] /\ UNCHANGED vin

VComputes ==
  /\ vin.op \in Computing
  /\ VGives([vout EXCEPT !.result = ResultOf(vin.op, vin.rs, vin.rt, vin.imm)])
VMultiplies ==
  /\ vin.op \in Multiplying
  /\ LET r == HiLoOf(vin.op, vin.rs, vin.rt) IN VGives([vout EXCEPT !.hi = r.hi, !.lo = r.lo])
VDecides ==
  /\ vin.op \in Conditions \cup Traps
  /\ VGives([vout EXCEPT !.yes = IF vin.op \in Traps THEN VrTraps(vin.op, vin.rs, vin.rt)
                                ELSE VrBranches(vin.op, vin.rs, vin.rt)])
VAccesses ==
  /\ vin.op \in VLoads \cup VStoring
  /\ LET request == VRequestOf(vin.op, vin.at, vin.rt)
         r == IF vin.cached THEN CachedRequest(vin.mem, request) ELSE UncachedRequest(vin.mem, request)
     IN VGives([vout EXCEPT !.result = r.value, !.mem = r.mem])

VScalarNext == VComputes \/ VMultiplies \/ VDecides \/ VAccesses

VScalarSpec == VScalarInit /\ [][VScalarNext]_vscalarVars

-----------------------------------------------------------------------------
(***************************************************************************)
(* What the instruction set says.                                          *)
(***************************************************************************)
VBitOf(x, n) == (x \div 2 ^ n) % 2
VBitsAre(x, f(_)) == \A n \in 0 .. VRegBits - 1 : VBitOf(x, n) = IF f(n) THEN 1 ELSE 0
Same32(x, value) == x = VLow(VSign(value % VWord, VWordBits))
Same64(x, value) == x = value % VReg

\* Every opcode, of those that share a function too, computes what is its own.
VComputesRight ==
  vout.done /\ vin.op \in Computing =>
    LET op == vin.op
        rs == vin.rs
        x == vout.result
        imm == VSign(vin.imm, 2 * VByteBits)
        other == IF op \in {"ANDI", "ORI", "XORI"} THEN vin.imm ELSE vin.rt
        sa32 == (IF op \in {"SLL", "SRA", "SRL"} THEN vin.imm ELSE rs) % VWordBits
        fixed == vin.imm % VWordBits
        sa64 == CASE op \in {"DSLL", "DSRA", "DSRL"} -> fixed
                  [] op \in {"DSLL32", "DSRA32", "DSRL32"} -> fixed + VWordBits [] OTHER -> rs % VRegBits
        bit(n) == n < VRegBits /\ VBitOf(other, n) = 1
        word(n) == IF n < VWordBits THEN bit(n) ELSE bit(VWordBits - 1)
    IN CASE op \in {"ADD", "ADDU"} -> Same32(x, rs + other)
         [] op \in {"SUB", "SUBU"} -> Same32(x, rs - other)
         [] op \in {"DADD", "DADDU"} -> Same64(x, rs + other)
         [] op \in {"DSUB", "DSUBU"} -> Same64(x, rs - other)
         [] op \in {"ADDI", "ADDIU"} -> Same32(x, rs + imm)
         [] op \in {"DADDI", "DADDIU"} -> Same64(x, rs + imm)
         [] op = "LUI" -> Same32(x, vin.imm * VImm)
         [] op \in {"AND", "ANDI"} -> VBitsAre(x, LAMBDA n : bit(n) /\ VBitOf(rs, n) = 1)
         [] op \in {"OR", "ORI"} -> VBitsAre(x, LAMBDA n : bit(n) \/ VBitOf(rs, n) = 1)
         [] op \in {"XOR", "XORI"} -> VBitsAre(x, LAMBDA n : bit(n) # (VBitOf(rs, n) = 1))
         [] op = "NOR" -> VBitsAre(x, LAMBDA n : ~ bit(n) /\ VBitOf(rs, n) = 0)
         [] op \in {"SLL", "SLLV"} -> Same32(x, other * 2 ^ sa32)
         [] op \in {"SRA", "SRAV"} -> VBitsAre(x, LAMBDA n : word(n + sa32))
         [] op \in {"SRL", "SRLV"} -> Same32(x, (other % VWord) \div 2 ^ sa32)
         [] op \in {"DSLL", "DSLL32", "DSLLV"} -> VBitsAre(x, LAMBDA n : n >= sa64 /\ bit(n - sa64))
         [] op \in {"DSRL", "DSRL32", "DSRLV"} -> VBitsAre(x, LAMBDA n : bit(n + sa64))
         [] op \in {"DSRA", "DSRA32", "DSRAV"} ->
              VBitsAre(x, LAMBDA n : IF n + sa64 < VRegBits THEN bit(n + sa64) ELSE bit(VRegBits - 1))
         [] op = "SLT" -> x = Flag(Int64(rs) < Int64(other)) [] op = "SLTU" -> x = Flag(rs < other)
         [] op = "SLTI" -> x = Flag(Int64(rs) < imm)
         [] op = "SLTIU" -> x = Flag(rs < imm % VReg)

\* Products are exact. A quotient and a remainder give the dividend back, the
\* remainder is smaller and has its sign; division by zero leaves the dividend.
MultipliesRight ==
  vout.done /\ vin.op \in Multiplying =>
    LET op == vin.op
        signed == op \in {"MULT", "DIV", "DDIV", "DMULT"}
        bits == IF Wide(op) THEN VRegBits ELSE VWordBits
        of(x) == IF signed THEN VSign(x, bits) ELSE x % 2 ^ bits
        a == of(vin.rs)
        b == of(vin.rt)
        hi == of(vout.hi)
        lo == of(vout.lo)
    IN /\ Wide(op) \/ (Sex(vout.hi) = vout.hi /\ Sex(vout.lo) = vout.lo)
       /\ CASE op \in {"MULT", "MULTU", "DMULT", "DMULTU"} ->
                 a * b = hi * 2 ^ bits + (lo % 2 ^ bits)
            [] b # 0 /\ op \in {"DIV", "DIVU", "DDIV", "DDIVU"} ->
                 /\ (a - lo * b - hi) % 2 ^ bits = 0
                 /\ Abs(hi) < Abs(b) /\ (hi = 0 \/ (hi < 0) = (a < 0))
            [] OTHER -> hi = a /\ lo = of(IF a < 0 THEN 1 ELSE VReg - 1)

\* Branches and traps go by their conditions, and each by the opposite of the
\* other's that shares its function.
DecidesRight ==
  vout.done /\ vin.op \in Conditions \cup Traps =>
    LET op == vin.op
        s == Int64(vin.rs)
    IN vout.yes =
         CASE op \in {"BEQ", "TEQ"} -> vin.rs = vin.rt [] op \in {"BNE", "TNE"} -> vin.rs # vin.rt
           [] op \in {"BGEZ", "BGEZAL"} -> s >= 0 [] op \in {"BLTZ", "BLTZAL"} -> s < 0
           [] op = "BGTZ" -> s > 0 [] op = "BLEZ" -> s <= 0
           [] op = "TGE" -> s >= Int64(vin.rt) [] op = "TLT" -> s < Int64(vin.rt)
           [] op = "TGEU" -> vin.rs >= vin.rt [] op = "TLTU" -> vin.rs < vin.rt

ByteOf(x, n) == (x \div VBytes(7 - n)) % VBytes(1)
SizeAt(op) == CASE op \in {"LB", "LBU", "SB"} -> 1 [] OTHER -> Bounds(op)

\* A load gives the bytes of its address with or without their sign, and the loads
\* of unaligned data the bytes from there to the end of their word, or up to there,
\* beside those of the register; through the cache or past it.
LoadsRight ==
  vout.done /\ vin.op \in VLoads =>
    LET op == vin.op
        at == vin.at
        m == vin.mem
        span == IF op \in {"LWL", "LWR", "LL"} THEN 4 ELSE 8
        start == at - (at % span)
        size == SizeAt(op)
        value == (m \div VBytes(8 - at - size)) % VBytes(size)
        half == IF at >= 4 THEN m % VWord ELSE m \div VWord
        byte(n) == ByteOf(vout.result, n)
        own(n) == ByteOf(vin.rt, n)
    IN CASE op \in {"LB", "LH", "LW", "LD"} -> vout.result = VLow(VSign(value, size * VByteBits))
         [] op = "LL" -> vout.result = VLow(VSign(half, VWordBits))
         [] op \in {"LBU", "LHU", "LWU"} -> vout.result = value
         [] op \in {"LDL", "LWL"} ->
              /\ \A n \in 8 - span .. 7 :
                   byte(n) = IF n + at - start < 8 THEN ByteOf(m, at + n - (8 - span)) ELSE own(n)
              /\ op = "LWL" => Sex(vout.result) = vout.result
         [] op \in {"LDR", "LWR"} ->
              /\ \A n \in 8 - span .. 7 :
                   byte(n) = IF n >= 7 - (at - start) THEN ByteOf(m, at - (7 - n)) ELSE own(n)
              /\ op = "LWR" => \/ vout.result \div VWord = vin.rt \div VWord
                                \/ (at - start = 3 /\ Sex(vout.result) = vout.result)

\* A store changes the bytes of its address and no others.
StoresRight ==
  vout.done /\ vin.op \in VStoring =>
    LET op == vin.op
        at == vin.at
        span == IF op \in {"SWL", "SWR"} THEN 4 ELSE 8
        start == at - (at % span)
        changed == CASE op \in {"SDL", "SWL"} -> at .. start + span - 1
                     [] op \in {"SDR", "SWR"} -> start .. at
                     [] OTHER -> at .. at + SizeAt(op) - 1
        first == CASE op = "SDL" -> 0 [] op = "SWL" -> 4
                   [] op \in {"SDR", "SWR"} -> 7 - (at - start) [] OTHER -> 8 - SizeAt(op)
        from == IF op \in {"SDR", "SWR"} THEN start ELSE at
    IN \A n \in 0 .. 7 :
         ByteOf(vout.mem, n) = IF n \in changed THEN ByteOf(vin.rt, first + n - from) ELSE ByteOf(vin.mem, n)

-----------------------------------------------------------------------------
(***************************************************************************)
(* The registers of the VR4300's system coprocessor as programs see them,  *)
(* and its timer: MFC0, DMFC0, MTC0 and DMTC0 of vr4300/cp0.c with the     *)
(* table of masks, TLBWR's choice of an entry, and vr4300_cycle of         *)
(* vr4300/cpu.c, which counts.                                             *)
(*                                                                         *)
(* A word has Cp0Bits bits and a register two words; the masks are scaled  *)
(* with them. COUNT advances at every second cycle, so that the register   *)
(* holds it doubled. cp0ref holds what a program expects of the same       *)
(* registers, and counts down the cycles to the next timer interrupt.      *)
(***************************************************************************)

CONSTANTS
  Cp0Written,   \* what programs write to the registers
  CountWritten, \* what they write to COUNT with MTC0
  Cp0Entries    \* 32

Cp0Bits == 4
CWord == 2 ^ Cp0Bits
CReg == CWord * CWord

ASSUME VrCp0Assumption ==
  /\ Cp0Written \subseteq 0 .. CReg - 1 /\ CountWritten \subseteq 0 .. CWord - 1
  /\ Cp0Entries \in {2, 4, 8}

VARIABLES
  cp0,     \* the registers, and the general register that is read into
  cp0ref   \* history: what the program expects

cp0Vars == <<cp0, cp0ref>>

\* Registers that programs read and write alike; BAD stands for seven numbers.
Plain == {"INDEX", "PAGEMASK", "WIRED", "BAD", "COMPARE", "EPC", "PARITYERROR"}

\* CAUSE: two interrupts that programs raise, the RCP's and the timer's.
IP_SOFT == 3
IP_RCP == 4
IP_TIMER == 8

vr4300_cp0_reg_masks ==
  [INDEX |-> 9, PAGEMASK |-> 6, WIRED |-> CReg - 1, BAD |-> 11, COMPARE |-> CWord - 1,
   EPC |-> CReg - 1, PARITYERROR |-> 0, CAUSE |-> CWord - 1]
mask_reg(r, data) == vr4300_cp0_reg_masks[r] & data

CSex(x) == IF x % CWord >= CWord \div 2 THEN CReg - CWord + (x % CWord) ELSE x % CWord
CLow(x) == x % CReg
Without(x, bits) == x & (CReg - 1 - bits)

\* (int32_t) x of the 32-bit forms.
Narrow(wide, x) == IF wide THEN x ELSE CSex(x)

-----------------------------------------------------------------------------

(***************************************************************************)
(* Reading.                                                                *)
(***************************************************************************)
\* rand() % (32 - index) + index
RandomEntries(s) ==
  LET index == s.regs["WIRED"] % Cp0Entries
  IN {(n % (Cp0Entries - index)) + index : n \in 0 .. Cp0Entries - 1}

VR4300_PRID == 2

\* The values that VR4300_DMFC0 (wide) or VR4300_MFC0 may give. DMFC0 of RANDOM
\* reads the register, which nothing sets.
ReadCp0(s, wide, src) ==
  CASE src = "COUNT" -> LET count == s.regs["COUNT"] \div 2
                        IN {IF wide THEN count % CWord ELSE CSex(count)}
    [] src = "RANDOM" -> IF wide THEN {0} ELSE RandomEntries(s)
    [] src = "PRID" -> {VR4300_PRID}
    [] src = "BAD" -> {Narrow(wide, s.regs["BAD"])}
    [] OTHER -> {Narrow(wide, mask_reg(src, s.regs[src]))}

(***************************************************************************)
(* Writing.                                                                *)
(***************************************************************************)

WriteCp0(s, wide, dest, rt) ==
  CASE dest = "COUNT" -> [s EXCEPT !.regs["COUNT"] = Narrow(wide, CLow(2 * rt))]
    [] dest = "CAUSE" -> [s EXCEPT !.regs["CAUSE"] = Without(@, IP_SOFT) | (rt & IP_SOFT)]
    [] dest = "COMPARE" -> [s EXCEPT !.regs["COMPARE"] = Narrow(wide, rt),
                                     !.regs["CAUSE"] = Without(@, IP_TIMER)]
    [] OTHER -> [s EXCEPT !.regs[dest] = Narrow(wide, rt)]

TimerCompares(s) ==
  LET count == s.regs["COUNT"]
  IN IF count % 2 = 1 /\ (count \div 2) % CWord = s.regs["COMPARE"] % CWord
     THEN [s EXCEPT !.regs["CAUSE"] = @ | IP_TIMER] ELSE s

\* COUNT goes on before the instruction in EX, the comparison comes after it.
vr4300_cycle_counts(s) == [s EXCEPT !.regs["COUNT"] = CLow(@ + 1)]

-----------------------------------------------------------------------------
(***************************************************************************)
(* What a program expects. to is the number of cycles until COUNT will     *)
(* have been equal to COMPARE for a cycle, modulo a turn of the counter.   *)
(***************************************************************************)
Turn == 2 * CWord
CyclesTo(count, phase, compare) == (2 * (compare - count) + 1 - phase) % Turn

RefCycle(r) ==
  LET count == IF r.phase = 1 THEN (r.count + 1) % CWord ELSE r.count
  IN [r EXCEPT !.count = count, !.phase = 1 - @, !.to = (@ - 1) % Turn]
RefDue(r) == [r EXCEPT !.timer = @ \/ r.to = 0]

RefWrite(r, wide, dest, rt) ==
  CASE dest = "COUNT" ->
         [r EXCEPT !.count = rt % CWord, !.phase = 0, !.to = CyclesTo(rt % CWord, 0, r.compare)]
    [] dest = "COMPARE" ->
         [r EXCEPT !.compare = rt % CWord, !.timer = FALSE, !.to = CyclesTo(r.count, r.phase, rt % CWord)]
    [] dest = "CAUSE" -> [r EXCEPT !.soft = rt % 4]
    [] OTHER -> [r EXCEPT !.value = Narrow(wide, rt)]

\* A program uses the timer, or one register of the others.
Cp0Init ==
  /\ cp0 = [regs |-> [r \in Plain \cup {"COUNT", "CAUSE"} |-> 0], read |-> "none", wide |-> FALSE, gpr |-> 0]
  /\ \E used \in Plain :
       cp0ref = [count |-> 0, phase |-> 0, compare |-> 0, to |-> CyclesTo(0, 0, 0), timer |-> FALSE,
                 soft |-> 0, rcp |-> FALSE, used |-> used, value |-> 0]

Timing == cp0ref.used = "COMPARE"
Read == IF Timing THEN {"COMPARE", "CAUSE", "COUNT"} ELSE {cp0ref.used, "PRID", "RANDOM"}
Used == IF Timing THEN {"COMPARE", "CAUSE"} ELSE {cp0ref.used}

NotRead(s) == [s EXCEPT !.read = "none", !.wide = FALSE, !.gpr = 0]

\* A cycle in which no instruction of this module is executed.
Cp0Idle ==
  /\ cp0' = TimerCompares(vr4300_cycle_counts(NotRead(cp0)))
  /\ cp0ref' = RefDue(RefCycle(cp0ref))

VR4300_MTC0(wide, dest, rt) ==
  /\ cp0' = TimerCompares(WriteCp0(vr4300_cycle_counts(NotRead(cp0)), wide, dest, rt))
  /\ cp0ref' = RefDue(RefWrite(RefCycle(cp0ref), wide, dest, rt))

VR4300_MFC0(wide, src) ==
  LET s == vr4300_cycle_counts(cp0) IN
  /\ \E value \in ReadCp0(s, wide, src) :
       cp0' = TimerCompares([s EXCEPT !.read = src, !.wide = wide, !.gpr = value])
  /\ cp0ref' = RefDue(RefCycle(cp0ref))

\* Another component raises or lowers the RCP's interrupt between two cycles;
\* RcpInterrupts has it between the two halves of a write of CAUSE.
RcpSignals ==
  /\ cp0' = [NotRead(cp0) EXCEPT !.regs["CAUSE"] = @ ^^ IP_RCP]
  /\ cp0ref' = [cp0ref EXCEPT !.rcp = ~ @]

Cp0Next ==
  \/ Cp0Idle
  \/ \E wide \in BOOLEAN, dest \in Used, rt \in Cp0Written : VR4300_MTC0(wide, dest, rt)
  \/ \E rt \in CountWritten : Timing /\ VR4300_MTC0(FALSE, "COUNT", rt)
  \/ \E rt \in Cp0Written : Timing /\ VR4300_MTC0(TRUE, "COUNT", rt)
  \/ \E wide \in BOOLEAN, src \in Read : VR4300_MFC0(wide, src)
  \/ Timing /\ RcpSignals

Cp0Spec == Cp0Init /\ [][Cp0Next]_cp0Vars

-----------------------------------------------------------------------------
\* The timer's interrupt is pending exactly when COUNT has gone through COMPARE
\* since COMPARE was written, over turns of COUNT and after writes of it; the
\* other interrupts are those their owners have raised.
TimerExact ==
  LET cause == cp0.regs["CAUSE"] IN
  /\ (cause & IP_TIMER # 0) = cp0ref.timer
  /\ cause & IP_SOFT = cp0ref.soft
  /\ (cause & IP_RCP # 0) = cp0ref.rcp

\* A program reads back from COUNT what it wrote, and the cycles since, and from
\* a register the part of its last value that the mask keeps.
ReadsBack ==
  /\ cp0.read = "COUNT" =>
       cp0.gpr = IF cp0.wide THEN cp0ref.count ELSE CSex(cp0ref.count)
  /\ cp0.read = cp0ref.used /\ ~ Timing =>
       cp0.gpr = Narrow(cp0.wide, IF cp0.read = "BAD" THEN cp0ref.value
                                  ELSE mask_reg(cp0.read, cp0ref.value))

\* No random entry is a wired one.
RandomAboveWired ==
  cp0.read = "RANDOM" /\ ~ cp0.wide =>
    cp0.gpr \in (cp0.regs["WIRED"] % Cp0Entries) .. Cp0Entries - 1
==============================================================================
