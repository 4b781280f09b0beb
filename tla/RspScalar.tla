------------------------------ MODULE RspScalar ------------------------------
(***************************************************************************)
(* What the scalar instructions of the RSP compute: rsp/functions.c, with  *)
(* the tricks by which one function serves several opcodes, and the access *)
(* to DMEM that rsp/pipeline.c makes for loads and stores. Beside each is  *)
(* the instruction set's definition. A register has RegBits bits, of which *)
(* an immediate is the lower half, and a byte a quarter.                   *)
(*                                                                         *)
(* A behaviour is one arithmetic instruction; a store and a load; or a     *)
(* call and the return from it.                                            *)
(***************************************************************************)
EXTENDS Integers, Bitwise

CONSTANTS
  RegBits,      \* 32
  ScalarOperands,   \* what registers hold
  ScalarPcs,    \* where branches and calls are, in bytes
  ImemBytes     \* 0x1000

ASSUME RspScalarAssumption ==
  /\ RegBits \in Nat \ {0} /\ RegBits % 4 = 0
  /\ ImemBytes \in Nat \ {0} /\ ImemBytes % 4 = 0
  /\ ScalarOperands \subseteq 0 .. 2 ^ RegBits - 1
  /\ ScalarPcs \subseteq {4 * n : n \in 0 .. ImemBytes \div 4 - 1}

VARIABLES
  scalar,   \* the instruction in EX, the registers it reads, and DMEM
  sgave     \* what it gave: result, pc to go on from, DMEM

scalarVars == <<scalar, sgave>>

RegMod == 2 ^ RegBits
ImmMod == 2 ^ (RegBits \div 2)
ByteBits == RegBits \div 4
Low(x) == x % RegMod
SignOf(x, bits) == IF x % 2 ^ bits >= 2 ^ (bits - 1) THEN (x % 2 ^ bits) - 2 ^ bits ELSE x % 2 ^ bits
AsInt(x) == SignOf(x, RegBits)
SImm(imm) == SignOf(imm, RegBits \div 2)
Shamt(x) == x % RegBits

-----------------------------------------------------------------------------
\* The bits of the instruction word that the functions look at: the opcode of an
\* instruction with an immediate, the function code of one without.
Code(op) ==
  CASE op = "J" -> 2 [] op = "JAL" -> 3 [] op = "BEQ" -> 4 [] op = "BNE" -> 5
    [] op = "BLEZ" -> 6 [] op = "BGTZ" -> 7 [] op = "ADDIU" -> 9
    [] op = "SLTI" -> 10 [] op = "SLTIU" -> 11
    [] op = "ANDI" -> 12 [] op = "ORI" -> 13 [] op = "XORI" -> 14 [] op = "LUI" -> 15
    [] op = "LB" -> 32 [] op = "LH" -> 33 [] op = "LW" -> 35 [] op = "LBU" -> 36
    [] op = "LHU" -> 37 [] op = "SB" -> 40 [] op = "SH" -> 41 [] op = "SW" -> 43
    [] op = "JR" -> 8 [] op = "JALR" -> 9
    [] op = "ADDU" -> 33 [] op = "SUBU" -> 35 [] op = "AND" -> 36 [] op = "OR" -> 37
    [] op = "XOR" -> 38
    [] op \in {"BLTZ", "BLTZAL"} -> 0 [] op \in {"BGEZ", "BGEZAL"} -> 1

BitOf(op, n) == (Code(op) \div 2 ^ n) % 2 = 1

\* All ones, for an opcode that subtracts.
rsp_addsub_mask(op) == IF BitOf(op, 1) THEN RegMod - 1 ELSE 0

RSP_ADDIU_LUI_SUBIU(op, rs, imm) ==
  Low(rs + SImm(imm) * (IF BitOf(op, 2) THEN ImmMod ELSE 1))

RSP_ADDU_SUBU(op, rs, rt) ==
  LET mask == rsp_addsub_mask(op) IN Low(rs + ((rt ^^ mask) - mask))

\* The exclusive or has no bit of the and: their sum is the or.
RSP_AND_OR_XOR(op, rs, rt) ==
  LET rand == rs & rt
      rxor == rs ^^ rt
  IN IF Code(op) % 4 = 0 THEN rand ELSE IF Code(op) % 2 = 0 THEN rxor ELSE Low(rand + rxor)

RSP_ANDI_ORI_XORI(op, rs, imm) == RSP_AND_OR_XOR(op, rs, imm)

RSP_NOR(rs, rt) == RegMod - 1 - (rs | rt)
RSP_SLL_SLLV(rs, rt, sa) == Low(rt * 2 ^ (Shamt(rs) + sa))
RSP_SRA_SRAV(sa, rt) == Low(AsInt(rt) \div 2 ^ Shamt(sa))
RSP_SRL_SRLV(sa, rt) == rt \div 2 ^ Shamt(sa)
RSP_SLT_SLTI(rs, rt) == IF AsInt(rs) < AsInt(rt) THEN 1 ELSE 0
RSP_SLTU_SLTIU(rs, rt) == IF rs < rt THEN 1 ELSE 0

Arithmetic ==
  {"ADDIU", "LUI", "SLTI", "SLTIU", "ANDI", "ORI", "XORI", "ADDU", "SUBU", "AND", "OR", "XOR",
   "NOR", "SLL", "SLLV", "SRA", "SRAV", "SRL", "SRLV", "SLT", "SLTU"}

\* An opcode with an immediate has it in imm, a shift by a constant its amount.
Compute(op, rs, rt, imm) ==
  CASE op \in {"ADDIU", "LUI"} -> RSP_ADDIU_LUI_SUBIU(op, IF op = "LUI" THEN 0 ELSE rs, imm)
    [] op \in {"ADDU", "SUBU"} -> RSP_ADDU_SUBU(op, rs, rt)
    [] op \in {"AND", "OR", "XOR"} -> RSP_AND_OR_XOR(op, rs, rt)
    [] op \in {"ANDI", "ORI", "XORI"} -> RSP_ANDI_ORI_XORI(op, rs, imm)
    [] op = "NOR" -> RSP_NOR(rs, rt)
    [] op = "SLL" -> RSP_SLL_SLLV(0, rt, Shamt(imm)) [] op = "SLLV" -> RSP_SLL_SLLV(rs, rt, 0)
    [] op = "SRA" -> RSP_SRA_SRAV(imm, rt) [] op = "SRAV" -> RSP_SRA_SRAV(rs, rt)
    [] op = "SRL" -> RSP_SRL_SRLV(imm, rt) [] op = "SRLV" -> RSP_SRL_SRLV(rs, rt)
    [] op = "SLT" -> RSP_SLT_SLTI(rs, rt)
    [] op = "SLTI" -> RSP_SLT_SLTI(rs, Low(SImm(imm)))
    [] op = "SLTU" -> RSP_SLTU_SLTIU(rs, rt)
    [] op = "SLTIU" -> RSP_SLTU_SLTIU(rs, Low(SImm(imm)))

-----------------------------------------------------------------------------
\* Branches: taken or not, and the target, in IMEM.
Imem(a) == a - (a % 4) - ImemBytes * (a \div ImemBytes)

RSP_BEQ_BNE(op, rs, rt) == (rs = rt) # BitOf(op, 0)
RSP_BGEZ_BLTZ(op, rs) == (AsInt(rs) < 0) # BitOf(op, 0)

RSP_BGTZ_BLEZ(op, rs) == (AsInt(rs) <= 0) # BitOf(op, 0)

BranchTarget(pc, imm) == Imem(pc + SImm(imm) * 4 + 4)

Branches == {"BEQ", "BNE", "BGEZ", "BLTZ", "BGTZ", "BLEZ"}
TakenBranch(op, rs, rt) ==
  CASE op \in {"BEQ", "BNE"} -> RSP_BEQ_BNE(op, rs, rt)
    [] op \in {"BGEZ", "BLTZ", "BGEZAL", "BLTZAL"} -> RSP_BGEZ_BLTZ(op, rs)
    [] op \in {"BGTZ", "BLEZ"} -> RSP_BGTZ_BLEZ(op, rs)

\* Calls: the link. Only those of J_JAL and JALR_JR are cut to IMEM. Where J and JAL
\* jump is in RspPipeline.
Calls == {"JAL", "JALR", "BGEZAL", "BLTZAL"}
RSP_BGEZAL_BLTZAL(pc) == pc + 8
RSP_J_JAL(pc) == Imem(pc + 8)
LinkOf(op, pc) == IF op \in {"JAL", "JALR"} THEN RSP_J_JAL(pc) ELSE RSP_BGEZAL_BLTZAL(pc)
\* Mutant of RSP_JALR_JR: the target is not cut to IMEM.
RSP_JALR_JRUncut(rs) == rs

RSP_JALR_JR(rs) == Imem(rs)

-----------------------------------------------------------------------------
(***************************************************************************)
(* Loads and stores. Four bytes from the address on are read and written   *)
(* whatever the size is; a byte has ByteBits bits, the first is the        *)
(* highest.                                                                *)
(***************************************************************************)
Loads == {"LB", "LH", "LW", "LBU", "LHU"}
StoresTo == {"SB", "SH", "SW"}
RequestSize(op) == Code(op) % 4
SizeOf(op) == RequestSize(op) + 1

\* The load's table by the low bits of the opcode.
rsp_load_sex_mask(op) ==
  IF op = "LBU" THEN 2 ^ ByteBits - 1 ELSE IF op = "LHU" THEN ImmMod - 1 ELSE RegMod - 1

RSP_INT_MEM(op, rt) ==
  LET lshiftamt == (3 - RequestSize(op)) * ByteBits
      wdqm == RegMod - 2 ^ lshiftamt
  IN [data |-> Low(rt * 2 ^ lshiftamt), rdqm |-> rsp_load_sex_mask(op),
      rshift |-> lshiftamt, wdqm |-> IF op \in StoresTo THEN wdqm ELSE 0]

ReadWord(mem, a) ==
  ((mem[a] * 2 ^ ByteBits + mem[a + 1]) * 2 ^ ByteBits + mem[a + 2]) * 2 ^ ByteBits + mem[a + 3]
WriteWord(mem, a, word) ==
  [b \in DOMAIN mem |->
     IF b \in a .. a + 3 THEN (word \div 2 ^ ((a + 3 - b) * ByteBits)) % 2 ^ ByteBits ELSE mem[b]]

rsp_df_stage(mem, a, request) ==
  LET word == ReadWord(mem, a)
      keep == RegMod - 1 - request.wdqm
  IN [result |-> request.rdqm & Low(AsInt(word) \div 2 ^ request.rshift),
      mem |-> WriteWord(mem, a, (word & keep) | (request.data & request.wdqm))]

\* Six bytes of DMEM, that all differ as far as they can.
Memory == [a \in 0 .. 6 |-> (2 ^ ByteBits - 1) - (a % 2 ^ ByteBits)]

-----------------------------------------------------------------------------
Instr(op, rs, rt, imm) ==
  [op |-> op, rs |-> rs, rt |-> rt, imm |-> imm, pc |-> 0, load |-> "none", at |-> 0]

ScalarInit ==
  /\ sgave = [done |-> FALSE, result |-> 0, pc |-> 0, mem |-> Memory]
  /\ \E rs, rt \in ScalarOperands :
       \/ \E op \in Arithmetic, imm \in {rt % ImmMod} :
            scalar = Instr(op, rs, rt, imm)
       \/ \E op \in Branches, imm \in 0 .. ImmMod - 1, pc \in ScalarPcs :
            /\ rt \in {0, rs} /\ rs \in {0, 1, RegMod \div 2, RegMod - 1}
            /\ scalar = [Instr(op, rs, rt, imm) EXCEPT !.pc = pc]
       \/ \E op \in StoresTo, load \in Loads, at \in 0 .. 3 :
            /\ rs \in 0 .. 3
            /\ scalar = [Instr(op, rs, rt, 0) EXCEPT !.load = load, !.at = at]
       \/ \E op \in Calls, pc \in ScalarPcs :
            /\ rs = 0 /\ rt = 0
            /\ scalar = [Instr(op, rs, rt, 0) EXCEPT !.pc = pc]

Gives(what) ==
  /\ ~ sgave.done
  /\ sgave' = [what EXCEPT !.done = TRUE]
  /\ UNCHANGED scalar

Computes ==
  /\ scalar.op \in Arithmetic
  /\ Gives([sgave EXCEPT !.result = Compute(scalar.op, scalar.rs, scalar.rt, scalar.imm)])

\* Of a branch that is not taken the pc goes on after the delay slot.
BranchesTo ==
  /\ scalar.op \in Branches
  /\ Gives([sgave EXCEPT !.pc = IF TakenBranch(scalar.op, scalar.rs, scalar.rt)
                                THEN BranchTarget(scalar.pc, scalar.imm)
                                ELSE Imem(scalar.pc + 8)])

StoresAndLoads ==
  /\ scalar.op \in StoresTo
  /\ LET stored == rsp_df_stage(sgave.mem, scalar.rs, RSP_INT_MEM(scalar.op, scalar.rt))
         loaded == rsp_df_stage(stored.mem, scalar.at, RSP_INT_MEM(scalar.load, 0))
     IN Gives([sgave EXCEPT !.mem = loaded.mem, !.result = loaded.result])

CallsAndReturns ==
  /\ scalar.op \in Calls
  /\ LET link == LinkOf(scalar.op, scalar.pc)
     IN Gives([sgave EXCEPT !.result = link, !.pc = RSP_JALR_JR(link)])

ScalarNext == Computes \/ BranchesTo \/ StoresAndLoads \/ CallsAndReturns

ScalarSpec == ScalarInit /\ [][ScalarNext]_scalarVars

-----------------------------------------------------------------------------
(***************************************************************************)
(* What the instruction set says.                                          *)
(***************************************************************************)
Bit(x, n) == (x \div 2 ^ n) % 2
BitsAre(x, f(_)) == \A n \in 0 .. RegBits - 1 : Bit(x, n) = IF f(n) THEN 1 ELSE 0

\* Every opcode, of those that share a function too, computes what is its own.
ScalarRight ==
  sgave.done /\ scalar.op \in Arithmetic =>
    LET op == scalar.op
        rs == scalar.rs
        x == sgave.result
        other == IF op \in {"ANDI", "ORI", "XORI"} THEN scalar.imm
                 ELSE IF op \in {"SLTI", "SLTIU"} THEN Low(SImm(scalar.imm)) ELSE scalar.rt
        sa == IF op \in {"SLL", "SRA", "SRL"} THEN scalar.imm % RegBits ELSE rs % RegBits
        shifted(n) == n + sa < RegBits /\ Bit(other, n + sa) = 1
        sign(n) == n + sa >= RegBits /\ AsInt(other) < 0
    IN CASE op = "ADDIU" -> (x - rs - SImm(scalar.imm)) % RegMod = 0
         [] op = "LUI" -> x = scalar.imm * ImmMod
         [] op = "ADDU" -> (x - rs - other) % RegMod = 0
         [] op = "SUBU" -> (x - rs + other) % RegMod = 0
         [] op \in {"AND", "ANDI"} -> BitsAre(x, LAMBDA n : Bit(rs, n) + Bit(other, n) = 2)
         [] op \in {"OR", "ORI"} -> BitsAre(x, LAMBDA n : Bit(rs, n) + Bit(other, n) > 0)
         [] op \in {"XOR", "XORI"} -> BitsAre(x, LAMBDA n : Bit(rs, n) # Bit(other, n))
         [] op = "NOR" -> BitsAre(x, LAMBDA n : Bit(rs, n) + Bit(other, n) = 0)
         [] op \in {"SLL", "SLLV"} -> BitsAre(x, LAMBDA n : n >= sa /\ Bit(other, n - sa) = 1)
         [] op \in {"SRL", "SRLV"} -> BitsAre(x, shifted)
         [] op \in {"SRA", "SRAV"} -> BitsAre(x, LAMBDA n : shifted(n) \/ sign(n))
         [] op \in {"SLT", "SLTI"} -> x = IF AsInt(rs) < AsInt(other) THEN 1 ELSE 0
         [] op \in {"SLTU", "SLTIU"} -> x = IF rs < other THEN 1 ELSE 0

\* A branch goes by its condition, and to a place counted from its delay slot,
\* around the end of IMEM.
BranchesRight ==
  sgave.done /\ scalar.op \in Branches =>
    LET s == AsInt(scalar.rs)
        yes == CASE scalar.op = "BEQ" -> scalar.rs = scalar.rt [] scalar.op = "BNE" -> scalar.rs # scalar.rt
                 [] scalar.op = "BGEZ" -> s >= 0 [] scalar.op = "BLTZ" -> s < 0
                 [] scalar.op = "BGTZ" -> s > 0 [] scalar.op = "BLEZ" -> s <= 0
        far == IF yes THEN 1 + SImm(scalar.imm) ELSE 2
    IN sgave.pc = (scalar.pc + 4 * far) % ImemBytes

\* What a store wrote is what a load finds, at any two addresses and of any two
\* sizes: the bytes of the one, and around them those that were there.
StoredLoaded ==
  sgave.done /\ scalar.op \in StoresTo =>
    LET size == SizeOf(scalar.op)
        byte(n) == IF n \in scalar.rs .. scalar.rs + size - 1
                   THEN (scalar.rt \div 2 ^ ((size - 1 + scalar.rs - n) * ByteBits)) % 2 ^ ByteBits
                   ELSE Memory[n]
        bytes == SizeOf(scalar.load)
        value[k \in 0 .. bytes] ==
          IF k = 0 THEN 0 ELSE value[k - 1] * 2 ^ ByteBits + byte(scalar.at + k - 1)
    IN /\ \A n \in DOMAIN sgave.mem : sgave.mem[n] = byte(n)
       /\ sgave.result = IF scalar.load \in {"LBU", "LHU"} THEN value[bytes]
                         ELSE Low(SignOf(value[bytes], bytes * ByteBits))

\* A return goes to the instruction after the delay slot of its call, also when
\* that is around the end of IMEM, though half of the calls do not cut the link.
CallsReturn ==
  sgave.done /\ scalar.op \in Calls => sgave.pc = (scalar.pc + 8) % ImemBytes

\* The scalar instructions as a whole: results, branches, memory and calls.
RspComputesRight == ScalarRight /\ BranchesRight /\ StoredLoaded /\ CallsReturn
=============================================================================
