-------------------------- MODULE VrPipeline_proofs --------------------------
(***************************************************************************)
(* VrRunsRight, for every program and every way the caches miss and        *)
(* devices interrupt: the pipeline runs a program as its instruction set   *)
(* would, with exact exceptions, in fast and slow mode, and takes          *)
(* interrupts in time.                                                     *)
(*                                                                         *)
(* The invariant compares the latches with vrisa, the same program run one *)
(* instruction at a time, where the last cycle has left them: at a stage,  *)
(* for each of the stages from which the next cycle goes on (AtWb, AtDc,   *)
(* AtEx, AtRf, AtIc). Each stage takes the predicate of its own place to   *)
(* that of the next, so a slow cycle is a walk through them that an        *)
(* interlock may end anywhere, and a fast one the same walk to its end.    *)
(* What is in EX/DC has been executed but not accepted (Ahead); the two    *)
(* younger latches hold what follows it (Follows), and marked latches are  *)
(* young (Young), which is why the fast mode meets none.                   *)
(***************************************************************************)
EXTENDS VrPipeline, Integers, TLAPS

Opcodes == VrAllOpcodes \ {"lwa", "trap", "bad"}
Data == 0 .. VrModulus - 1
Codes == {"none", "Int", "WATCH", "TLBx", "Mod", "AdEL", "Sys", "CpU", "Tr", "RI", "TLBI", "ERET"}
Texts ==
  VrAllOpcodes \cup Codes
  \cup {"handle", "eret", "NONE", "RST", "DTLB", "INTR", "WAT", "CPU", "SYSC", "ERET",
        "wb", "dc", "ex", "rf", "ic", "busywait", "dcm", "ok", "miss", "invalid", "clean"}

Fetch == [pc : Int, next : Int, fault : Texts, bd : BOOLEAN]
Decode == [pc : Int, fault : Texts, bd : BOOLEAN, op : Texts, kill : BOOLEAN]
Execute == [pc : Int, fault : Texts, bd : BOOLEAN, op : Texts, dest : 0 .. 3, result : Data,
            request : {"none", "read", "write"}, data : Data]
WriteBack == [pc : Int, fault : Texts, bd : BOOLEAN, dest : 0 .. 3, result : Data, store : BOOLEAN]
Control == [exl : BOOLEAN, erl : BOOLEAN, epc : Int, errorepc : Int, bd : BOOLEAN, code : Texts]
Machines ==
  [icrf : Fetch, rfex : Decode, exdc : Execute, dcwb : WriteBack,
   regs : [1 .. 2 -> Data], mem : Data, lo : Data, cp0 : Control,
   type : Texts, history : 0 .. 4, fault_present : BOOLEAN,
   pend : BOOLEAN, tlb : Texts, ifetch : BOOLEAN,
   commit : Texts, raised : Texts, vector : Int, stop : BOOLEAN]
IsaStates ==
  [pc : Int, next : Int, slot : BOOLEAN, void : BOOLEAN, regs : [1 .. 2 -> Data], mem : Data,
   lo : Data, epc : Int, bd : BOOLEAN, code : Texts, inorder : BOOLEAN, precise : BOOLEAN,
   waited : Nat]

\* Programs, as a set of functions that the provers can look into.
VrPrograms ==
  {p \in [0 .. 4 -> Opcodes] :
     /\ p[3] = "j" /\ p[4] = "nop"
     /\ \A n \in 0 .. 3 : /\ p[n] \in Branches => p[n + 1] \notin Branches
                          /\ p[n] = "spin" => p[n + 1] = "nop"}

WordOf(p, pc) ==
  CASE pc \in 0 .. 4 -> p[pc]
    [] pc \in Vectors -> "handle"
    [] pc - 1 \in Vectors -> "eret"
    [] OTHER -> "nop"
OpOf(p, i) == IF i.void THEN "nop" ELSE WordOf(p, i.pc)

-----------------------------------------------------------------------------
\* The program between two instructions, and the handler.
Plain(i) == ~ i.slot /\ ~ i.void /\ i.next = i.pc + 1
AfterBranch(p, i) ==
  /\ i.slot /\ i.pc \in 1 .. 4 /\ i.next \in 0 .. 3
  /\ p[i.pc - 1] \in Branches
  /\ i.void = (p[i.pc - 1] = "beql" /\ i.regs[1] # i.regs[2])
  /\ p[i.pc - 1] = "spin" => i.next = i.pc - 1
InProgram(p, i) == (Plain(i) /\ i.pc \in 0 .. 3) \/ AfterBranch(p, i)
InHandler(p, i) ==
  /\ Plain(i) /\ i.epc \in 0 .. 3
  /\ i.pc \in Vectors \/ i.pc - 1 \in Vectors
  /\ i.pc \in Vectors /\ i.code \in SteppedOver /\ ~ i.bd => i.epc \in 0 .. 2
Placed(p, i, exl) == IF exl THEN InHandler(p, i) ELSE InProgram(p, i)

\* A multiplication that an interrupt takes back is done again, before LO is used.
Multiplies(p, at, regs) ==
  \/ p[at] \in Multiplications
  \/ p[at] \in Branches /\ p[at + 1] \in Multiplications /\ (p[at] = "beql" => regs[1] = regs[2])
Redoes(p, i, exl) ==
  IF exl THEN i.code = "Int" /\ Multiplies(p, i.epc, i.regs)
  ELSE ~ i.void /\ i.pc \in 0 .. 4 /\ Multiplies(p, i.pc, i.regs)

Valid(latch) == latch.fault = "NONE"

RequestOf(op) ==
  CASE op \in Loads -> "read" [] op \in VrStores -> "write" [] OTHER -> "none"

\* EX has executed the next instruction of the program.
Executes(p, x, i) ==
  LET op == OpOf(p, i) IN
  /\ op \notin {"eret", "syscall", "fpu"}
  /\ x.pc = i.pc /\ x.op = op /\ (op # "handle" => x.bd = i.slot)
  /\ x.dest = (IF op = "spin" THEN CYCLE_TYPE ELSE VrDest(op))
  /\ x.request = RequestOf(op)
  /\ x.result = VrResult(op, i.pc, i.regs[1], i.regs[2], i.lo)
  /\ x.data = i.regs[1]
Ahead(p, s, i) == IF Valid(s.exdc) THEN IsaExecute(i, OpOf(p, i)) ELSE i

Marked(bd, i) == i.pc \in Vectors \/ bd = i.slot

\* The two younger latches hold what comes next.
Decoded(p, s, j) ==
  /\ Valid(s.rfex) /\ Valid(s.icrf)
  /\ s.rfex.pc = j.pc /\ s.rfex.op = OpOf(p, j) /\ Marked(s.rfex.bd, j)
  /\ s.icrf.pc = j.next /\ s.icrf.bd = (s.rfex.op \in Branches) /\ s.icrf.next = j.next + 1
Fetched(s, j) ==
  /\ ~ Valid(s.rfex) /\ Valid(s.icrf)
  /\ Plain(j) /\ s.icrf.pc = j.pc /\ Marked(s.icrf.bd, j) /\ s.icrf.next = j.next
Empty(s, j) ==
  /\ ~ Valid(s.rfex) /\ ~ Valid(s.icrf)
  /\ Plain(j) /\ s.icrf.next = j.pc /\ (j.pc \in Vectors \/ s.rfex.op \notin Branches)
Follows(p, s, j) ==
  /\ ~ s.rfex.kill
  /\ Decoded(p, s, j) \/ Fetched(s, j) \/ Empty(s, j)

\* What is not in the latches.
Agree(p, s, i, j) ==
  /\ s.mem = i.mem
  /\ s.cp0.epc = j.epc /\ s.cp0.bd = j.bd /\ s.cp0.code = j.code /\ ~ s.cp0.erl
  /\ s.lo = j.lo \/ Redoes(p, i, s.cp0.exl)
  /\ Placed(p, i, s.cp0.exl)
  /\ i.inorder /\ i.precise
Sound(p, s, i) ==
  /\ Agree(p, s, i, Ahead(p, s, i))
  /\ Valid(s.exdc) => /\ Executes(p, s.exdc, i)
                      /\ s.exdc.op \in Multiplications => s.lo = Ahead(p, s, i).lo

\* Registers, with the last latch on top.
Drained(latch, regs, n) == IF latch.dest = n THEN latch.result ELSE regs[n]
Waits(p, i, exl) == ~ exl /\ i.slot /\ p[i.pc - 1] = "spin"

Written(p, s, i) ==
  /\ \A n \in 1 .. 2 : i.regs[n] = IF Valid(s.dcwb) THEN Drained(s.dcwb, s.regs, n) ELSE s.regs[n]
  /\ Valid(s.dcwb) /\ s.dcwb.dest = CYCLE_TYPE => Waits(p, i, s.cp0.exl)
Held(p, s, i) ==
  /\ \A n \in 1 .. 2 : i.regs[n] = Drained(s.dcwb, s.regs, n)
  /\ ~ Valid(s.dcwb) => s.dcwb.dest = 0
  /\ s.dcwb.dest = CYCLE_TYPE => Waits(p, i, s.cp0.exl)

\* A latch is marked only for so many cycles after the fault.
Young(s, latch, age) == ~ Valid(latch) => s.fault_present /\ s.history <= age

AtWb(p, s, i) ==
  /\ Sound(p, s, i) /\ Written(p, s, i)
  /\ Follows(p, s, Ahead(p, s, i)) /\ (Valid(s.exdc) => Valid(s.rfex))
  /\ Valid(s.rfex) /\ ~ Valid(s.exdc) => s.exdc.dest = 0
  /\ Young(s, s.icrf, 0) /\ Young(s, s.rfex, 1) /\ Young(s, s.exdc, 2) /\ Young(s, s.dcwb, 3)
AtDc(p, s, i) ==
  /\ Sound(p, s, i) /\ s.regs = i.regs
  /\ Follows(p, s, Ahead(p, s, i)) /\ (Valid(s.exdc) => Valid(s.rfex))
  /\ Valid(s.rfex) /\ ~ Valid(s.exdc) => s.exdc.dest = 0
  /\ Young(s, s.icrf, 1) /\ Young(s, s.rfex, 2) /\ Young(s, s.exdc, 3)
AtEx(p, s, i) ==
  /\ Agree(p, s, i, i) /\ Held(p, s, i)
  /\ Follows(p, s, i)
  /\ Young(s, s.icrf, 1) /\ Young(s, s.rfex, 2) /\ Young(s, s.dcwb, 3)
AtRf(p, s, i) ==
  LET j == Ahead(p, s, i) IN
  /\ Sound(p, s, i) /\ Held(p, s, i)
  /\ s.rfex.kill = j.void
  /\ IF Valid(s.icrf) THEN s.icrf.pc = j.pc /\ Marked(s.icrf.bd, j) /\ s.icrf.next = j.next
     ELSE /\ ~ Valid(s.exdc) /\ Plain(j) /\ s.icrf.next = j.pc
          /\ j.pc \in Vectors \/ s.rfex.op \notin Branches
  /\ ~ Valid(s.exdc) => s.exdc.dest = 0
  /\ Young(s, s.icrf, 1) /\ Young(s, s.exdc, 2) /\ Young(s, s.dcwb, 3)
AtIc(p, s, i) ==
  LET j == Ahead(p, s, i) IN
  /\ Sound(p, s, i) /\ Held(p, s, i)
  /\ s.rfex.kill = j.void
  /\ IF Valid(s.rfex) THEN /\ s.rfex.pc = j.pc /\ Marked(s.rfex.bd, j)
                           /\ s.rfex.op = WordOf(p, j.pc) /\ s.icrf.next = j.next
     ELSE /\ ~ Valid(s.exdc) /\ Plain(j) /\ s.icrf.next = j.pc
          /\ j.pc \in Vectors \/ s.rfex.op \notin Branches
  /\ ~ Valid(s.exdc) => s.exdc.dest = 0
  /\ Young(s, s.rfex, 1) /\ Young(s, s.exdc, 2) /\ Young(s, s.dcwb, 3)
AtWait(p, s, i) ==
  /\ Agree(p, s, i, i) /\ s.regs = i.regs /\ ~ s.cp0.exl /\ ~ s.rfex.kill
  /\ i.slot /\ i.pc = s.dcwb.pc /\ s.dcwb.bd /\ p[i.pc - 1] = "spin"

AtCycle(p, s, i) ==
  /\ s.type = "wb" => AtWb(p, s, i)
  /\ s.type \in {"dc", "dcm"} => AtDc(p, s, i) /\ Valid(s.exdc)
  /\ s.type = "ex" => AtEx(p, s, i) /\ Valid(s.rfex)
  /\ s.type = "rf" => AtRf(p, s, i) /\ Valid(s.icrf) /\ Valid(s.exdc)
  /\ s.type = "ic" => AtIc(p, s, i)
  /\ s.type = "busywait" => AtWait(p, s, i)

\* How many cycles without a stall an interrupt may still wait for, from each
\* of the stages on.
RankIc(s) == IF Valid(s.exdc) THEN 1 ELSE IF Valid(s.rfex) THEN 4 ELSE 6
RankRf(s) == IF Valid(s.exdc) THEN 2 ELSE IF Valid(s.icrf) THEN 5 ELSE 6
RankEx(s) ==
  IF Valid(s.rfex) THEN IF s.exdc.request = "read" /\ s.exdc.dest # 0 THEN 4 ELSE 3
  ELSE IF Valid(s.icrf) THEN 5 ELSE 6
RankDc(s) == IF Valid(s.exdc) THEN 0 ELSE RankEx(s)
Rank(s) ==
  CASE s.type = "wb" -> RankDc(s) [] s.type = "ex" -> RankEx(s) [] s.type = "rf" -> RankRf(s)
    [] s.type = "ic" -> RankIc(s) [] s.type = "dcm" -> 1 [] OTHER -> 0
Prompt(s, i) == IF Pending(s) THEN i.waited + Rank(s) <= 7 ELSE i.waited = 0

\* The invariant.
VrPipeInv ==
  /\ vrprog \in VrPrograms /\ vr \in Machines /\ vrisa \in IsaStates
  /\ vr.type \in {"wb", "dc", "ex", "rf", "ic", "busywait", "dcm"}
  /\ AtCycle(vrprog, vr, vrisa)
  /\ Prompt(vr, vrisa)
-----------------------------------------------------------------------------
USE DEF Multiplications

\* What a register may hold.
LEMMA DataTypes ==
  /\ VrModulus \in Nat \ {0} /\ 0 \in Data
  /\ \A x \in Int : x % VrModulus \in Data
  /\ \A x \in Data : x \in Int
<1>1. VrModulus \in Nat \ {0}
  BY VrPipelineAssumption
<1>2. \A x \in Int : x % VrModulus \in 0 .. VrModulus - 1
  BY <1>1
<1> QED BY <1>1, <1>2 DEF Data

\* The names that the machine's fields take.
LEMMA TextFacts ==
  /\ Opcodes \subseteq Texts /\ Codes \subseteq Texts
  /\ {"handle", "eret", "NONE", "RST", "DTLB", "INTR", "WAT", "CPU", "SYSC", "ERET",
      "wb", "dc", "ex", "rf", "ic", "busywait", "dcm", "ok", "miss", "invalid", "clean",
      "nop"} \subseteq Texts
BY DEF Texts, Opcodes, VrAllOpcodes

\* Types of what an instruction asks for and gives.
LEMMA OpcodeFacts ==
  ASSUME NEW op, NEW pc \in Int, NEW r1 \in Data, NEW r2 \in Data, NEW lo \in Data
  PROVE  /\ VrDest(op) \in 0 .. 2
         /\ RequestOf(op) \in {"none", "read", "write"}
         /\ VrResult(op, pc, r1, r2, lo) \in Data
         /\ VrTarget(op, pc) \in Int
         /\ VrProduct(r1, r2) \in Data
         /\ VrTaken(op, r1, r2) \in BOOLEAN
<1>1. VrDest(op) \in 0 .. 2
  BY DEF VrDest
<1>2. RequestOf(op) \in {"none", "read", "write"}
  BY DEF RequestOf
<1>3. /\ (r1 + r2 + 1) % VrModulus \in Data /\ (pc + 2) % VrModulus \in Data
      /\ (r1 + 2 * r2) % VrModulus \in Data
  <2>1. r1 + r2 + 1 \in Int /\ pc + 2 \in Int /\ r1 + 2 * r2 \in Int
    BY DataTypes
  <2> QED BY <2>1, DataTypes
<1>4. VrResult(op, pc, r1, r2, lo) \in Data
  BY <1>3, DataTypes DEF VrResult
<1>5. VrTarget(op, pc) \in Int
  BY DEF VrTarget
<1> QED BY <1>1, <1>2, <1>3, <1>4, <1>5 DEF VrProduct, VrTaken

\* What no opcode but one does.
LEMMA OpcodeKinds ==
  ASSUME NEW op
  PROVE  /\ op \in Branches => /\ op \notin Loads /\ op \notin VrStores
                               /\ op \notin {"mult", "dmult", "handle", "eret", "nop", "mflo"}
                               /\ RequestOf(op) = "none"
         /\ op \in Loads => op \notin VrStores /\ VrDest(op) = 1 /\ RequestOf(op) = "read"
         /\ op \in VrStores => VrDest(op) = 0 /\ RequestOf(op) = "write"
         /\ op \notin Loads \cup VrStores => RequestOf(op) = "none"
         /\ op \in {"nop", "handle", "eret", "syscall", "fpu", "mult", "dmult", "beq", "beql", "j", "spin"} =>
            VrDest(op) = 0
BY DEF Branches, Loads, VrStores, VrDest, RequestOf

-----------------------------------------------------------------------------
(* The program, one instruction at a time.                                *)

\* The words of a program and of the handlers.
LEMMA WordFacts ==
  ASSUME NEW p \in VrPrograms
  PROVE  /\ \A n \in 0 .. 4 : p[n] \in Opcodes /\ WordOf(p, n) = p[n]
         /\ WordOf(p, 10) = "handle" /\ WordOf(p, 14) = "handle"
         /\ WordOf(p, 11) = "eret" /\ WordOf(p, 15) = "eret"
         /\ p[3] = "j" /\ p[4] = "nop"
         /\ \A n \in 0 .. 3 : p[n] \in Branches => p[n + 1] \notin Branches
         /\ \A n \in 0 .. 3 : p[n] = "spin" => p[n + 1] = "nop"
<1>1. p \in [0 .. 4 -> Opcodes]
  BY DEF VrPrograms
<1>2. \A n \in 0 .. 4 : p[n] \in Opcodes /\ WordOf(p, n) = p[n]
  BY <1>1 DEF WordOf, Vectors, RefillVector, GeneralVector
<1>3. /\ WordOf(p, 10) = "handle" /\ WordOf(p, 14) = "handle"
      /\ WordOf(p, 11) = "eret" /\ WordOf(p, 15) = "eret"
  BY DEF WordOf, Vectors, RefillVector, GeneralVector
<1> QED BY <1>2, <1>3 DEF VrPrograms

\* The two vectors.
LEMMA VectorFacts ==
  Vectors = {10, 14} /\ Vectors \subseteq Int
BY DEF Vectors, RefillVector, GeneralVector

\* The fields of IsaExecute.
LEMMA IsaExecuteTyped ==
  ASSUME NEW i \in IsaStates, NEW op
  PROVE  LET k == IsaExecute(i, op)
             r1 == i.regs[1]
             r2 == i.regs[2]
         IN /\ k \in IsaStates
            /\ k.pc = i.next
            /\ k.next = (IF VrTaken(op, r1, r2) THEN VrTarget(op, i.pc) ELSE i.next + 1)
            /\ k.slot = (op \in Branches)
            /\ k.void = (op = "beql" /\ ~ VrTaken(op, r1, r2))
            /\ \A n \in 1 .. 2 : k.regs[n] =
                 IF VrDest(op) = n
                 THEN IF op \in Loads THEN i.mem ELSE VrResult(op, i.pc, r1, r2, i.lo)
                 ELSE i.regs[n]
            /\ k.mem = (IF op \in VrStores THEN r1 ELSE i.mem)
            /\ k.lo = (IF op \in Multiplications THEN VrProduct(r1, r2) ELSE i.lo)
            /\ k.epc = (IF op = "handle" /\ i.code \in SteppedOver /\ ~ i.bd THEN i.epc + 1 ELSE i.epc)
            /\ k.bd = i.bd /\ k.code = i.code
            /\ k.inorder = i.inorder /\ k.precise = i.precise /\ k.waited = i.waited
<1> DEFINE r1 == i.regs[1]
           r2 == i.regs[2]
           value == IF op \in Loads THEN i.mem ELSE VrResult(op, i.pc, r1, r2, i.lo)
           regs == IF VrDest(op) = 0 THEN i.regs ELSE [i.regs EXCEPT ![VrDest(op)] = value]
           next == IF VrTaken(op, r1, r2) THEN VrTarget(op, i.pc) ELSE i.next + 1
           mem == IF op \in VrStores THEN r1 ELSE i.mem
           lo == IF op \in Multiplications THEN VrProduct(r1, r2) ELSE i.lo
           epc == IF op = "handle" /\ i.code \in SteppedOver /\ ~ i.bd THEN i.epc + 1 ELSE i.epc
           void == op = "beql" /\ ~ VrTaken(op, r1, r2)
           slot == op \in Branches
           k == [i EXCEPT !.pc = i.next, !.next = next, !.slot = slot, !.void = void,
                          !.regs = regs, !.mem = mem, !.lo = lo, !.epc = epc]
<1>1. /\ i.pc \in Int /\ i.next \in Int /\ i.epc \in Int /\ i.regs \in [1 .. 2 -> Data]
      /\ i.mem \in Data /\ i.lo \in Data /\ r1 \in Data /\ r2 \in Data
  BY DEF IsaStates
<1>2. /\ VrDest(op) \in 0 .. 2 /\ VrResult(op, i.pc, r1, r2, i.lo) \in Data
      /\ VrTarget(op, i.pc) \in Int /\ VrProduct(r1, r2) \in Data
  BY <1>1, OpcodeFacts
<1>3. value \in Data /\ next \in Int /\ mem \in Data /\ lo \in Data /\ epc \in Int
  BY <1>1, <1>2
<1>4. /\ regs \in [1 .. 2 -> Data]
      /\ \A n \in 1 .. 2 : regs[n] = IF VrDest(op) = n THEN value ELSE i.regs[n]
  <2> HIDE DEF value
  <2>1. CASE VrDest(op) = 0
    BY <1>1, <2>1
  <2>2. CASE VrDest(op) \in 1 .. 2
    BY <1>1, <1>3, <2>2
  <2> QED BY <1>2, <2>1, <2>2
<1>5. IsaExecute(i, op) = k
  BY Zenon DEF IsaExecute
<1>6. slot \in BOOLEAN /\ void \in BOOLEAN
  OBVIOUS
<1> HIDE DEF regs, next, mem, lo, epc, slot, void, value, r1, r2
<1>7. /\ k \in IsaStates
      /\ k.pc = i.next /\ k.next = next /\ k.slot = slot /\ k.void = void /\ k.regs = regs
      /\ k.mem = mem /\ k.lo = lo /\ k.epc = epc /\ k.bd = i.bd /\ k.code = i.code
      /\ k.inorder = i.inorder /\ k.precise = i.precise /\ k.waited = i.waited
  BY <1>1, <1>3, <1>4, <1>6 DEF IsaStates
<1> HIDE DEF k
<1> QED BY <1>4, <1>5, <1>7, ZenonT(30) DEF regs, next, mem, lo, epc, slot, void, value, r1, r2

\* Which instruction is next, inside and outside of a handler.
LEMMA OpOfFacts ==
  ASSUME NEW p \in VrPrograms, NEW i \in IsaStates, NEW exl \in BOOLEAN, Placed(p, i, exl)
  PROVE  /\ ~ exl => i.pc \in 0 .. 4 /\ OpOf(p, i) \in Opcodes /\ (~ i.void => OpOf(p, i) = p[i.pc])
         /\ exl => /\ i.pc \in Vectors => OpOf(p, i) = "handle"
                   /\ i.pc \notin Vectors => OpOf(p, i) = "eret"
                   /\ i.pc \in Vectors \/ i.pc - 1 \in Vectors
         /\ OpOf(p, i) \in {"handle", "eret"} <=> exl
         /\ OpOf(p, i) = "handle" <=> i.pc \in Vectors
<1>1. i.pc \in Int /\ i.slot \in BOOLEAN /\ i.void \in BOOLEAN
  BY DEF IsaStates
<1>2. "handle" \notin Opcodes /\ "eret" \notin Opcodes /\ "nop" \in Opcodes
  BY DEF Opcodes, VrAllOpcodes
<1>3. CASE ~ exl
  <2>1. i.pc \in 0 .. 4
    BY <1>1, <1>3 DEF Placed, InProgram, AfterBranch
  <2>2. i.pc \notin Vectors
    BY <2>1, VectorFacts
  <2> QED BY <1>2, <1>3, <2>1, <2>2, WordFacts DEF OpOf
<1>4. CASE exl
  <2>1. ~ i.void /\ (i.pc \in Vectors \/ i.pc - 1 \in Vectors)
    BY <1>4 DEF Placed, InHandler, Plain
  <2>2. i.pc \in {10, 14} \/ i.pc \in {11, 15}
    BY <1>1, <2>1, VectorFacts
  <2> QED BY <1>4, <2>1, <2>2, VectorFacts, WordFacts DEF OpOf
<1> QED BY <1>3, <1>4

\* Where an instruction leads.
LEMMA ExecutePlaced ==
  ASSUME NEW p \in VrPrograms, NEW i \in IsaStates, NEW exl \in BOOLEAN, Placed(p, i, exl),
         OpOf(p, i) # "eret"
  PROVE  LET k == IsaExecute(i, OpOf(p, i)) IN
         /\ k \in IsaStates /\ Placed(p, k, exl)
         /\ OpOf(p, i) \notin Branches => Plain(k) /\ k.pc = i.next
         /\ OpOf(p, i) = "spin" => Waits(p, k, exl)
<1> DEFINE op == OpOf(p, i)
           k == IsaExecute(i, op)
           r1 == i.regs[1]
           r2 == i.regs[2]
<1>1. /\ i.pc \in Int /\ i.next \in Int /\ i.slot \in BOOLEAN /\ i.void \in BOOLEAN /\ i.epc \in Int
      /\ r1 \in Data /\ r2 \in Data
  BY DEF IsaStates
<1>2. /\ k \in IsaStates /\ k.pc = i.next
      /\ k.next = (IF VrTaken(op, r1, r2) THEN VrTarget(op, i.pc) ELSE i.next + 1)
      /\ k.slot = (op \in Branches) /\ k.void = (op = "beql" /\ ~ VrTaken(op, r1, r2))
      /\ \A n \in 1 .. 2 : k.regs[n] =
           IF VrDest(op) = n THEN IF op \in Loads THEN i.mem ELSE VrResult(op, i.pc, r1, r2, i.lo)
           ELSE i.regs[n]
      /\ k.epc = (IF op = "handle" /\ i.code \in SteppedOver /\ ~ i.bd THEN i.epc + 1 ELSE i.epc)
      /\ k.bd = i.bd /\ k.code = i.code
  BY IsaExecuteTyped
<1>3. op \notin Branches => ~ VrTaken(op, r1, r2) /\ op # "beql"
  BY DEF VrTaken, Branches
<1>4. /\ ~ exl => i.pc \in 0 .. 4 /\ (~ i.void => op = p[i.pc]) /\ (i.void => op = "nop")
      /\ op \in {"handle", "eret"} <=> exl
      /\ op = "handle" <=> i.pc \in Vectors
  BY OpOfFacts DEF OpOf
<1>5. CASE exl
  <2>1. op = "handle" /\ i.pc \in Vectors
    BY <1>4, <1>5
  <2>2. op \notin Branches
    BY <2>1 DEF Branches
  <2>3. InHandler(p, i)
    BY <1>5 DEF Placed
  <2>4. Plain(k) /\ k.pc = i.next /\ i.next = i.pc + 1
    BY <1>1, <1>2, <1>3, <2>2, <2>3 DEF Plain, InHandler
  <2>5. k.epc \in 0 .. 3
    BY <1>2, <2>1, <2>3 DEF InHandler
  <2>6. k.pc \notin Vectors /\ k.pc - 1 \in Vectors
    BY <1>1, <2>1, <2>4, VectorFacts
  <2>7. InHandler(p, k)
    BY <2>4, <2>5, <2>6 DEF InHandler
  <2> HIDE DEF k, op
  <2> QED BY <1>2, <1>5, <2>1, <2>2, <2>4, <2>7 DEF Placed, k, op
<1>6. CASE ~ exl /\ op \notin Branches
  <2>1. Plain(k) /\ k.pc = i.next
    BY <1>1, <1>2, <1>3, <1>6 DEF Plain
  <2>2. InProgram(p, i)
    BY <1>6 DEF Placed
  <2>3. i.next \in 0 .. 3
    <3>1. CASE Plain(i) /\ i.pc \in 0 .. 3
      <4>1. op = p[i.pc] /\ i.next = i.pc + 1
        BY <1>4, <1>6, <3>1 DEF Plain
      <4>2. i.pc # 3
        BY <1>6, <4>1, WordFacts DEF Branches
      <4> QED BY <3>1, <4>1, <4>2
    <3>2. CASE AfterBranch(p, i)
      BY <3>2 DEF AfterBranch
    <3> QED BY <2>2, <3>1, <3>2 DEF InProgram
  <2>4. Placed(p, k, exl)
    BY <1>6, <2>1, <2>3 DEF Placed, InProgram
  <2>5. op # "spin"
    BY <1>6 DEF Branches
  <2> HIDE DEF k, op
  <2> QED BY <1>2, <2>1, <2>4, <2>5 DEF k, op
<1>7. CASE ~ exl /\ op \in Branches
  <2>1. ~ i.void /\ op = p[i.pc] /\ i.pc \in 0 .. 4
    BY <1>1, <1>4, <1>7 DEF Branches
  <2>2. InProgram(p, i)
    BY <1>7 DEF Placed
  <2>3. ~ AfterBranch(p, i)
    <3> SUFFICES ASSUME AfterBranch(p, i) PROVE FALSE
      OBVIOUS
    <3>1. i.pc - 1 \in 0 .. 3 /\ p[i.pc - 1] \in Branches /\ i.pc - 1 + 1 = i.pc
      BY DEF AfterBranch
    <3>2. p[i.pc] \notin Branches
      BY <3>1, WordFacts
    <3> QED BY <1>7, <2>1, <3>2
  <2>4. i.pc \in 0 .. 3 /\ i.next = i.pc + 1
    BY <2>2, <2>3 DEF InProgram, Plain
  <2>5. k.slot /\ k.pc \in 1 .. 4 /\ k.pc - 1 = i.pc
    <3>1. k.slot = (op \in Branches) /\ k.pc = i.next
      BY <1>2
    <3>2. k.slot
      BY <1>7, <3>1
    <3> HIDE DEF k, op
    <3> QED BY <2>4, <3>1, <3>2
  <2>6. VrDest(op) # 1 /\ (op = "beql" => VrDest(op) = 0)
    BY <1>7 DEF Branches, VrDest, Loads
  <2>7. k.void = (p[k.pc - 1] = "beql" /\ k.regs[1] # k.regs[2])
    <3>1. op = "beql" => k.regs[1] = r1 /\ k.regs[2] = r2
      BY <1>2, <2>6
    <3>2. op = "beql" => (VrTaken(op, r1, r2) <=> r1 = r2)
      BY DEF VrTaken
    <3>3. p[k.pc - 1] = op
      BY <2>1, <2>5
    <3>4. k.void = (op = "beql" /\ ~ VrTaken(op, r1, r2))
      BY <1>2
    <3> HIDE DEF op, k
    <3>5. CASE op = "beql"
      BY <3>1, <3>2, <3>3, <3>4, <3>5
    <3>6. CASE op # "beql"
      BY <3>3, <3>4, <3>6
    <3> QED BY <3>5, <3>6
  <2>8. k.next \in 0 .. 3 /\ (op = "spin" => k.next = k.pc - 1)
    <3>1. CASE VrTaken(op, r1, r2)
      <4>1. k.next = VrTarget(op, i.pc)
        BY <1>2, <3>1
      <4> QED BY <2>4, <2>5, <4>1 DEF VrTarget
    <3>2. CASE ~ VrTaken(op, r1, r2)
      <4>1. k.next = i.next + 1 /\ op \in {"beq", "beql"}
        BY <1>2, <1>7, <3>2 DEF VrTaken, Branches
      <4>2. i.pc # 3
        BY <2>1, <4>1, WordFacts
      <4>3. i.pc # 2
        <5>1. p[3] \in Branches
          BY WordFacts DEF Branches
        <5>2. p[2] \notin Branches
          BY <5>1, WordFacts
        <5> QED BY <1>7, <2>1, <5>2
      <4> QED BY <2>4, <4>1, <4>2, <4>3
    <3> QED BY <3>1, <3>2
  <2>9. AfterBranch(p, k)
    BY <1>7, <2>1, <2>5, <2>7, <2>8 DEF AfterBranch
  <2>10. Placed(p, k, exl) /\ (op = "spin" => Waits(p, k, exl))
    BY <1>7, <2>1, <2>5, <2>9 DEF Placed, InProgram, Waits
  <2> HIDE DEF k, op
  <2> QED BY <1>2, <1>7, <2>10 DEF k, op
<1> QED BY <1>5, <1>6, <1>7

\* The instruction in the delay slot of a busy wait.
LEMMA WaitsNop ==
  ASSUME NEW p \in VrPrograms, NEW i \in IsaStates, NEW exl \in BOOLEAN, Placed(p, i, exl),
         Waits(p, i, exl)
  PROVE  /\ OpOf(p, i) = "nop" /\ i.pc \in 1 .. 4 /\ p[i.pc] = "nop" /\ p[i.pc - 1] = "spin"
         /\ ~ i.void /\ i.slot /\ i.next = i.pc - 1
<1>1. /\ ~ exl /\ i.slot /\ p[i.pc - 1] = "spin"
  BY DEF Waits
<1>2. AfterBranch(p, i)
  BY <1>1 DEF Placed, InProgram, Plain
<1>3. i.pc \in 1 .. 4 /\ i.next = i.pc - 1 /\ i.void \in BOOLEAN /\ ~ i.void
  BY <1>1, <1>2 DEF AfterBranch, IsaStates
<1>4. p[i.pc] = "nop"
  <2>1. i.pc - 1 \in 0 .. 3 /\ i.pc - 1 + 1 = i.pc
    BY <1>3
  <2> QED BY <1>1, <2>1, WordFacts
<1>5. OpOf(p, i) = "nop"
  BY <1>3, <1>4, WordFacts DEF OpOf
<1> QED BY <1>1, <1>3, <1>4, <1>5

\* LO, when an instruction has been executed.
LEMMA ExecuteRedoes ==
  ASSUME NEW p \in VrPrograms, NEW i \in IsaStates, NEW exl \in BOOLEAN, Placed(p, i, exl),
         Redoes(p, i, exl), OpOf(p, i) \notin {"eret"} \cup Multiplications
  PROVE  Redoes(p, IsaExecute(i, OpOf(p, i)), exl)
<1> DEFINE op == OpOf(p, i)
           k == IsaExecute(i, op)
           r1 == i.regs[1]
           r2 == i.regs[2]
<1>1. /\ k \in IsaStates /\ k.pc = i.next /\ k.slot = (op \in Branches)
      /\ k.void = (op = "beql" /\ ~ VrTaken(op, r1, r2))
      /\ k.code = i.code
      /\ k.epc = (IF op = "handle" /\ i.code \in SteppedOver /\ ~ i.bd THEN i.epc + 1 ELSE i.epc)
      /\ \A n \in 1 .. 2 : VrDest(op) # n => k.regs[n] = i.regs[n]
  BY IsaExecuteTyped
<1>2. CASE exl
  <2>1. op = "handle"
    BY <1>2, OpOfFacts
  <2>2. VrDest(op) = 0
    BY <2>1, OpcodeKinds
  <2>3. k.regs[1] = i.regs[1] /\ k.regs[2] = i.regs[2]
    BY <1>1, <2>2
  <2>4. i.code = "Int" /\ Multiplies(p, i.epc, i.regs)
    BY <1>2 DEF Redoes
  <2>5. k.epc = i.epc /\ k.code = "Int"
    BY <1>1, <2>4 DEF SteppedOver
  <2>6. Multiplies(p, k.epc, k.regs)
    <3> HIDE DEF k
    <3> QED BY <2>3, <2>4, <2>5 DEF Multiplies
  <2> HIDE DEF k
  <2>7. Redoes(p, k, exl)
    BY <1>2, <2>5, <2>6 DEF Redoes
  <2> QED BY <2>7 DEF k
<1>3. CASE ~ exl
  <2>1. ~ i.void /\ i.pc \in 0 .. 4 /\ Multiplies(p, i.pc, i.regs)
    BY <1>3 DEF Redoes
  <2>2. op = p[i.pc]
    BY <1>3, <2>1, OpOfFacts
  <2>3. op \in Branches /\ p[i.pc + 1] \in Multiplications /\ (op = "beql" => r1 = r2)
    BY <2>1, <2>2 DEF Multiplies
  <2>4. i.pc \in 0 .. 3 /\ i.next = i.pc + 1
    <3>1. ~ AfterBranch(p, i)
      <4> SUFFICES ASSUME AfterBranch(p, i) PROVE FALSE
        OBVIOUS
      <4>1. i.pc - 1 \in 0 .. 3 /\ p[i.pc - 1] \in Branches /\ i.pc - 1 + 1 = i.pc
        BY DEF AfterBranch
      <4>2. p[i.pc] \notin Branches
        BY <4>1, WordFacts
      <4> QED BY <2>2, <2>3, <4>2
    <3> QED BY <1>3, <3>1 DEF Placed, InProgram, Plain
  <2>5. ~ k.void
    BY <1>1, <2>3 DEF VrTaken
  <2>6. k.pc \in 0 .. 4 /\ p[k.pc] \in Multiplications
    BY <1>1, <2>3, <2>4
  <2> HIDE DEF k
  <2>7. Redoes(p, k, exl)
    BY <1>3, <2>5, <2>6 DEF Redoes, Multiplies
  <2> QED BY <2>7 DEF k
<1> QED BY <1>2, <1>3

\* An exception, and its end.
LEMMA IsaExceptionTyped ==
  ASSUME NEW i \in IsaStates, NEW code \in Texts, NEW vector \in Int
  PROVE  LET k == IsaException(i, code, vector) IN
         /\ k \in IsaStates
         /\ k.pc = vector /\ Plain(k)
         /\ k.epc = (IF i.slot THEN i.pc - 1 ELSE i.pc) /\ k.bd = i.slot /\ k.code = code
         /\ k.regs = i.regs /\ k.mem = i.mem /\ k.lo = i.lo
         /\ k.inorder = i.inorder /\ k.precise = i.precise /\ k.waited = i.waited
<1>1. /\ i.pc \in Int /\ i.slot \in BOOLEAN
  BY DEF IsaStates
<1>2. (IF i.slot THEN i.pc - 1 ELSE i.pc) \in Int
  BY <1>1
<1>0. PICK no \in BOOLEAN : no = FALSE
  OBVIOUS
<1> DEFINE epc == IF i.slot THEN i.pc - 1 ELSE i.pc
           next == vector + 1
           k == [i EXCEPT !.pc = vector, !.next = next, !.slot = no, !.void = no,
                          !.epc = epc, !.bd = i.slot, !.code = code]
<1>3. IsaException(i, code, vector) = k
  BY <1>0, Zenon DEF IsaException
<1>5. epc \in Int /\ next \in Int
  BY <1>2
<1> HIDE DEF epc, next
<1>4. /\ k \in IsaStates /\ k.pc = vector /\ k.next = next /\ k.slot = no /\ k.void = no
      /\ k.epc = epc /\ k.bd = i.slot /\ k.code = code
      /\ k.regs = i.regs /\ k.mem = i.mem /\ k.lo = i.lo
      /\ k.inorder = i.inorder /\ k.precise = i.precise /\ k.waited = i.waited
  BY <1>1, <1>5 DEF IsaStates
<1> HIDE DEF k
<1> QED BY <1>0, <1>3, <1>4 DEF Plain, epc, next

\* ERET, of the reference.
LEMMA IsaReturnTyped ==
  ASSUME NEW i \in IsaStates
  PROVE  LET k == IsaReturn(i) IN
         /\ k \in IsaStates
         /\ k.pc = i.epc /\ Plain(k)
         /\ k.epc = i.epc /\ k.bd = i.bd /\ k.code = i.code
         /\ k.regs = i.regs /\ k.mem = i.mem /\ k.lo = i.lo
         /\ k.inorder = i.inorder /\ k.precise = i.precise /\ k.waited = i.waited
<1>0. PICK no \in BOOLEAN : no = FALSE
  OBVIOUS
<1> DEFINE next == i.epc + 1
           k == [i EXCEPT !.pc = i.epc, !.next = next, !.slot = no, !.void = no]
<1>1. i.epc \in Int /\ next \in Int
  BY DEF IsaStates
<1>3. IsaReturn(i) = k
  BY <1>0, Zenon DEF IsaReturn
<1> HIDE DEF next
<1>2. /\ k \in IsaStates /\ k.pc = i.epc /\ k.next = next /\ k.slot = no /\ k.void = no
      /\ k.epc = i.epc /\ k.bd = i.bd /\ k.code = i.code
      /\ k.regs = i.regs /\ k.mem = i.mem /\ k.lo = i.lo
      /\ k.inorder = i.inorder /\ k.precise = i.precise /\ k.waited = i.waited
  BY <1>1 DEF IsaStates
<1> HIDE DEF k
<1> QED BY <1>0, <1>2, <1>3 DEF Plain, next

\* The handler of an exception goes back to where a program may go on.
LEMMA ExceptionPlaced ==
  ASSUME NEW p \in VrPrograms, NEW i \in IsaStates, Placed(p, i, FALSE),
         NEW code \in Texts, NEW vector \in Vectors,
         code \in SteppedOver => OpOf(p, i) \notin Branches
  PROVE  Placed(p, IsaException(i, code, vector), TRUE)
<1> DEFINE k == IsaException(i, code, vector)
<1>1. /\ k \in IsaStates /\ k.pc = vector /\ Plain(k)
      /\ k.epc = (IF i.slot THEN i.pc - 1 ELSE i.pc) /\ k.bd = i.slot /\ k.code = code
  BY IsaExceptionTyped, VectorFacts
<1> HIDE DEF k
<1>2. i.pc \in 0 .. 4 /\ (~ i.void => OpOf(p, i) = p[i.pc]) /\ i.slot \in BOOLEAN /\ i.pc \in Int
  BY OpOfFacts DEF IsaStates
<1>3. CASE i.slot
  <2>1. i.pc \in 1 .. 4
    BY <1>3 DEF Placed, InProgram, Plain, AfterBranch
  <2>2. k.epc \in 0 .. 3
    BY <1>1, <1>3, <2>1
  <2>3. InHandler(p, k)
    BY <1>1, <1>3, <2>2 DEF InHandler
  <2> QED BY <2>3 DEF Placed, k
<1>4. CASE ~ i.slot
  <2>1. ~ i.void /\ i.pc \in 0 .. 3
    BY <1>4 DEF Placed, InProgram, Plain, AfterBranch
  <2>2. k.epc = i.pc
    BY <1>1, <1>4
  <2>3. code \in SteppedOver => i.pc # 3
    BY <1>2, <2>1, WordFacts DEF Branches
  <2>4. code \in SteppedOver => i.pc \in 0 .. 2
    BY <2>1, <2>3
  <2>5. InHandler(p, k)
    BY <1>1, <2>1, <2>2, <2>4 DEF InHandler
  <2> QED BY <2>5 DEF Placed, k
<1> QED BY <1>2, <1>3, <1>4

\* An interrupt that takes back a multiplication comes back to it.
LEMMA ExceptionRedoes ==
  ASSUME NEW p \in VrPrograms, NEW i \in IsaStates, Placed(p, i, FALSE), NEW vector \in Vectors,
         Redoes(p, i, FALSE) \/ OpOf(p, i) \in Multiplications
  PROVE  Redoes(p, IsaException(i, "Int", vector), TRUE)
<1> DEFINE k == IsaException(i, "Int", vector)
<1>0. "Int" \in Texts
  BY TextFacts DEF Codes
<1>1. /\ k.epc = (IF i.slot THEN i.pc - 1 ELSE i.pc) /\ k.code = "Int" /\ k.regs = i.regs
  BY <1>0, IsaExceptionTyped, VectorFacts
<1> HIDE DEF k
<1>2. ~ i.void /\ i.pc \in 0 .. 4 /\ Multiplies(p, i.pc, i.regs)
  <2>1. CASE Redoes(p, i, FALSE)
    BY <2>1 DEF Redoes
  <2>2. CASE OpOf(p, i) \in Multiplications
    <3>1. ~ i.void
      BY <2>2 DEF OpOf
    <3> QED BY <2>2, <3>1, OpOfFacts DEF Multiplies
  <2> QED BY <2>1, <2>2
<1>3. CASE i.slot
  <2>1. AfterBranch(p, i)
    BY <1>3 DEF Placed, InProgram, Plain
  <2>2. i.pc - 1 \in 0 .. 3 /\ p[i.pc - 1] \in Branches /\ i.pc - 1 + 1 = i.pc
        /\ (p[i.pc - 1] = "beql" => i.regs[1] = i.regs[2])
    <3>1. i.void = (p[i.pc - 1] = "beql" /\ i.regs[1] # i.regs[2])
      BY <2>1 DEF AfterBranch
    <3>2. p[i.pc - 1] = "beql" => i.regs[1] = i.regs[2]
      BY <1>2, <3>1
    <3> QED BY <2>1, <3>2 DEF AfterBranch
  <2>3. p[i.pc] \notin Branches
    BY <2>2, WordFacts
  <2>4. p[i.pc] \in Multiplications
    BY <1>2, <2>3 DEF Multiplies
  <2>5. Multiplies(p, k.epc, k.regs)
    BY <1>1, <1>3, <2>2, <2>4 DEF Multiplies
  <2> QED BY <1>1, <2>5 DEF Redoes, k
<1>4. CASE ~ i.slot
  BY <1>1, <1>2, <1>4 DEF Redoes, k
<1> QED BY <1>3, <1>4 DEF IsaStates

\* A handler returns into the program, and to a multiplication it has to redo.
LEMMA ReturnPlaced ==
  ASSUME NEW p \in VrPrograms, NEW i \in IsaStates, Placed(p, i, TRUE)
  PROVE  /\ Placed(p, IsaReturn(i), FALSE)
         /\ Redoes(p, i, TRUE) => Redoes(p, IsaReturn(i), FALSE)
<1> DEFINE k == IsaReturn(i)
<1>1. k.pc = i.epc /\ Plain(k) /\ k.regs = i.regs
  BY IsaReturnTyped
<1> HIDE DEF k
<1>2. i.epc \in 0 .. 3
  BY DEF Placed, InHandler
<1>3. Placed(p, k, FALSE)
  BY <1>1, <1>2 DEF Placed, InProgram
<1>4. Redoes(p, i, TRUE) => Redoes(p, k, FALSE)
  BY <1>1, <1>2 DEF Redoes, Plain
<1> QED BY <1>3, <1>4 DEF k

-----------------------------------------------------------------------------
(* What IC changes.                                                        *)

\* The stage IC of the slow cycle.
LEMMA IcFields ==
  ASSUME NEW s \in Machines
  PROVE  LET t == vr4300_cycle_slow_ic(s)
             op == IF s.rfex.kill THEN "nop" ELSE s.rfex.op
         IN /\ t \in Machines
            /\ t.rfex.op = op /\ t.rfex.kill = FALSE
            /\ t.rfex.pc = s.rfex.pc /\ t.rfex.fault = s.rfex.fault /\ t.rfex.bd = s.rfex.bd
            /\ t.icrf.pc = s.icrf.next /\ t.icrf.next = s.icrf.next + 1
            /\ t.icrf.fault = "NONE" /\ t.icrf.bd = (op \in Branches)
            /\ t.exdc = s.exdc /\ t.dcwb = s.dcwb
            /\ t.regs = s.regs /\ t.mem = s.mem /\ t.lo = s.lo /\ t.cp0 = s.cp0
            /\ t.type = "wb" /\ t.history = s.history /\ t.fault_present = s.fault_present
            /\ t.pend = s.pend /\ t.commit = s.commit /\ t.raised = s.raised
            /\ t.vector = s.vector /\ t.stop = s.stop
<1>1. PICK no \in BOOLEAN : no = FALSE
  OBVIOUS
<1>2. PICK none \in Texts : none = "NONE"
  BY TextFacts
<1>3. PICK wb \in Texts : wb = "wb"
  BY TextFacts
<1> DEFINE op == IF s.rfex.kill THEN "nop" ELSE s.rfex.op
           bd == op \in Branches
           next == s.icrf.next + 1
           u == [s EXCEPT !.icrf.fault = none, !.type = wb]
           t == [u EXCEPT !.rfex.op = op, !.rfex.kill = no,
                          !.icrf = [@ EXCEPT !.pc = u.icrf.next, !.next = u.icrf.next + 1, !.bd = bd]]
<1>4. /\ u \in Machines
      /\ u.icrf \in Fetch
      /\ u.icrf.pc = s.icrf.pc /\ u.icrf.next = s.icrf.next /\ u.icrf.fault = none
      /\ u.rfex = s.rfex /\ u.exdc = s.exdc /\ u.dcwb = s.dcwb
      /\ u.regs = s.regs /\ u.mem = s.mem /\ u.lo = s.lo /\ u.cp0 = s.cp0
      /\ u.type = wb /\ u.history = s.history /\ u.fault_present = s.fault_present
      /\ u.pend = s.pend /\ u.commit = s.commit /\ u.raised = s.raised
      /\ u.vector = s.vector /\ u.stop = s.stop
  BY DEF Machines, Fetch
<1>5. vr4300_cycle_slow_ic(s) = t
  <2>1. vr4300_cycle_slow_ic(s) = vr4300_ic_stage(u)
    BY <1>2, <1>3, Zenon DEF vr4300_cycle_slow_ic
  <2> HIDE DEF u
  <2>2. vr4300_ic_stage(u) =
          [u EXCEPT !.rfex.op = op, !.rfex.kill = no,
                    !.icrf = [@ EXCEPT !.pc = u.icrf.next, !.next = u.icrf.next + 1, !.bd = bd]]
    <3>1. (IF u.rfex.kill THEN "nop" ELSE u.rfex.op) = op
      BY <1>4
    <3> HIDE DEF op
    <3> QED BY <1>1, <3>1, Zenon DEF vr4300_ic_stage
  <2> QED BY <2>1, <2>2
<1>6. op \in Texts /\ bd \in BOOLEAN /\ next \in Int /\ s.icrf.next \in Int
  BY TextFacts DEF Machines, Decode, Fetch
<1> HIDE DEF u
<1> DEFINE ic == [u.icrf EXCEPT !.pc = s.icrf.next, !.next = next, !.bd = bd]
           v == [u EXCEPT !.rfex.op = op, !.rfex.kill = no, !.icrf = ic]
<1>7. t = v
  BY <1>4
<1> HIDE DEF op, bd, next, t
<1>8. /\ ic \in Fetch
      /\ ic.pc = s.icrf.next /\ ic.next = next /\ ic.fault = none /\ ic.bd = bd
  BY <1>4, <1>6 DEF Fetch
<1> HIDE DEF ic
<1>9. /\ v \in Machines
      /\ v.rfex.op = op /\ v.rfex.kill = no
      /\ v.rfex.pc = u.rfex.pc /\ v.rfex.fault = u.rfex.fault /\ v.rfex.bd = u.rfex.bd
      /\ v.icrf = ic
      /\ v.exdc = u.exdc /\ v.dcwb = u.dcwb
      /\ v.regs = u.regs /\ v.mem = u.mem /\ v.lo = u.lo /\ v.cp0 = u.cp0
      /\ v.type = u.type /\ v.history = u.history /\ v.fault_present = u.fault_present
      /\ v.pend = u.pend /\ v.commit = u.commit /\ v.raised = u.raised
      /\ v.vector = u.vector /\ v.stop = u.stop
  <2> DEFINE rf == [u.rfex EXCEPT !.op = op, !.kill = no]
  <2>1. /\ rf \in Decode /\ rf.op = op /\ rf.kill = no
        /\ rf.pc = u.rfex.pc /\ rf.fault = u.rfex.fault /\ rf.bd = u.rfex.bd
    BY <1>4, <1>6 DEF Machines, Decode
  <2>2. u \in Machines /\ ic \in Fetch
    BY <1>4, <1>8
  <2>3. v = [u EXCEPT !.rfex = rf, !.icrf = ic]
    BY Zenon
  <2> HIDE DEF rf, v
  <2>4. v \in Machines /\ v.rfex = rf /\ v.icrf = ic
    <3>1. rf \in Decode
      BY <2>1
    <3>2. v \in Machines
      BY <2>2, <2>3, <3>1 DEF Machines
    <3>3. v.rfex = rf /\ v.icrf = ic
      BY <2>2, <2>3 DEF Machines
    <3> QED BY <3>2, <3>3
  <2>5. /\ v.exdc = u.exdc /\ v.dcwb = u.dcwb
        /\ v.regs = u.regs /\ v.mem = u.mem /\ v.lo = u.lo /\ v.cp0 = u.cp0
        /\ v.type = u.type /\ v.history = u.history /\ v.fault_present = u.fault_present
        /\ v.pend = u.pend /\ v.commit = u.commit /\ v.raised = u.raised
        /\ v.vector = u.vector /\ v.stop = u.stop
    BY <2>2, <2>3 DEF Machines
  <2> QED BY <2>1, <2>4, <2>5
<1> HIDE DEF v
<1> QED BY <1>1, <1>2, <1>3, <1>4, <1>5, <1>7, <1>8, <1>9, Zenon DEF op, bd, next

-----------------------------------------------------------------------------
(* What RF changes.                                                        *)

\* What only some stages change.
Kept(s, t) ==
  t.regs = s.regs /\ t.mem = s.mem /\ t.pend = s.pend /\ t.commit = s.commit
Going(s, t) ==
  /\ t.regs = s.regs /\ t.mem = s.mem /\ t.pend = s.pend /\ t.commit = s.commit
  /\ t.cp0 = s.cp0 /\ t.history = s.history /\ t.fault_present = s.fault_present
  /\ t.raised = s.raised /\ t.vector = s.vector

\* The latch of RF, which a marked stage fills too.
LEMMA LatchRfFields ==
  ASSUME NEW s \in Machines
  PROVE  LET t == LatchRf(s) IN
         /\ t \in Machines
         /\ t.rfex.pc = s.icrf.pc /\ t.rfex.fault = s.icrf.fault /\ t.rfex.bd = s.icrf.bd
         /\ t.rfex.op = s.rfex.op /\ t.rfex.kill = s.rfex.kill
         /\ t.icrf = s.icrf /\ t.exdc = s.exdc /\ t.dcwb = s.dcwb
         /\ Going(s, t) /\ t.lo = s.lo /\ t.type = s.type /\ t.stop = s.stop
<1> DEFINE rf == [s.rfex EXCEPT !.pc = s.icrf.pc, !.fault = s.icrf.fault, !.bd = s.icrf.bd]
           t == [s EXCEPT !.rfex = rf]
<1>1. LatchRf(s) = t
  BY Zenon DEF LatchRf
<1>2. /\ rf \in Decode /\ rf.pc = s.icrf.pc /\ rf.fault = s.icrf.fault /\ rf.bd = s.icrf.bd
      /\ rf.op = s.rfex.op /\ rf.kill = s.rfex.kill
  BY DEF Machines, Fetch, Decode
<1> HIDE DEF rf
<1>3. /\ t \in Machines /\ t.rfex = rf
      /\ t.icrf = s.icrf /\ t.exdc = s.exdc /\ t.dcwb = s.dcwb
      /\ Going(s, t) /\ t.lo = s.lo /\ t.type = s.type /\ t.stop = s.stop
  BY <1>2 DEF Machines, Going
<1> HIDE DEF t
<1> QED BY <1>1, <1>2, <1>3

\* A fetched word is an instruction,
LEMMA WordTyped ==
  ASSUME NEW p \in VrPrograms, NEW pc
  PROVE  WordOf(p, pc) \in Texts
<1>1. \A n \in 0 .. 4 : p[n] \in Texts
  BY WordFacts, TextFacts
<1> QED BY <1>1, TextFacts DEF WordOf

\* and the one the model fetches.
LEMMA WordRight ==
  ASSUME vrprog \in VrPrograms, NEW pc
  PROVE  VrWord(pc) = WordOf(vrprog, pc)
<1>1. DOMAIN vrprog = 0 .. 4
  BY DEF VrPrograms
<1> QED BY <1>1 DEF VrWord, WordOf

\* The stage, when the program is in the TLB.
Fetching(s, imiss) == vr4300_rf_stage(s, imiss, FALSE)

\* The stage RF: it fetches, and may stall for the cache.
LEMMA RfFields ==
  ASSUME vrprog \in VrPrograms, NEW s \in Machines, NEW imiss \in BOOLEAN
  PROVE  LET t == Fetching(s, imiss) IN
         /\ t \in Machines
         /\ t.rfex.pc = s.icrf.pc /\ t.rfex.fault = s.icrf.fault /\ t.rfex.bd = s.icrf.bd
         /\ t.rfex.op = WordOf(vrprog, s.icrf.pc) /\ t.rfex.kill = s.rfex.kill
         /\ t.icrf = s.icrf /\ t.exdc = s.exdc /\ t.dcwb = s.dcwb
         /\ Going(s, t) /\ t.lo = s.lo
         /\ (t.type = "ic" /\ t.stop) \/ (t.type = s.type /\ t.stop = s.stop)
<1> DEFINE u == LatchRf(s)
           op == WordOf(vrprog, s.icrf.pc)
           f == [u EXCEPT !.rfex.op = op]
           t == Fetching(s, imiss)
<1>1. /\ u \in Machines
      /\ u.rfex.pc = s.icrf.pc /\ u.rfex.fault = s.icrf.fault /\ u.rfex.bd = s.icrf.bd
      /\ u.rfex.op = s.rfex.op /\ u.rfex.kill = s.rfex.kill
      /\ u.icrf = s.icrf /\ u.exdc = s.exdc /\ u.dcwb = s.dcwb
      /\ Going(s, u) /\ u.lo = s.lo /\ u.type = s.type /\ u.stop = s.stop
  BY LatchRfFields
<1>2. VrWord(u.icrf.pc) = op /\ op \in Texts
  BY <1>1, WordRight, WordTyped
<1>3. t = IF imiss THEN Stall(f, "ic") ELSE f
  <2> HIDE DEF op
  <2> QED BY <1>2, Zenon DEF Fetching, vr4300_rf_stage
<1> HIDE DEF u, op, t
<1>4. /\ f \in Machines
      /\ f.rfex.pc = u.rfex.pc /\ f.rfex.fault = u.rfex.fault /\ f.rfex.bd = u.rfex.bd
      /\ f.rfex.op = op /\ f.rfex.kill = u.rfex.kill
      /\ f.icrf = u.icrf /\ f.exdc = u.exdc /\ f.dcwb = u.dcwb
      /\ Going(u, f) /\ f.lo = u.lo /\ f.type = u.type /\ f.stop = u.stop
  BY <1>1, <1>2 DEF Machines, Decode, Going
<1> HIDE DEF f
<1>5. Going(s, f)
  BY <1>1, <1>4 DEF Going
<1>6. CASE imiss
  <2>1. PICK yes \in BOOLEAN : yes = TRUE
    OBVIOUS
  <2>2. PICK ic \in Texts : ic = "ic"
    BY TextFacts
  <2> DEFINE g == [f EXCEPT !.type = ic, !.stop = yes]
  <2>3. t = g
    BY <1>3, <1>6, <2>1, <2>2, Zenon DEF Stall
  <2>4. /\ g \in Machines /\ g.rfex = f.rfex /\ g.icrf = f.icrf /\ g.exdc = f.exdc /\ g.dcwb = f.dcwb
        /\ Going(f, g) /\ g.lo = f.lo /\ g.type = ic /\ g.stop = yes
    BY <1>4 DEF Machines, Going
  <2> HIDE DEF g
  <2>5. Going(s, g)
    BY <1>5, <2>4 DEF Going
  <2>6. g.stop /\ g.type = "ic"
    BY <2>1, <2>2, <2>4
  <2>7. t.type = "ic" /\ t.stop
    BY <2>3, <2>6
  <2>8. /\ t \in Machines
        /\ t.rfex.pc = s.icrf.pc /\ t.rfex.fault = s.icrf.fault /\ t.rfex.bd = s.icrf.bd
        /\ t.rfex.op = op /\ t.rfex.kill = s.rfex.kill
        /\ t.icrf = s.icrf /\ t.exdc = s.exdc /\ t.dcwb = s.dcwb
        /\ Going(s, t) /\ t.lo = s.lo
    BY <1>1, <1>4, <2>3, <2>4, <2>5
  <2> QED BY <2>7, <2>8 DEF op, t
<1>7. CASE ~ imiss
  <2>1. t = f
    BY <1>3, <1>7
  <2> QED BY <1>1, <1>4, <1>5, <1>7, <2>1 DEF op, t
<1> QED BY <1>6, <1>7

-----------------------------------------------------------------------------
(* What an exception changes.                                              *)

\* Marking the latches before EX.
LEMMA ExMarkFields ==
  ASSUME NEW s \in Machines, NEW fault \in Texts
  PROVE  LET t == vr4300_ex_fault(s, fault) IN
         /\ t \in Machines
         /\ t.icrf.fault = fault /\ t.rfex.fault = fault /\ t.exdc.fault = fault
         /\ t.icrf.next = s.icrf.next /\ t.rfex.op = s.rfex.op /\ t.rfex.kill = s.rfex.kill
         /\ t.exdc.pc = s.exdc.pc /\ t.exdc.bd = s.exdc.bd /\ t.exdc.dest = s.exdc.dest
         /\ t.dcwb = s.dcwb /\ Going(s, t) /\ t.lo = s.lo /\ t.type = s.type /\ t.stop = s.stop
<1> DEFINE wb == s.dcwb.fault
           t == [s EXCEPT !.icrf.fault = fault, !.rfex.fault = fault, !.exdc.fault = fault,
                          !.dcwb.fault = wb]
<1>1. vr4300_ex_fault(s, fault) = t
  <2>1. "exdc" \in {"exdc"} /\ "dcwb" \notin {"exdc"}
    OBVIOUS
  <2> QED BY <2>1, Zenon DEF vr4300_ex_fault, Mark
<1>2. wb \in Texts
  BY DEF Machines, WriteBack
<1> HIDE DEF wb
<1>3. /\ t \in Machines
      /\ t.icrf.fault = fault /\ t.rfex.fault = fault /\ t.exdc.fault = fault
      /\ t.icrf.next = s.icrf.next /\ t.rfex.op = s.rfex.op /\ t.rfex.kill = s.rfex.kill
      /\ t.exdc.pc = s.exdc.pc /\ t.exdc.bd = s.exdc.bd /\ t.exdc.dest = s.exdc.dest
  BY <1>2 DEF Machines, Fetch, Decode, Execute, WriteBack
<1>4. Going(s, t) /\ t.lo = s.lo /\ t.type = s.type /\ t.stop = s.stop
  BY <1>2 DEF Machines, Going
<1>5. t.dcwb = [s.dcwb EXCEPT !.fault = wb]
  BY DEF Machines
<1>6. t.dcwb = s.dcwb
  BY <1>5 DEF wb, Machines, WriteBack
<1> HIDE DEF t
<1> QED BY <1>1, <1>3, <1>4, <1>6

\* Marking all latches.
LEMMA DcMarkFields ==
  ASSUME NEW s \in Machines, NEW fault \in Texts
  PROVE  LET t == vr4300_dc_fault(s, fault) IN
         /\ t \in Machines
         /\ t.icrf.fault = fault /\ t.rfex.fault = fault /\ t.exdc.fault = fault /\ t.dcwb.fault = fault
         /\ t.icrf.next = s.icrf.next /\ t.rfex.op = s.rfex.op /\ t.rfex.kill = s.rfex.kill
         /\ t.exdc.pc = s.exdc.pc /\ t.exdc.bd = s.exdc.bd
         /\ t.dcwb.pc = s.dcwb.pc /\ t.dcwb.bd = s.dcwb.bd
         /\ Going(s, t) /\ t.lo = s.lo /\ t.type = s.type /\ t.stop = s.stop
<1> DEFINE t == [s EXCEPT !.icrf.fault = fault, !.rfex.fault = fault, !.exdc.fault = fault,
                          !.dcwb.fault = fault]
<1>1. vr4300_dc_fault(s, fault) = t
  <2>1. "exdc" \in {"exdc", "dcwb"} /\ "dcwb" \in {"exdc", "dcwb"}
    OBVIOUS
  <2> QED BY <2>1, Zenon DEF vr4300_dc_fault, Mark
<1>3. /\ t \in Machines
      /\ t.icrf.fault = fault /\ t.rfex.fault = fault /\ t.exdc.fault = fault /\ t.dcwb.fault = fault
      /\ t.icrf.next = s.icrf.next /\ t.rfex.op = s.rfex.op /\ t.rfex.kill = s.rfex.kill
      /\ t.exdc.pc = s.exdc.pc /\ t.exdc.bd = s.exdc.bd
      /\ t.dcwb.pc = s.dcwb.pc /\ t.dcwb.bd = s.dcwb.bd
  BY DEF Machines, Fetch, Decode, Execute, WriteBack
<1>4. Going(s, t) /\ t.lo = s.lo /\ t.type = s.type /\ t.stop = s.stop
  BY DEF Machines, Going
<1> HIDE DEF t
<1> QED BY <1>1, <1>3, <1>4

\* An exception that is not inside another.
LEMMA ExceptionFields ==
  ASSUME NEW s \in Machines, ~ s.cp0.exl, NEW latch, latch.pc \in Int, latch.bd \in BOOLEAN,
         NEW code \in Texts, NEW vector \in Vectors
  PROVE  LET t == Exception(s, latch, code, vector) IN
         /\ t \in Machines
         /\ t.cp0.exl /\ t.cp0.erl = s.cp0.erl /\ t.cp0.epc = ExceptionPc(latch)
         /\ t.cp0.bd = latch.bd /\ t.cp0.code = code
         /\ t.type = "wb" /\ t.history = 0 /\ t.fault_present
         /\ t.icrf.next = vector /\ t.icrf.pc = s.icrf.pc /\ t.icrf.fault = s.icrf.fault
         /\ t.raised = code /\ t.vector = vector /\ t.stop
         /\ t.rfex = s.rfex /\ t.exdc = s.exdc /\ t.dcwb = s.dcwb
         /\ Kept(s, t) /\ t.lo = s.lo
<1>1. PICK yes \in BOOLEAN : yes = TRUE
  OBVIOUS
<1>2. PICK wb \in Texts : wb = "wb"
  BY TextFacts
<1>3. PICK zero \in 0 .. 4 : zero = 0
  OBVIOUS
<1>4. ExceptionPc(latch) \in Int
  BY DEF ExceptionPc
<1>8. vector \in Int
  BY VectorFacts
<1> DEFINE epc == ExceptionPc(latch)
           bd == latch.bd
           cp0 == [s.cp0 EXCEPT !.exl = yes, !.epc = epc, !.bd = bd, !.code = code]
           t == [s EXCEPT !.cp0 = cp0, !.type = wb, !.history = zero, !.fault_present = yes,
                          !.icrf.next = vector, !.raised = code, !.vector = vector, !.stop = yes]
<1>5. Exception(s, latch, code, vector) = t
  BY <1>1, <1>2, <1>3, Zenon DEF Exception
<1> HIDE DEF epc, bd
<1>6. /\ cp0 \in Control /\ cp0.exl = yes /\ cp0.erl = s.cp0.erl /\ cp0.epc = epc
      /\ cp0.bd = bd /\ cp0.code = code
  BY <1>4 DEF Machines, Control, epc, bd
<1> HIDE DEF cp0
<1>7. /\ t \in Machines /\ t.cp0 = cp0 /\ t.type = wb /\ t.history = zero /\ t.fault_present = yes
      /\ t.icrf.next = vector /\ t.icrf.pc = s.icrf.pc /\ t.icrf.fault = s.icrf.fault
      /\ t.raised = code /\ t.vector = vector /\ t.stop = yes
      /\ t.rfex = s.rfex /\ t.exdc = s.exdc /\ t.dcwb = s.dcwb
      /\ Kept(s, t) /\ t.lo = s.lo
  <2> DEFINE icrf == [s.icrf EXCEPT !.next = vector]
  <2>1. icrf \in Fetch /\ icrf.next = vector /\ icrf.pc = s.icrf.pc /\ icrf.fault = s.icrf.fault
    BY <1>8 DEF Machines, Fetch
  <2>2. t = [s EXCEPT !.cp0 = cp0, !.type = wb, !.history = zero, !.fault_present = yes,
                      !.icrf = icrf, !.raised = code, !.vector = vector, !.stop = yes]
    BY Zenon
  <2> HIDE DEF icrf, t
  <2>3. t \in Machines /\ t.icrf = icrf
    <3>1. cp0 \in Control /\ icrf \in Fetch /\ vector \in Int
      BY <1>6, <1>8, <2>1
    <3>2. t \in Machines
      BY <2>2, <3>1 DEF Machines
    <3>3. t.icrf = icrf
      BY <2>2 DEF Machines
    <3> QED BY <3>2, <3>3
  <2>4. /\ t.cp0 = cp0 /\ t.type = wb /\ t.history = zero /\ t.fault_present = yes
        /\ t.raised = code /\ t.vector = vector /\ t.stop = yes
    BY <2>2 DEF Machines
  <2>5. t.rfex = s.rfex /\ t.exdc = s.exdc /\ t.dcwb = s.dcwb /\ t.lo = s.lo
    BY <2>2 DEF Machines
  <2>6. Kept(s, t)
    BY <2>2 DEF Machines, Kept
  <2> QED BY <2>1, <2>3, <2>4, <2>5, <2>6
<1> HIDE DEF t
<1> QED BY <1>1, <1>2, <1>3, <1>5, <1>6, <1>7 DEF epc, bd

-----------------------------------------------------------------------------
(* What EX changes.                                                        *)

\* The latch of EX.
LEMMA LatchExFields ==
  ASSUME NEW s \in Machines
  PROVE  LET t == LatchEx(s) IN
         /\ t \in Machines
         /\ t.exdc.pc = s.rfex.pc /\ t.exdc.fault = s.rfex.fault /\ t.exdc.bd = s.rfex.bd
         /\ t.exdc.op = s.exdc.op /\ t.exdc.dest = s.exdc.dest /\ t.exdc.request = s.exdc.request
         /\ t.icrf = s.icrf /\ t.rfex = s.rfex /\ t.dcwb = s.dcwb
         /\ Going(s, t) /\ t.lo = s.lo /\ t.type = s.type /\ t.stop = s.stop
<1> DEFINE ex == [s.exdc EXCEPT !.pc = s.rfex.pc, !.fault = s.rfex.fault, !.bd = s.rfex.bd]
           t == [s EXCEPT !.exdc = ex]
<1>1. LatchEx(s) = t
  BY Zenon DEF LatchEx
<1>2. /\ ex \in Execute /\ ex.pc = s.rfex.pc /\ ex.fault = s.rfex.fault /\ ex.bd = s.rfex.bd
      /\ ex.op = s.exdc.op /\ ex.dest = s.exdc.dest /\ ex.request = s.exdc.request
  BY DEF Machines, Decode, Execute
<1> HIDE DEF ex
<1>3. /\ t \in Machines /\ t.exdc = ex
      /\ t.icrf = s.icrf /\ t.rfex = s.rfex /\ t.dcwb = s.dcwb
      /\ Going(s, t) /\ t.lo = s.lo /\ t.type = s.type /\ t.stop = s.stop
  BY <1>2 DEF Machines, Going
<1> HIDE DEF t
<1> QED BY <1>1, <1>2, <1>3

\* EX skips what is marked.
LEMMA ExBubbleFields ==
  ASSUME NEW s \in Machines
  PROVE  LET t == [LatchEx(s) EXCEPT !.exdc.dest = 0] IN
         /\ t \in Machines
         /\ t.exdc.fault = s.rfex.fault /\ t.exdc.dest = 0
         /\ t.icrf = s.icrf /\ t.rfex = s.rfex /\ t.dcwb = s.dcwb
         /\ Going(s, t) /\ t.lo = s.lo /\ t.type = s.type /\ t.stop = s.stop
<1>1. PICK zero \in 0 .. 3 : zero = 0
  OBVIOUS
<1> DEFINE u == LatchEx(s)
           t == [u EXCEPT !.exdc.dest = zero]
<1>2. /\ u \in Machines /\ u.exdc.fault = s.rfex.fault
      /\ u.icrf = s.icrf /\ u.rfex = s.rfex /\ u.dcwb = s.dcwb
      /\ Going(s, u) /\ u.lo = s.lo /\ u.type = s.type /\ u.stop = s.stop
  BY LatchExFields
<1> HIDE DEF u
<1>3. /\ t \in Machines /\ t.exdc.fault = u.exdc.fault /\ t.exdc.dest = zero
      /\ t.icrf = u.icrf /\ t.rfex = u.rfex /\ t.dcwb = u.dcwb
      /\ Going(u, t) /\ t.lo = u.lo /\ t.type = u.type /\ t.stop = u.stop
  BY <1>2 DEF Machines, Execute, Going
<1> HIDE DEF t
<1>4. Going(s, t)
  BY <1>2, <1>3 DEF Going
<1> QED BY <1>1, <1>2, <1>3, <1>4 DEF t, u

\* The interlock of a load whose result is used at once.
LEMMA LoadDelayFields ==
  ASSUME NEW s \in Machines
  PROVE  LET t == LoadDelay(LatchEx(s)) IN
         /\ t \in Machines
         /\ t.exdc.request = "none" /\ t.exdc.fault = s.rfex.fault
         /\ t.icrf = s.icrf /\ t.rfex = s.rfex /\ t.dcwb = s.dcwb
         /\ Going(s, t) /\ t.lo = s.lo /\ t.type = "ex" /\ t.stop
<1>1. PICK yes \in BOOLEAN : yes = TRUE
  OBVIOUS
<1>2. PICK none \in {"none", "read", "write"} : none = "none"
  OBVIOUS
<1>3. PICK ex \in Texts : ex = "ex"
  BY TextFacts
<1> DEFINE u == LatchEx(s)
           f == [u EXCEPT !.exdc.request = none]
           t == [f EXCEPT !.type = ex, !.stop = yes]
<1>4. LoadDelay(u) = t
  BY <1>1, <1>2, <1>3, Zenon DEF LoadDelay, Stall
<1>5. /\ u \in Machines /\ u.exdc.fault = s.rfex.fault
      /\ u.icrf = s.icrf /\ u.rfex = s.rfex /\ u.dcwb = s.dcwb
      /\ Going(s, u) /\ u.lo = s.lo
  BY LatchExFields
<1> HIDE DEF u
<1>6. /\ f \in Machines /\ f.exdc.fault = u.exdc.fault /\ f.exdc.request = none
      /\ f.icrf = u.icrf /\ f.rfex = u.rfex /\ f.dcwb = u.dcwb /\ Going(u, f) /\ f.lo = u.lo
  BY <1>5 DEF Machines, Execute, Going
<1> HIDE DEF f
<1>7. /\ t \in Machines /\ t.exdc = f.exdc /\ t.icrf = f.icrf /\ t.rfex = f.rfex /\ t.dcwb = f.dcwb
      /\ Going(f, t) /\ t.lo = f.lo /\ t.type = ex /\ t.stop = yes
  BY <1>6 DEF Machines, Going
<1> HIDE DEF t
<1>8. Going(s, t)
  BY <1>5, <1>6, <1>7 DEF Going
<1> QED BY <1>1, <1>2, <1>3, <1>4, <1>5, <1>6, <1>7, <1>8 DEF u

\* What the function of an opcode leaves in the latch.
Done(s, op, r1, r2) ==
  [s EXCEPT !.exdc =
     [@ EXCEPT !.op = op,
               !.dest = IF op = "spin" THEN CYCLE_TYPE ELSE VrDest(op),
               !.result = VrResult(op, s.rfex.pc, r1, r2, s.lo),
               !.request = RequestOf(op),
               !.data = r1]]

\* The latch after the function of an opcode.
LEMMA DoneFields ==
  ASSUME NEW s \in Machines, NEW op \in Texts, NEW r1 \in Data, NEW r2 \in Data
  PROVE  LET t == Done(s, op, r1, r2) IN
         /\ t \in Machines
         /\ t.exdc.pc = s.exdc.pc /\ t.exdc.fault = s.exdc.fault /\ t.exdc.bd = s.exdc.bd
         /\ t.exdc.op = op
         /\ t.exdc.dest = (IF op = "spin" THEN CYCLE_TYPE ELSE VrDest(op))
         /\ t.exdc.result = VrResult(op, s.rfex.pc, r1, r2, s.lo)
         /\ t.exdc.request = RequestOf(op) /\ t.exdc.data = r1
         /\ t.icrf = s.icrf /\ t.rfex = s.rfex /\ t.dcwb = s.dcwb
         /\ Going(s, t) /\ t.lo = s.lo /\ t.type = s.type /\ t.stop = s.stop
<1> DEFINE dest == IF op = "spin" THEN CYCLE_TYPE ELSE VrDest(op)
           result == VrResult(op, s.rfex.pc, r1, r2, s.lo)
           request == RequestOf(op)
           ex == [s.exdc EXCEPT !.op = op, !.dest = dest, !.result = result, !.request = request,
                                !.data = r1]
           t == [s EXCEPT !.exdc = ex]
<1>1. Done(s, op, r1, r2) = t
  BY Zenon DEF Done
<1>2. dest \in 0 .. 3 /\ result \in Data /\ request \in {"none", "read", "write"}
  <2>1. s.rfex.pc \in Int /\ s.lo \in Data
    BY DEF Machines, Decode
  <2>2. VrDest(op) \in 0 .. 2 /\ request \in {"none", "read", "write"}
    BY DEF VrDest, RequestOf
  <2>3. result \in Data
    BY <2>1, OpcodeFacts
  <2> QED BY <2>2, <2>3 DEF CYCLE_TYPE
<1> HIDE DEF dest, result, request
<1>3. /\ ex \in Execute /\ ex.pc = s.exdc.pc /\ ex.fault = s.exdc.fault /\ ex.bd = s.exdc.bd
      /\ ex.op = op /\ ex.dest = dest /\ ex.result = result /\ ex.request = request /\ ex.data = r1
  BY <1>2 DEF Machines, Execute
<1> HIDE DEF ex
<1>4. /\ t \in Machines /\ t.exdc = ex
      /\ t.icrf = s.icrf /\ t.rfex = s.rfex /\ t.dcwb = s.dcwb
      /\ Going(s, t) /\ t.lo = s.lo /\ t.type = s.type /\ t.stop = s.stop
  BY <1>3 DEF Machines, Going
<1> HIDE DEF t
<1> QED BY <1>1, <1>3, <1>4 DEF dest, result, request

\* What EX reads is the register with the last latch on top.
LEMMA ForwardedTyped ==
  ASSUME NEW s \in Machines, NEW n \in 1 .. 2
  PROVE  VrForwarded(s, n) \in Data /\ VrForwarded(s, n) = Drained(s.dcwb, s.regs, n)
BY DEF VrForwarded, Drained, Machines, WriteBack

\* The stage, without the instructions that no program here has.
LEMMA ExStage ==
  ASSUME NEW s \in Machines
  PROVE  LET op == s.rfex.op
             u == LatchEx(s)
             r1 == VrForwarded(s, 1)
             r2 == VrForwarded(s, 2)
             done == Done(u, op, r1, r2)
             t == vr4300_ex_stage(s)
         IN /\ op = "fpu" => t = VR4300_CPU(u)
            /\ op # "fpu" /\ s.exdc.request = "read" /\ VrNeeds(op, s.exdc.dest) => t = LoadDelay(u)
            /\ op \notin {"fpu", "trap", "bad"} /\
               ~ (s.exdc.request = "read" /\ VrNeeds(op, s.exdc.dest)) =>
                 /\ op = "syscall" => t = VR4300_SYSC(done)
                 /\ op = "eret" => t = VR4300_ERET(done)
                 /\ op = "handle" => t = HANDLE(done)
                 /\ op = "mult" => t = [done EXCEPT !.lo = VrProduct(r1, r2)]
                 /\ op = "dmult" => t = Stall([done EXCEPT !.lo = VrProduct(r1, r2)], "rf")
                 /\ op \in Branches => t = Branch(done, op, r1, r2)
                 /\ op \notin {"syscall", "eret", "handle"} \cup Multiplications \cup Branches => t = done
<1> DEFINE op == s.rfex.op
           u == LatchEx(s)
           r1 == VrForwarded(s, 1)
           r2 == VrForwarded(s, 2)
           done == Done(u, op, r1, r2)
           t == vr4300_ex_stage(s)
<1>1. u.exdc.request = s.exdc.request /\ u.exdc.dest = s.exdc.dest
      /\ u.rfex = s.rfex /\ u.dcwb = s.dcwb /\ u.regs = s.regs
  BY LatchExFields DEF Going
<1>2. VrForwarded(u, 1) = r1 /\ VrForwarded(u, 2) = r2
  <2> HIDE DEF u
  <2> QED BY <1>1 DEF VrForwarded
<1>3. t = IF op = "fpu" THEN VR4300_CPU(u)
          ELSE IF u.exdc.request = "read" /\ VrNeeds(op, u.exdc.dest) THEN LoadDelay(u)
          ELSE Executed(u, op, VrForwarded(u, 1), VrForwarded(u, 2))
  <2>1. u.rfex.op = op
    BY <1>1
  <2> QED BY <2>1, Zenon DEF vr4300_ex_stage
<1>4. t = IF op = "fpu" THEN VR4300_CPU(u)
          ELSE IF s.exdc.request = "read" /\ VrNeeds(op, s.exdc.dest) THEN LoadDelay(u)
          ELSE Executed(u, op, r1, r2)
  <2> HIDE DEF u, t, r1, r2
  <2> QED BY <1>1, <1>2, <1>3
<1>5. Executed(u, op, r1, r2) =
        CASE op = "syscall" -> VR4300_SYSC(done)
          [] op = "trap" -> VR4300_TRAP(done)
          [] op = "bad" -> VR4300_RI(done)
          [] op = "eret" -> VR4300_ERET(done)
          [] op = "handle" -> HANDLE(done)
          [] op = "mult" -> [done EXCEPT !.lo = VrProduct(r1, r2)]
          [] op = "dmult" -> Stall([done EXCEPT !.lo = VrProduct(r1, r2)], "rf")
          [] op \in Branches -> Branch(done, op, r1, r2)
          [] OTHER -> done
  <2> HIDE DEF u, r1, r2, op
  <2> QED BY DEF Executed, Done, RequestOf
<1>6. op \in Branches => op \notin {"syscall", "trap", "bad", "eret", "handle", "mult", "dmult"}
  BY DEF Branches
<1>7. op \notin {"fpu", "trap", "bad"} /\ ~ (s.exdc.request = "read" /\ VrNeeds(op, s.exdc.dest)) =>
        t = Executed(u, op, r1, r2)
  BY <1>4
<1> HIDE DEF t, done, u, r1, r2, op
<1>8. op = "syscall" => Executed(u, op, r1, r2) = VR4300_SYSC(done)
  BY <1>5, <1>6
<1>9. op = "eret" => Executed(u, op, r1, r2) = VR4300_ERET(done)
  BY <1>5, <1>6
<1>10. op = "handle" => Executed(u, op, r1, r2) = HANDLE(done)
  BY <1>5, <1>6
<1>11. /\ op = "mult" => Executed(u, op, r1, r2) = [done EXCEPT !.lo = VrProduct(r1, r2)]
       /\ op = "dmult" =>
            Executed(u, op, r1, r2) = Stall([done EXCEPT !.lo = VrProduct(r1, r2)], "rf")
  BY <1>5, <1>6
<1>12. op \in Branches => Executed(u, op, r1, r2) = Branch(done, op, r1, r2)
  BY <1>5, <1>6
<1>13. op \notin {"syscall", "trap", "bad", "eret", "handle", "mult", "dmult"} \cup Branches =>
       Executed(u, op, r1, r2) = done
  BY <1>5
<1> QED BY <1>4, <1>7, <1>8, <1>9, <1>10, <1>11, <1>12, <1>13 DEF t, done, u, r1, r2, op

\* The guest's handler.
LEMMA HandleFields ==
  ASSUME NEW s \in Machines
  PROVE  LET t == HANDLE(s) IN
         /\ t \in Machines
         /\ t.cp0.exl = s.cp0.exl /\ t.cp0.erl = s.cp0.erl /\ t.cp0.bd = s.cp0.bd
         /\ t.cp0.code = s.cp0.code
         /\ t.cp0.epc = (IF s.cp0.code \in SteppedOver /\ ~ s.cp0.bd THEN s.cp0.epc + 1 ELSE s.cp0.epc)
         /\ t.pend => s.pend
         /\ t.icrf = s.icrf /\ t.rfex = s.rfex /\ t.exdc = s.exdc /\ t.dcwb = s.dcwb
         /\ t.regs = s.regs /\ t.mem = s.mem /\ t.lo = s.lo
         /\ t.type = s.type /\ t.history = s.history /\ t.fault_present = s.fault_present
         /\ t.commit = s.commit /\ t.raised = s.raised /\ t.vector = s.vector /\ t.stop = s.stop
<1> DEFINE pend == IF s.cp0.code = "Int" THEN FALSE ELSE s.pend
           tlb == CASE s.cp0.code \in {"TLBx", "Mod"} -> "ok" [] s.cp0.code = "Int" -> "miss"
                    [] OTHER -> s.tlb
           ifetch == s.ifetch \/ s.cp0.code = "TLBI"
           epc == IF s.cp0.code \in SteppedOver /\ ~ s.cp0.bd THEN s.cp0.epc + 1 ELSE s.cp0.epc
           t == [s EXCEPT !.pend = pend, !.tlb = tlb, !.ifetch = ifetch, !.cp0.epc = epc]
<1>1. HANDLE(s) = t
  BY Zenon DEF HANDLE
<1>2. pend \in BOOLEAN /\ tlb \in Texts /\ ifetch \in BOOLEAN /\ epc \in Int /\ (pend => s.pend)
  <2>1. s.pend \in BOOLEAN /\ s.tlb \in Texts /\ s.ifetch \in BOOLEAN /\ s.cp0.epc \in Int
    BY DEF Machines, Control
  <2>2. tlb \in Texts
    BY <2>1, TextFacts
  <2>3. epc \in Int
    BY <2>1
  <2>4. pend \in BOOLEAN /\ (pend => s.pend)
    BY <2>1
  <2>5. ifetch \in BOOLEAN
    BY <2>1
  <2> HIDE DEF pend, tlb, ifetch, epc
  <2> QED BY <2>2, <2>3, <2>4, <2>5
<1> HIDE DEF pend, tlb, ifetch, epc
<1>3. /\ t \in Machines
      /\ t.cp0.exl = s.cp0.exl /\ t.cp0.erl = s.cp0.erl /\ t.cp0.bd = s.cp0.bd
      /\ t.cp0.code = s.cp0.code /\ t.cp0.epc = epc
      /\ t.pend = pend
      /\ t.icrf = s.icrf /\ t.rfex = s.rfex /\ t.exdc = s.exdc /\ t.dcwb = s.dcwb
      /\ t.regs = s.regs /\ t.mem = s.mem /\ t.lo = s.lo
      /\ t.type = s.type /\ t.history = s.history /\ t.fault_present = s.fault_present
      /\ t.commit = s.commit /\ t.raised = s.raised /\ t.vector = s.vector /\ t.stop = s.stop
  <2> DEFINE cp0 == [s.cp0 EXCEPT !.epc = epc]
  <2>1. /\ cp0 \in Control /\ cp0.exl = s.cp0.exl /\ cp0.erl = s.cp0.erl /\ cp0.bd = s.cp0.bd
        /\ cp0.code = s.cp0.code /\ cp0.epc = epc
    BY <1>2 DEF Machines, Control
  <2>2. t = [s EXCEPT !.pend = pend, !.tlb = tlb, !.ifetch = ifetch, !.cp0 = cp0]
    BY Zenon
  <2> HIDE DEF cp0, t
  <2>3. t \in Machines /\ t.cp0 = cp0 /\ t.pend = pend
    BY <1>2, <2>1, <2>2 DEF Machines
  <2>4. /\ t.icrf = s.icrf /\ t.rfex = s.rfex /\ t.exdc = s.exdc /\ t.dcwb = s.dcwb
        /\ t.regs = s.regs /\ t.mem = s.mem /\ t.lo = s.lo
    BY <2>2 DEF Machines
  <2>5. /\ t.type = s.type /\ t.history = s.history /\ t.fault_present = s.fault_present
        /\ t.commit = s.commit /\ t.raised = s.raised /\ t.vector = s.vector /\ t.stop = s.stop
    BY <2>2 DEF Machines
  <2> QED BY <2>1, <2>3, <2>4, <2>5
<1> HIDE DEF t
<1> QED BY <1>1, <1>2, <1>3 DEF epc

\* A multiplication that returns at once.
LEMMA MultFields ==
  ASSUME NEW s \in Machines, NEW product \in Data, NEW t, t = [s EXCEPT !.lo = product]
  PROVE  /\ t \in Machines /\ t.lo = product
         /\ t.icrf = s.icrf /\ t.rfex = s.rfex /\ t.exdc = s.exdc /\ t.dcwb = s.dcwb
         /\ Going(s, t) /\ t.type = s.type /\ t.stop = s.stop
BY DEF Machines, Going

\* One that stalls.
LEMMA DmultFields ==
  ASSUME NEW s \in Machines, NEW product \in Data
  PROVE  LET t == Stall([s EXCEPT !.lo = product], "rf") IN
         /\ t \in Machines /\ t.lo = product
         /\ t.icrf = s.icrf /\ t.rfex = s.rfex /\ t.exdc = s.exdc /\ t.dcwb = s.dcwb
         /\ Going(s, t) /\ t.type = "rf" /\ t.stop
<1>1. PICK yes \in BOOLEAN : yes = TRUE
  OBVIOUS
<1>2. PICK rf \in Texts : rf = "rf"
  BY TextFacts
<1> DEFINE f == [s EXCEPT !.lo = product]
           t == [f EXCEPT !.type = rf, !.stop = yes]
<1>3. Stall(f, "rf") = t
  BY <1>1, <1>2, Zenon DEF Stall
<1>4. /\ t \in Machines /\ t.lo = product
      /\ t.icrf = s.icrf /\ t.rfex = s.rfex /\ t.exdc = s.exdc /\ t.dcwb = s.dcwb
      /\ Going(s, t) /\ t.type = rf /\ t.stop = yes
  BY DEF Machines, Going
<1> HIDE DEF t
<1> QED BY <1>1, <1>2, <1>3, <1>4

\* A branch: where to fetch next, and whether the delay slot is killed.
LEMMA BranchFields ==
  ASSUME NEW s \in Machines, NEW op, NEW r1 \in Data, NEW r2 \in Data
  PROVE  LET t == Branch(s, op, r1, r2) IN
         /\ t \in Machines
         /\ t.icrf.next = (IF VrTaken(op, r1, r2) THEN VrTarget(op, s.rfex.pc) ELSE s.icrf.next)
         /\ t.icrf.pc = s.icrf.pc /\ t.icrf.fault = s.icrf.fault /\ t.icrf.bd = s.icrf.bd
         /\ t.rfex.kill = (op = "beql" /\ ~ VrTaken(op, r1, r2))
         /\ t.rfex.op = s.rfex.op /\ t.rfex.fault = s.rfex.fault
         /\ t.exdc = s.exdc /\ t.dcwb = s.dcwb
         /\ Going(s, t) /\ t.lo = s.lo /\ t.type = s.type /\ t.stop = s.stop
<1> DEFINE next == IF VrTaken(op, r1, r2) THEN VrTarget(op, s.rfex.pc) ELSE s.icrf.next
           kill == op = "beql" /\ ~ VrTaken(op, r1, r2)
           t == [s EXCEPT !.icrf.next = next, !.rfex.kill = kill]
<1>1. Branch(s, op, r1, r2) = t
  BY Zenon DEF Branch
<1>2. next \in Int /\ kill \in BOOLEAN
  <2>1. s.rfex.pc \in Int /\ s.icrf.next \in Int /\ s.lo \in Data
    BY DEF Machines, Decode, Fetch
  <2> QED BY <2>1, OpcodeFacts
<1> HIDE DEF next, kill
<1>3. /\ t \in Machines
      /\ t.icrf.next = next
      /\ t.icrf.pc = s.icrf.pc /\ t.icrf.fault = s.icrf.fault /\ t.icrf.bd = s.icrf.bd
      /\ t.rfex.kill = kill
      /\ t.rfex.op = s.rfex.op /\ t.rfex.fault = s.rfex.fault
      /\ t.exdc = s.exdc /\ t.dcwb = s.dcwb
      /\ Going(s, t) /\ t.lo = s.lo /\ t.type = s.type /\ t.stop = s.stop
  BY <1>2 DEF Machines, Decode, Fetch, Going
<1> HIDE DEF t
<1> QED BY <1>1, <1>3 DEF next, kill

\* ERET, in the handler of an exception.
LEMMA EretFields ==
  ASSUME NEW s \in Machines, ~ s.cp0.erl
  PROVE  LET t == VR4300_ERET(s) IN
         /\ t \in Machines
         /\ t.icrf.next = s.cp0.epc /\ t.icrf.fault = s.icrf.fault
         /\ ~ t.cp0.exl /\ ~ t.cp0.erl /\ t.cp0.epc = s.cp0.epc /\ t.cp0.bd = s.cp0.bd
         /\ t.cp0.code = s.cp0.code
         /\ t.exdc.fault = "ERET" /\ t.exdc.dest = s.exdc.dest /\ t.exdc.pc = s.exdc.pc
         /\ t.rfex.fault = "ERET" /\ t.rfex.op = s.rfex.op /\ t.rfex.kill = s.rfex.kill
         /\ t.dcwb = s.dcwb /\ t.lo = s.lo
         /\ t.type = "ic" /\ t.history = 0 /\ t.fault_present /\ t.raised = "ERET" /\ t.stop
         /\ Kept(s, t)
<1>1. PICK yes \in BOOLEAN : yes = TRUE
  OBVIOUS
<1>2. PICK no \in BOOLEAN : no = FALSE
  OBVIOUS
<1>3. PICK ic \in Texts : ic = "ic"
  BY TextFacts
<1>4. PICK eret \in Texts : eret = "ERET"
  BY TextFacts
<1>5. PICK zero \in 0 .. 4 : zero = 0
  OBVIOUS
<1> DEFINE next == s.cp0.epc
           cp0 == [s.cp0 EXCEPT !.exl = no]
           t == [s EXCEPT !.icrf.next = next, !.cp0 = cp0, !.exdc.fault = eret, !.rfex.fault = eret,
                          !.type = ic, !.history = zero, !.fault_present = yes, !.raised = eret,
                          !.stop = yes]
<1>6. VR4300_ERET(s) = t
  BY <1>1, <1>2, <1>3, <1>4, <1>5, Zenon DEF VR4300_ERET
<1>7. /\ next \in Int /\ cp0 \in Control /\ cp0.exl = no /\ cp0.erl = s.cp0.erl /\ cp0.epc = s.cp0.epc
      /\ cp0.bd = s.cp0.bd /\ cp0.code = s.cp0.code
  BY DEF Machines, Control
<1> HIDE DEF next, cp0
<1>8. /\ t \in Machines
      /\ t.icrf.next = next /\ t.icrf.fault = s.icrf.fault /\ t.cp0 = cp0
      /\ t.exdc.fault = eret /\ t.exdc.dest = s.exdc.dest /\ t.exdc.pc = s.exdc.pc
      /\ t.rfex.fault = eret /\ t.rfex.op = s.rfex.op /\ t.rfex.kill = s.rfex.kill
      /\ t.dcwb = s.dcwb /\ t.lo = s.lo
  <2> DEFINE icrf == [s.icrf EXCEPT !.next = next]
             rfex == [s.rfex EXCEPT !.fault = eret]
             exdc == [s.exdc EXCEPT !.fault = eret]
  <2>1. icrf \in Fetch /\ icrf.next = next /\ icrf.fault = s.icrf.fault
    BY <1>7 DEF Machines, Fetch
  <2>2. rfex \in Decode /\ rfex.fault = eret /\ rfex.op = s.rfex.op /\ rfex.kill = s.rfex.kill
    BY DEF Machines, Decode
  <2>3. exdc \in Execute /\ exdc.fault = eret /\ exdc.dest = s.exdc.dest /\ exdc.pc = s.exdc.pc
    BY DEF Machines, Execute
  <2>4. t = [s EXCEPT !.icrf = icrf, !.cp0 = cp0, !.exdc = exdc, !.rfex = rfex, !.type = ic,
                      !.history = zero, !.fault_present = yes, !.raised = eret, !.stop = yes]
    BY Zenon
  <2> HIDE DEF icrf, rfex, exdc, t
  <2>5. t \in Machines
    BY <1>7, <2>1, <2>2, <2>3, <2>4 DEF Machines
  <2>6. /\ t.icrf = icrf /\ t.rfex = rfex /\ t.exdc = exdc /\ t.cp0 = cp0
        /\ t.dcwb = s.dcwb /\ t.lo = s.lo
    BY <2>4 DEF Machines
  <2> QED BY <2>1, <2>2, <2>3, <2>5, <2>6
<1>9. /\ t.type = ic /\ t.history = zero /\ t.fault_present = yes /\ t.raised = eret /\ t.stop = yes
      /\ Kept(s, t)
  BY <1>7 DEF Machines, Kept
<1> HIDE DEF t
<1> QED BY <1>1, <1>2, <1>3, <1>4, <1>5, <1>6, <1>7, <1>8, <1>9 DEF next

-----------------------------------------------------------------------------
(* What DC changes.                                                        *)

\* The latch of DC.
LEMMA LatchDcFields ==
  ASSUME NEW s \in Machines
  PROVE  LET t == LatchDc(s) IN
         /\ t \in Machines
         /\ t.dcwb.pc = s.exdc.pc /\ t.dcwb.fault = s.exdc.fault /\ t.dcwb.bd = s.exdc.bd
         /\ t.dcwb.dest = s.exdc.dest /\ t.dcwb.result = s.exdc.result
         /\ t.icrf = s.icrf /\ t.rfex = s.rfex /\ t.exdc = s.exdc
         /\ Going(s, t) /\ t.lo = s.lo /\ t.tlb = s.tlb /\ t.type = s.type /\ t.stop = s.stop
<1> DEFINE dc == [s.dcwb EXCEPT !.pc = s.exdc.pc, !.fault = s.exdc.fault, !.bd = s.exdc.bd,
                                !.dest = s.exdc.dest, !.result = s.exdc.result]
           t == [s EXCEPT !.dcwb = dc]
<1>1. LatchDc(s) = t
  BY Zenon DEF LatchDc
<1>2. /\ dc \in WriteBack /\ dc.pc = s.exdc.pc /\ dc.fault = s.exdc.fault /\ dc.bd = s.exdc.bd
      /\ dc.dest = s.exdc.dest /\ dc.result = s.exdc.result
  BY DEF Machines, Execute, WriteBack
<1> HIDE DEF dc
<1>3. /\ t \in Machines /\ t.dcwb = dc
      /\ t.icrf = s.icrf /\ t.rfex = s.rfex /\ t.exdc = s.exdc
      /\ Going(s, t) /\ t.lo = s.lo /\ t.tlb = s.tlb /\ t.type = s.type /\ t.stop = s.stop
  BY <1>2 DEF Machines, Going
<1> HIDE DEF t
<1> QED BY <1>1, <1>2, <1>3

\* DC skips what is marked.
DcBubble(s) ==
  [s EXCEPT !.dcwb = [@ EXCEPT !.pc = s.exdc.pc, !.fault = s.exdc.fault, !.bd = s.exdc.bd, !.dest = 0]]

\* DC skips what is marked.
LEMMA DcBubbleFields ==
  ASSUME NEW s \in Machines
  PROVE  LET t == DcBubble(s) IN
         /\ t \in Machines
         /\ t.dcwb.fault = s.exdc.fault /\ t.dcwb.dest = 0
         /\ t.icrf = s.icrf /\ t.rfex = s.rfex /\ t.exdc = s.exdc
         /\ Going(s, t) /\ t.lo = s.lo /\ t.type = s.type /\ t.stop = s.stop
<1>1. PICK zero \in 0 .. 3 : zero = 0
  OBVIOUS
<1> DEFINE dc == [s.dcwb EXCEPT !.pc = s.exdc.pc, !.fault = s.exdc.fault, !.bd = s.exdc.bd,
                                !.dest = zero]
           t == [s EXCEPT !.dcwb = dc]
<1>2. DcBubble(s) = t
  BY <1>1, Zenon DEF DcBubble
<1>3. dc \in WriteBack /\ dc.fault = s.exdc.fault /\ dc.dest = zero
  BY DEF Machines, Execute, WriteBack
<1> HIDE DEF dc
<1>4. /\ t \in Machines /\ t.dcwb = dc
      /\ t.icrf = s.icrf /\ t.rfex = s.rfex /\ t.exdc = s.exdc
      /\ Going(s, t) /\ t.lo = s.lo /\ t.type = s.type /\ t.stop = s.stop
  BY <1>3 DEF Machines, Going
<1> HIDE DEF t
<1> QED BY <1>1, <1>2, <1>3, <1>4

\* All that DC leaves alone while it accesses memory.
Accessing(s, t) ==
  /\ t.icrf = s.icrf /\ t.rfex = s.rfex /\ t.exdc = s.exdc
  /\ t.dcwb.pc = s.dcwb.pc /\ t.dcwb.fault = s.dcwb.fault /\ t.dcwb.bd = s.dcwb.bd
  /\ t.dcwb.dest = s.dcwb.dest
  /\ t.regs = s.regs /\ t.lo = s.lo /\ t.cp0 = s.cp0 /\ t.pend = s.pend
  /\ t.history = s.history /\ t.fault_present = s.fault_present
  /\ t.raised = s.raised /\ t.vector = s.vector

\* The note that a store is under way.
LEMMA StoreFields ==
  ASSUME NEW s \in Machines, NEW store \in BOOLEAN
  PROVE  LET t == [s EXCEPT !.dcwb.store = store] IN
         /\ t \in Machines /\ Accessing(s, t)
         /\ t.dcwb.result = s.dcwb.result /\ t.mem = s.mem /\ t.commit = s.commit
         /\ t.type = s.type /\ t.stop = s.stop
<1> DEFINE t == [s EXCEPT !.dcwb.store = store]
<1>1. /\ t \in Machines
      /\ t.dcwb.pc = s.dcwb.pc /\ t.dcwb.fault = s.dcwb.fault /\ t.dcwb.bd = s.dcwb.bd
      /\ t.dcwb.dest = s.dcwb.dest /\ t.dcwb.result = s.dcwb.result
      /\ t.mem = s.mem /\ t.commit = s.commit /\ t.type = s.type /\ t.stop = s.stop
  BY DEF Machines, WriteBack
<1>2. /\ t.icrf = s.icrf /\ t.rfex = s.rfex /\ t.exdc = s.exdc
      /\ t.regs = s.regs /\ t.lo = s.lo /\ t.cp0 = s.cp0 /\ t.pend = s.pend
      /\ t.history = s.history /\ t.fault_present = s.fault_present
      /\ t.raised = s.raised /\ t.vector = s.vector
  BY DEF Machines
<1> HIDE DEF t
<1> QED BY <1>1, <1>2 DEF Accessing, t

\* An interlock,
LEMMA StallFields ==
  ASSUME NEW s \in Machines, NEW type \in Texts
  PROVE  LET t == Stall(s, type) IN
         /\ t \in Machines /\ Accessing(s, t)
         /\ t.dcwb = s.dcwb /\ t.mem = s.mem /\ t.commit = s.commit
         /\ t.type = type /\ t.stop
<1>1. PICK yes \in BOOLEAN : yes = TRUE
  OBVIOUS
<1> DEFINE t == [s EXCEPT !.type = type, !.stop = yes]
<1>2. Stall(s, type) = t
  BY <1>1, Zenon DEF Stall
<1>3. /\ t \in Machines /\ Accessing(s, t)
      /\ t.dcwb = s.dcwb /\ t.mem = s.mem /\ t.commit = s.commit /\ t.type = type /\ t.stop = yes
  BY DEF Machines, Accessing
<1> HIDE DEF t
<1> QED BY <1>1, <1>2, <1>3

\* an instruction that is accepted,
LEMMA CommitFields ==
  ASSUME NEW s \in Machines
  PROVE  LET t == Commit(s) IN
         /\ t \in Machines /\ Accessing(s, t) /\ t.dcwb = s.dcwb /\ t.mem = s.mem
         /\ t.commit = s.exdc.op /\ t.type = s.type /\ t.stop = s.stop
<1> DEFINE op == s.exdc.op
           t == [s EXCEPT !.commit = op]
<1>1. Commit(s) = t
  BY Zenon DEF Commit
<1>2. op \in Texts
  BY DEF Machines, Execute
<1> HIDE DEF op
<1>3. /\ t \in Machines /\ Accessing(s, t) /\ t.dcwb = s.dcwb /\ t.mem = s.mem
      /\ t.commit = op /\ t.type = s.type /\ t.stop = s.stop
  BY <1>2 DEF Machines, Accessing
<1> HIDE DEF t
<1> QED BY <1>1, <1>3 DEF op

\* and the access to memory.
LEMMA AccessFields ==
  ASSUME NEW s \in Machines
  PROVE  LET t == Access(s) IN
         /\ t \in Machines /\ Accessing(s, t)
         /\ t.dcwb.result = (IF s.exdc.request = "read" THEN s.mem ELSE s.dcwb.result)
         /\ t.mem = (IF s.exdc.request = "read" THEN s.mem ELSE s.exdc.data)
         /\ t.commit = s.commit /\ t.type = s.type /\ t.stop = s.stop
<1> DEFINE mem == s.mem
           data == s.exdc.data
           read == [s EXCEPT !.dcwb.result = mem]
           written == [s EXCEPT !.mem = data]
<1>0. mem \in Data /\ data \in Data /\ s.mem = mem
  BY DEF Machines, Execute
<1>1. Access(s) = IF s.exdc.request = "read" THEN read ELSE written
  BY Zenon DEF Access
<1> HIDE DEF mem, data
<1>2. /\ read \in Machines
      /\ read.dcwb.pc = s.dcwb.pc /\ read.dcwb.fault = s.dcwb.fault /\ read.dcwb.bd = s.dcwb.bd
      /\ read.dcwb.dest = s.dcwb.dest /\ read.dcwb.result = mem
      /\ read.mem = s.mem /\ read.commit = s.commit /\ read.type = s.type /\ read.stop = s.stop
  BY <1>0 DEF Machines, WriteBack
<1>3. /\ read.icrf = s.icrf /\ read.rfex = s.rfex /\ read.exdc = s.exdc
      /\ read.regs = s.regs /\ read.lo = s.lo /\ read.cp0 = s.cp0 /\ read.pend = s.pend
      /\ read.history = s.history /\ read.fault_present = s.fault_present
      /\ read.raised = s.raised /\ read.vector = s.vector
  BY <1>0 DEF Machines
<1>4. /\ written \in Machines /\ Accessing(s, written) /\ written.mem = data /\ written.dcwb = s.dcwb
      /\ written.commit = s.commit /\ written.type = s.type /\ written.stop = s.stop
  BY <1>0 DEF Machines, Accessing
<1> HIDE DEF read, written
<1>5. Accessing(s, read)
  BY <1>2, <1>3 DEF Accessing
<1>6. CASE s.exdc.request = "read"
  BY <1>0, <1>1, <1>2, <1>5, <1>6
<1>7. CASE s.exdc.request # "read"
  BY <1>0, <1>1, <1>4, <1>7 DEF data
<1> QED BY <1>6, <1>7

\* The access, done.
Accessed(s, t) ==
  /\ t.dcwb.result = (IF s.exdc.request = "read" THEN s.mem ELSE s.dcwb.result)
  /\ t.mem = (IF s.exdc.request = "read" THEN s.mem ELSE s.exdc.data)
  /\ t.commit = s.exdc.op

\* An access past the cache, which always stalls.
LEMMA UncachedFields ==
  ASSUME NEW s \in Machines
  PROVE  LET t == UncachedAccess(s) IN
         /\ t \in Machines /\ Accessing(s, t) /\ Accessed(s, t) /\ t.type = "ex" /\ t.stop
<1>1. PICK no \in BOOLEAN : no = FALSE
  OBVIOUS
<1> DEFINE u == [s EXCEPT !.dcwb.store = no]
           v == Access(u)
           w == Stall(v, "ex")
           t == Commit(w)
<1>2. UncachedAccess(s) = t
  BY <1>1, Zenon DEF UncachedAccess
<1>3. /\ u \in Machines /\ Accessing(s, u) /\ u.dcwb.result = s.dcwb.result /\ u.mem = s.mem
  BY StoreFields
<1> HIDE DEF u
<1>4. /\ v \in Machines /\ Accessing(u, v)
      /\ v.dcwb.result = (IF u.exdc.request = "read" THEN u.mem ELSE u.dcwb.result)
      /\ v.mem = (IF u.exdc.request = "read" THEN u.mem ELSE u.exdc.data)
  BY <1>3, AccessFields
<1> HIDE DEF v
<1>5. /\ w \in Machines /\ Accessing(v, w) /\ w.dcwb = v.dcwb /\ w.mem = v.mem /\ w.type = "ex" /\ w.stop
  BY <1>4, StallFields, TextFacts
<1> HIDE DEF w
<1>6. /\ t \in Machines /\ Accessing(w, t) /\ t.dcwb = w.dcwb /\ t.mem = w.mem
      /\ t.commit = w.exdc.op /\ t.type = w.type /\ t.stop = w.stop
  BY <1>5, CommitFields
<1> HIDE DEF t
<1>7. Accessing(s, t)
  BY <1>3, <1>4, <1>5, <1>6 DEF Accessing
<1>8. Accessed(s, t)
  BY <1>3, <1>4, <1>5, <1>6 DEF Accessing, Accessed
<1> QED BY <1>2, <1>5, <1>6, <1>7, <1>8

\* A cached access: it stalls, or is made.
LEMMA CachedFields ==
  ASSUME NEW s \in Machines, NEW dmiss \in BOOLEAN
  PROVE  LET t == CachedAccess(s, dmiss) IN
         /\ t \in Machines /\ Accessing(s, t)
         /\ \/ t.stop /\ t.type \in {"dcm", "dc"} /\ t.mem = s.mem /\ t.commit = s.commit
            \/ Accessed(s, t) /\ t.type = s.type /\ t.stop = s.stop
<1> DEFINE no == FALSE
           store == s.exdc.request = "write"
           u == [s EXCEPT !.dcwb.store = store]
           idle == [u EXCEPT !.dcwb.store = no]
           t == CachedAccess(s, dmiss)
<1>1. t = IF dmiss THEN Stall(u, "dcm") ELSE IF s.dcwb.store THEN Stall(idle, "dc") ELSE Commit(Access(u))
  BY Zenon DEF CachedAccess
<1>2. store \in BOOLEAN /\ no \in BOOLEAN
  OBVIOUS
<1> HIDE DEF store, no
<1>3. /\ u \in Machines /\ Accessing(s, u) /\ u.dcwb.result = s.dcwb.result /\ u.mem = s.mem
      /\ u.commit = s.commit /\ u.type = s.type /\ u.stop = s.stop
  BY <1>2, StoreFields
<1> HIDE DEF u
<1>4. /\ idle \in Machines /\ Accessing(u, idle) /\ idle.mem = u.mem /\ idle.commit = u.commit
  BY <1>2, <1>3, StoreFields
<1> HIDE DEF idle, t
<1>6. CASE dmiss
  <2> DEFINE w == Stall(u, "dcm")
  <2>1. w \in Machines /\ Accessing(u, w) /\ w.mem = u.mem /\ w.commit = u.commit
       /\ w.type = "dcm" /\ w.stop
    BY <1>3, StallFields, TextFacts
  <2>2. t = w
    BY <1>1, <1>6
  <2> HIDE DEF w
  <2>3. Accessing(s, w)
    BY <1>3, <2>1 DEF Accessing
  <2> QED BY <1>3, <2>1, <2>2, <2>3 DEF t
<1>7. CASE ~ dmiss /\ s.dcwb.store
  <2> DEFINE w == Stall(idle, "dc")
  <2>1. w \in Machines /\ Accessing(idle, w) /\ w.mem = idle.mem /\ w.commit = idle.commit
       /\ w.type = "dc" /\ w.stop
    BY <1>4, StallFields, TextFacts
  <2>2. t = w
    BY <1>1, <1>7
  <2> HIDE DEF w
  <2>3. Accessing(s, w)
    BY <1>3, <1>4, <2>1 DEF Accessing
  <2> QED BY <1>3, <1>4, <2>1, <2>2, <2>3 DEF t
<1>8. CASE ~ dmiss /\ ~ s.dcwb.store
  <2> DEFINE v == Access(u)
             w == Commit(v)
  <2>1. /\ v \in Machines /\ Accessing(u, v)
        /\ v.dcwb.result = (IF u.exdc.request = "read" THEN u.mem ELSE u.dcwb.result)
        /\ v.mem = (IF u.exdc.request = "read" THEN u.mem ELSE u.exdc.data)
        /\ v.type = u.type /\ v.stop = u.stop
    BY <1>3, AccessFields
  <2> HIDE DEF v
  <2>2. /\ w \in Machines /\ Accessing(v, w) /\ w.dcwb = v.dcwb /\ w.mem = v.mem
        /\ w.commit = v.exdc.op /\ w.type = v.type /\ w.stop = v.stop
    BY <2>1, CommitFields
  <2>3. t = w
    BY <1>1, <1>8 DEF v
  <2> HIDE DEF w
  <2>4. Accessing(s, w)
    BY <1>3, <2>1, <2>2 DEF Accessing
  <2>5. Accessed(s, w)
    BY <1>3, <2>1, <2>2 DEF Accessing, Accessed
  <2> QED BY <1>3, <2>1, <2>2, <2>3, <2>4, <2>5 DEF t
<1> QED BY <1>6, <1>7, <1>8

-----------------------------------------------------------------------------
(* What a cycle has to leave, at the stage that ends it.                   *)

AfterOf(i, t) ==
  CASE t.raised = "none" -> i [] t.raised = "ERET" -> IsaReturn(i)
    [] OTHER -> IsaException(i, t.raised, t.vector)

\* Nothing that stops the program is told but by the latches themselves.
Exact(p, i, t) ==
  \/ t.raised = "none"
  \/ t.raised = "ERET" /\ t.exdc.pc = i.pc /\ OpOf(p, i) = "eret"
  \/ /\ t.raised \in Codes \ {"none", "ERET"} /\ t.vector \in Vectors
     /\ t.cp0.exl /\ ~ Valid(t.exdc) /\ t.type = "wb"

Slow == {"wb", "dc", "ex", "rf", "ic", "dcm"}

\* The cycle ends; i is the instruction that comes next, but for exceptions.
Ends(p, i, t) ==
  /\ t \in Machines /\ t.type \in Slow
  /\ Exact(p, i, t) /\ AfterOf(i, t) \in IsaStates
  /\ AtCycle(p, t, AfterOf(i, t))

\* The cycle goes on with the next stage.
Passes(s, t) ==
  /\ t \in Machines /\ ~ t.stop
  /\ t.raised = "none" /\ t.type = s.type /\ t.commit = s.commit
  /\ t.cp0.exl = s.cp0.exl
  /\ Pending(t) => Pending(s)

\* An interrupt waits for less than it did.
Sooner(s, rank, t) == Pending(t) /\ Pending(s) => Rank(t) < rank

-----------------------------------------------------------------------------
(* The step of IC.                                                         *)

\* All but the fault and the type, which only the slow cycle sets.
IcStep(s, t) ==
  LET op == IF s.rfex.kill THEN "nop" ELSE s.rfex.op IN
  /\ t \in Machines
  /\ t.rfex.op = op /\ t.rfex.kill = FALSE
  /\ t.rfex.pc = s.rfex.pc /\ t.rfex.fault = s.rfex.fault /\ t.rfex.bd = s.rfex.bd
  /\ t.icrf.pc = s.icrf.next /\ t.icrf.next = s.icrf.next + 1
  /\ t.icrf.bd = (op \in Branches)
  /\ t.exdc = s.exdc /\ t.dcwb = s.dcwb
  /\ t.regs = s.regs /\ t.mem = s.mem /\ t.lo = s.lo /\ t.cp0 = s.cp0
  /\ t.history = s.history /\ t.fault_present = s.fault_present
  /\ t.pend = s.pend /\ t.commit = s.commit /\ t.raised = s.raised

\* The state after what EX has executed.
LEMMA AheadTyped ==
  ASSUME NEW p, NEW s, NEW i \in IsaStates
  PROVE  Ahead(p, s, i) \in IsaStates
BY IsaExecuteTyped DEF Ahead

\* IC brings the fetch one instruction further.
LEMMA IcHolds ==
  ASSUME NEW p \in VrPrograms, NEW i \in IsaStates, NEW s \in Machines, AtIc(p, s, i),
         NEW t, IcStep(s, t), t.icrf.fault = "NONE"
  PROVE  /\ AtWb(p, t, i)
         /\ t.type = "wb" => Sooner(s, RankIc(s), t)
<1> DEFINE j == Ahead(p, s, i)
<1>1. j \in IsaStates
  BY AheadTyped
<1>2. /\ Sound(p, s, i) /\ Held(p, s, i) /\ s.rfex.kill = j.void
      /\ IF Valid(s.rfex) THEN /\ s.rfex.pc = j.pc /\ Marked(s.rfex.bd, j)
                               /\ s.rfex.op = WordOf(p, j.pc) /\ s.icrf.next = j.next
         ELSE /\ ~ Valid(s.exdc) /\ Plain(j) /\ s.icrf.next = j.pc
              /\ j.pc \in Vectors \/ s.rfex.op \notin Branches
      /\ ~ Valid(s.exdc) => s.exdc.dest = 0
      /\ Young(s, s.rfex, 1) /\ Young(s, s.exdc, 2) /\ Young(s, s.dcwb, 3)
  BY DEF AtIc
<1>3. /\ Ahead(p, t, i) = j /\ t \in Machines /\ Valid(t.icrf)
      /\ Valid(t.rfex) = Valid(s.rfex)
      /\ t.exdc = s.exdc /\ t.dcwb = s.dcwb /\ t.cp0 = s.cp0
  BY DEF Ahead, Valid, IcStep
<1> HIDE DEF j
<1>4. Sound(p, t, i)
  <2>1. t.mem = s.mem /\ t.lo = s.lo
    BY DEF IcStep
  <2>2. Ahead(p, s, i) = j
    BY DEF j
  <2>3. Agree(p, t, i, j)
    BY <1>2, <1>3, <2>1, <2>2 DEF Sound, Agree
  <2> QED BY <1>2, <1>3, <2>1, <2>2, <2>3 DEF Sound
<1>5. Written(p, t, i)
  <2>1. t.regs = s.regs
    BY DEF IcStep
  <2>2. \A n \in 1 .. 2 : Valid(s.dcwb) \/ Drained(s.dcwb, s.regs, n) = s.regs[n]
    BY <1>2 DEF Held, Drained
  <2> QED BY <1>2, <1>3, <2>1, <2>2 DEF Held, Written
<1>6. Follows(p, t, j)
  <2>1. t.rfex.kill = FALSE
    BY DEF IcStep
  <2>2. CASE Valid(s.rfex)
    <3>1. t.rfex.op = OpOf(p, j)
      BY <1>2, <2>2 DEF IcStep, OpOf
    <3>2. Marked(t.rfex.bd, j)
      BY <1>2, <2>2 DEF IcStep
    <3>3. t.icrf.bd = (t.rfex.op \in Branches)
      BY DEF IcStep
    <3>4. t.rfex.pc = j.pc /\ t.icrf.pc = j.next /\ t.icrf.next = j.next + 1
      BY <1>2, <2>2 DEF IcStep
    <3> QED BY <1>3, <2>1, <2>2, <3>1, <3>2, <3>3, <3>4 DEF Follows, Decoded
  <2>3. CASE ~ Valid(s.rfex)
    <3>1. Plain(j) /\ t.icrf.pc = j.pc
      BY <1>2, <2>3 DEF IcStep
    <3>2. t.icrf.next = j.next
      BY <1>2, <2>3, <3>1 DEF IcStep, Plain
    <3>3. ~ s.rfex.kill
      BY <1>2, <3>1 DEF Plain
    <3>4. t.icrf.bd = (s.rfex.op \in Branches)
      BY <3>3 DEF IcStep
    <3>5. j.slot = FALSE
      BY <1>1, <3>1 DEF Plain, IsaStates
    <3>6. j.pc \in Vectors \/ ~ t.icrf.bd
      <4>1. j.pc \in Vectors \/ s.rfex.op \notin Branches
        BY <1>2, <2>3
      <4> QED BY <3>4, <4>1
    <3>7. Marked(t.icrf.bd, j)
      <4>1. t.icrf.bd \in BOOLEAN
        BY <1>3 DEF Machines, Fetch
      <4> QED BY <3>5, <3>6, <4>1 DEF Marked
    <3> QED BY <1>3, <2>1, <2>3, <3>1, <3>2, <3>7 DEF Follows, Fetched
  <2> QED BY <2>2, <2>3
<1>7. AtWb(p, t, i)
  <2>1. Young(t, t.icrf, 0) /\ Young(t, t.rfex, 1) /\ Young(t, t.exdc, 2) /\ Young(t, t.dcwb, 3)
    BY <1>2, <1>3 DEF Young, IcStep
  <2>2. Valid(t.exdc) => Valid(t.rfex)
    BY <1>2, <1>3
  <2> QED BY <1>2, <1>3, <1>4, <1>5, <1>6, <2>1, <2>2 DEF AtWb
<1>8. t.type = "wb" => Sooner(s, RankIc(s), t)
  <2> SUFFICES ASSUME t.type = "wb" PROVE Rank(t) < RankIc(s)
    BY DEF Sooner
  <2>1. Rank(t) = RankDc(t)
    BY DEF Rank
  <2>2. ~ Valid(t.exdc) => t.exdc.dest = 0
    BY <1>2, <1>3
  <2> QED BY <1>3, <2>1, <2>2 DEF RankDc, RankEx, RankIc
<1> QED BY <1>7, <1>8

\* The two forms of the stage.
LEMMA SlowIc ==
  ASSUME NEW s \in Machines
  PROVE  LET t == vr4300_cycle_slow_ic(s) IN
         IcStep(s, t) /\ t.icrf.fault = "NONE" /\ t.type = "wb" /\ t.vector = s.vector /\ t.stop = s.stop
BY IcFields DEF IcStep

\* The stage of the fast cycle changes the same, but no fault and no type.
LEMMA FastIc ==
  ASSUME NEW s \in Machines
  PROVE  LET t == vr4300_ic_stage(s) IN
         IcStep(s, t) /\ t.icrf.fault = s.icrf.fault /\ t.type = s.type
<1>1. PICK no \in BOOLEAN : no = FALSE
  OBVIOUS
<1> DEFINE op == IF s.rfex.kill THEN "nop" ELSE s.rfex.op
           bd == op \in Branches
           next == s.icrf.next + 1
           first == s.icrf.next
           ic == [s.icrf EXCEPT !.pc = first, !.next = next, !.bd = bd]
           t == [s EXCEPT !.rfex.op = op, !.rfex.kill = no, !.icrf = ic]
<1>2. vr4300_ic_stage(s) = t
  <2> HIDE DEF op
  <2>1. (IF s.rfex.kill THEN "nop" ELSE s.rfex.op) = op
    BY DEF op
  <2> QED BY <1>1, <2>1, Zenon DEF vr4300_ic_stage
<1>3. op \in Texts /\ bd \in BOOLEAN /\ next \in Int /\ first \in Int
  BY TextFacts DEF Machines, Decode, Fetch
<1> HIDE DEF op, bd, next, first
<1>4. ic \in Fetch /\ ic.pc = first /\ ic.next = next /\ ic.fault = s.icrf.fault /\ ic.bd = bd
  BY <1>3 DEF Machines, Fetch
<1> HIDE DEF ic
<1>5. /\ t \in Machines
      /\ t.rfex.op = op /\ t.rfex.kill = no
      /\ t.rfex.pc = s.rfex.pc /\ t.rfex.fault = s.rfex.fault /\ t.rfex.bd = s.rfex.bd
      /\ t.icrf = ic
  BY <1>3, <1>4 DEF Machines, Decode
<1>6. /\ t.exdc = s.exdc /\ t.dcwb = s.dcwb
      /\ t.regs = s.regs /\ t.mem = s.mem /\ t.lo = s.lo /\ t.cp0 = s.cp0
      /\ t.history = s.history /\ t.fault_present = s.fault_present
      /\ t.pend = s.pend /\ t.commit = s.commit /\ t.raised = s.raised /\ t.type = s.type
  BY <1>3, <1>4 DEF Machines
<1> HIDE DEF t
<1> QED BY <1>1, <1>2, <1>4, <1>5, <1>6 DEF IcStep, op, bd, next, first

-----------------------------------------------------------------------------
(* The step of RF.                                                         *)

\* What AtRf and AtIc say of the two latches that neither stage touches.
LEMMA SameAhead ==
  ASSUME NEW p, NEW i, NEW s, NEW t, t.exdc = s.exdc, t.dcwb = s.dcwb, t.cp0 = s.cp0,
         t.mem = s.mem, t.lo = s.lo, t.regs = s.regs
  PROVE  /\ Ahead(p, t, i) = Ahead(p, s, i)
         /\ Sound(p, s, i) => Sound(p, t, i)
         /\ Held(p, s, i) => Held(p, t, i)
<1>1. Ahead(p, t, i) = Ahead(p, s, i)
  BY DEF Ahead
<1>2. Sound(p, s, i) => Sound(p, t, i)
  BY <1>1 DEF Sound, Agree
<1>3. Held(p, s, i) => Held(p, t, i)
  BY DEF Held
<1> QED BY <1>1, <1>2, <1>3

\* RF fetches what IC has prepared, or passes on that it is marked.
LEMMA RfHolds ==
  ASSUME vrprog \in VrPrograms, NEW i \in IsaStates, NEW s \in Machines, AtRf(vrprog, s, i),
         NEW imiss \in BOOLEAN, s.raised = "none", ~ s.stop
  PROVE  LET t == IF Valid(s.icrf) THEN Fetching(s, imiss) ELSE LatchRf(s) IN
         /\ AtIc(vrprog, t, i)
         /\ t.exdc = s.exdc /\ t.dcwb = s.dcwb /\ t.icrf = s.icrf /\ Going(s, t)
         /\ t \in Machines
         /\ \/ t.stop /\ t.type = "ic" /\ Sooner(s, RankRf(s), t)
            \/ Passes(s, t) /\ RankIc(t) <= RankRf(s)
<1> DEFINE p == vrprog
           j == Ahead(p, s, i)
           t == IF Valid(s.icrf) THEN Fetching(s, imiss) ELSE LatchRf(s)
<1>1. /\ Sound(p, s, i) /\ Held(p, s, i) /\ s.rfex.kill = j.void
      /\ IF Valid(s.icrf) THEN s.icrf.pc = j.pc /\ Marked(s.icrf.bd, j) /\ s.icrf.next = j.next
         ELSE /\ ~ Valid(s.exdc) /\ Plain(j) /\ s.icrf.next = j.pc
              /\ j.pc \in Vectors \/ s.rfex.op \notin Branches
      /\ ~ Valid(s.exdc) => s.exdc.dest = 0
      /\ Young(s, s.icrf, 1) /\ Young(s, s.exdc, 2) /\ Young(s, s.dcwb, 3)
  BY DEF AtRf
<1>2. /\ t \in Machines
      /\ t.rfex.pc = s.icrf.pc /\ t.rfex.fault = s.icrf.fault /\ t.rfex.bd = s.icrf.bd
      /\ t.rfex.op = (IF Valid(s.icrf) THEN WordOf(p, s.icrf.pc) ELSE s.rfex.op)
      /\ t.rfex.kill = s.rfex.kill
      /\ t.icrf = s.icrf /\ t.exdc = s.exdc /\ t.dcwb = s.dcwb /\ t.lo = s.lo
      /\ \/ t.type = "ic" /\ t.stop /\ Valid(s.icrf)
         \/ t.type = s.type /\ t.stop = s.stop
  <2>1. CASE Valid(s.icrf)
    <3> DEFINE f == Fetching(s, imiss)
    <3>1. t = f
      BY <2>1
    <3>2. (f.type = "ic" /\ f.stop) \/ (f.type = s.type /\ f.stop = s.stop)
      BY RfFields
    <3>3. /\ f \in Machines
          /\ f.rfex.pc = s.icrf.pc /\ f.rfex.fault = s.icrf.fault /\ f.rfex.bd = s.icrf.bd
          /\ f.rfex.op = WordOf(p, s.icrf.pc)
          /\ f.rfex.kill = s.rfex.kill
          /\ f.icrf = s.icrf /\ f.exdc = s.exdc /\ f.dcwb = s.dcwb /\ f.lo = s.lo
      BY RfFields
    <3> HIDE DEF t, f
    <3> QED BY <2>1, <3>1, <3>2, <3>3
  <2>2. CASE ~ Valid(s.icrf)
    <3>1. t = LatchRf(s)
      BY <2>2
    <3> HIDE DEF t
    <3> QED BY <2>2, <3>1, LatchRfFields
  <2> QED BY <2>1, <2>2
<1>3. Going(s, t)
  BY RfFields, LatchRfFields
<1> HIDE DEF j, t, p
<1>4. Ahead(p, t, i) = j /\ Sound(p, t, i) /\ Held(p, t, i)
  BY <1>1, <1>2, <1>3, SameAhead DEF j, Going
<1>5. Valid(t.rfex) = Valid(s.icrf) /\ Valid(t.exdc) = Valid(s.exdc)
  BY <1>2 DEF Valid
<1>6. Young(t, t.rfex, 1) /\ Young(t, t.exdc, 2) /\ Young(t, t.dcwb, 3)
  BY <1>1, <1>2, <1>3, <1>5 DEF Young, Going
<1>7. AtIc(p, t, i)
  <2>1. CASE Valid(s.icrf)
    <3>1. /\ t.rfex.pc = j.pc /\ Marked(t.rfex.bd, j) /\ t.rfex.op = WordOf(p, j.pc)
          /\ t.icrf.next = j.next
      BY <1>1, <1>2, <2>1
    <3> QED BY <1>1, <1>2, <1>4, <1>5, <1>6, <2>1, <3>1 DEF AtIc
  <2>2. CASE ~ Valid(s.icrf)
    <3>1. /\ ~ Valid(t.exdc) /\ Plain(j) /\ t.icrf.next = j.pc
          /\ j.pc \in Vectors \/ t.rfex.op \notin Branches
      BY <1>1, <1>2, <1>5, <2>2
    <3> QED BY <1>1, <1>2, <1>4, <1>5, <1>6, <2>2, <3>1 DEF AtIc
  <2> QED BY <2>1, <2>2
<1>8. RankIc(t) <= RankRf(s) /\ (Valid(s.icrf) => RankIc(t) < RankRf(s))
  BY <1>5 DEF RankIc, RankRf
<1>9. Pending(t) = Pending(s)
  BY <1>3 DEF Going, Pending
<1>10. CASE t.type = "ic" /\ t.stop /\ Valid(s.icrf)
  <2>1. Rank(t) = RankIc(t)
    BY <1>10 DEF Rank
  <2> QED BY <1>2, <1>3, <1>7, <1>8, <1>10, <2>1 DEF Sooner, t, p
<1>11. CASE t.type = s.type /\ t.stop = s.stop
  <2>1. Passes(s, t)
    BY <1>2, <1>3, <1>9, <1>11 DEF Passes, Going
  <2> QED BY <1>2, <1>3, <1>7, <1>8, <2>1 DEF t, p
<1> QED BY <1>2, <1>10, <1>11

-----------------------------------------------------------------------------
(* The step of EX.                                                         *)

\* What EX finds.
LEMMA ExFinds ==
  ASSUME NEW p \in VrPrograms, NEW i \in IsaStates, NEW s \in Machines, AtEx(p, s, i), Valid(s.rfex)
  PROVE  /\ s.rfex.op = OpOf(p, i) /\ s.rfex.pc = i.pc /\ ~ s.rfex.kill
         /\ OpOf(p, i) # "handle" => s.rfex.bd = i.slot
         /\ Valid(s.icrf) /\ s.icrf.pc = i.next /\ s.icrf.next = i.next + 1
         /\ s.icrf.bd = (s.rfex.op \in Branches)
         /\ VrForwarded(s, 1) = i.regs[1] /\ VrForwarded(s, 2) = i.regs[2]
         /\ s.mem = i.mem
         /\ s.cp0.epc = i.epc /\ s.cp0.bd = i.bd /\ s.cp0.code = i.code /\ ~ s.cp0.erl
         /\ s.lo = i.lo \/ Redoes(p, i, s.cp0.exl)
         /\ s.cp0.exl \in BOOLEAN /\ Placed(p, i, s.cp0.exl)
         /\ i.inorder /\ i.precise
<1>1. Agree(p, s, i, i) /\ Held(p, s, i) /\ Follows(p, s, i)
  BY DEF AtEx
<1>2. Decoded(p, s, i) /\ ~ s.rfex.kill
  BY <1>1 DEF Follows, Fetched, Empty
<1>3. s.cp0.exl \in BOOLEAN
  BY DEF Machines, Control
<1>4. /\ s.mem = i.mem
      /\ s.cp0.epc = i.epc /\ s.cp0.bd = i.bd /\ s.cp0.code = i.code /\ ~ s.cp0.erl
      /\ s.lo = i.lo \/ Redoes(p, i, s.cp0.exl)
      /\ Placed(p, i, s.cp0.exl) /\ i.inorder /\ i.precise
  BY <1>1 DEF Agree
<1>5. OpOf(p, i) # "handle" => s.rfex.bd = i.slot
  BY <1>2, <1>3, <1>4, OpOfFacts DEF Decoded, Marked
<1>6. VrForwarded(s, 1) = i.regs[1] /\ VrForwarded(s, 2) = i.regs[2]
  BY <1>1, ForwardedTyped DEF Held
<1>7. /\ s.rfex.op = OpOf(p, i) /\ s.rfex.pc = i.pc
      /\ Valid(s.icrf) /\ s.icrf.pc = i.next /\ s.icrf.next = i.next + 1
      /\ s.icrf.bd = (s.rfex.op \in Branches)
  BY <1>2 DEF Decoded
<1> QED BY <1>2, <1>3, <1>4, <1>5, <1>6, <1>7

\* Only where a multiplication is done again may LO be ahead.
LEMMA RedoesKinds ==
  ASSUME NEW p \in VrPrograms, NEW i \in IsaStates, NEW exl \in BOOLEAN, Placed(p, i, exl),
         Redoes(p, i, exl)
  PROVE  OpOf(p, i) \in Branches \cup Multiplications \cup {"handle", "eret"}
<1>1. CASE exl
  BY <1>1, OpOfFacts
<1>2. CASE ~ exl
  BY <1>2, OpOfFacts DEF Redoes, Multiplies
<1> QED BY <1>1, <1>2

\* The instruction, executed.
ExecutedAs(p, s, i, t) ==
  LET op == OpOf(p, i)
      j == IsaExecute(i, op)
  IN /\ t \in Machines
     /\ t.exdc.pc = s.rfex.pc /\ t.exdc.fault = s.rfex.fault /\ t.exdc.bd = s.rfex.bd
     /\ t.exdc.op = op /\ t.exdc.dest = (IF op = "spin" THEN CYCLE_TYPE ELSE VrDest(op))
     /\ t.exdc.request = RequestOf(op) /\ t.exdc.data = VrForwarded(s, 1)
     /\ t.exdc.result = VrResult(op, s.rfex.pc, VrForwarded(s, 1), VrForwarded(s, 2), s.lo)
     /\ t.dcwb = s.dcwb /\ t.regs = s.regs /\ t.mem = s.mem
     /\ t.history = s.history /\ t.fault_present = s.fault_present
     /\ t.icrf.pc = s.icrf.pc /\ t.icrf.fault = s.icrf.fault /\ t.icrf.bd = s.icrf.bd
     /\ t.cp0.exl = s.cp0.exl /\ t.cp0.erl = s.cp0.erl /\ t.cp0.bd = s.cp0.bd
     /\ t.cp0.code = s.cp0.code /\ t.cp0.epc = j.epc
     /\ t.lo = (IF op \in Multiplications THEN VrProduct(VrForwarded(s, 1), VrForwarded(s, 2)) ELSE s.lo)
     /\ t.icrf.next = j.next /\ t.rfex.kill = j.void

\* An instruction that does not end the cycle with an exception.
LEMMA ExecutedHolds ==
  ASSUME NEW p \in VrPrograms, NEW i \in IsaStates, NEW s \in Machines, AtEx(p, s, i), Valid(s.rfex),
         OpOf(p, i) \notin {"eret", "syscall", "fpu"}, NEW t, ExecutedAs(p, s, i, t)
  PROVE  AtRf(p, t, i) /\ Valid(t.exdc) /\ Valid(t.icrf)
<1> DEFINE op == OpOf(p, i)
           j == IsaExecute(i, op)
<1>1. /\ s.rfex.op = op /\ s.rfex.pc = i.pc
      /\ op # "handle" => s.rfex.bd = i.slot
      /\ Valid(s.icrf) /\ s.icrf.pc = i.next
      /\ s.icrf.bd = (s.rfex.op \in Branches)
      /\ VrForwarded(s, 1) = i.regs[1] /\ VrForwarded(s, 2) = i.regs[2]
      /\ s.mem = i.mem
      /\ s.cp0.epc = i.epc /\ s.cp0.bd = i.bd /\ s.cp0.code = i.code /\ ~ s.cp0.erl
      /\ s.lo = i.lo \/ Redoes(p, i, s.cp0.exl)
      /\ s.cp0.exl \in BOOLEAN /\ Placed(p, i, s.cp0.exl)
      /\ i.inorder /\ i.precise
  BY ExFinds
<1>2. /\ j.pc = i.next /\ j.slot = (op \in Branches) /\ j.bd = i.bd /\ j.code = i.code
      /\ j.lo = (IF op \in Multiplications THEN VrProduct(i.regs[1], i.regs[2]) ELSE i.lo)
  BY IsaExecuteTyped
<1>3. Valid(t.exdc) /\ Valid(t.icrf)
  BY <1>1 DEF ExecutedAs, Valid
<1>4. Ahead(p, t, i) = j
  BY <1>3 DEF Ahead
<1>5. Executes(p, t.exdc, i)
  <2>1. s.lo = i.lo \/ op # "mflo"
    <3>1. op \in Branches => op # "mflo"
      BY DEF Branches
    <3> QED BY <1>1, <3>1, RedoesKinds
  <2>2. VrResult(op, i.pc, i.regs[1], i.regs[2], s.lo) = VrResult(op, i.pc, i.regs[1], i.regs[2], i.lo)
    BY <2>1 DEF VrResult
  <2> HIDE DEF op
  <2>3. /\ t.exdc.pc = i.pc /\ t.exdc.op = op /\ (op # "handle" => t.exdc.bd = i.slot)
        /\ t.exdc.dest = (IF op = "spin" THEN CYCLE_TYPE ELSE VrDest(op))
        /\ t.exdc.request = RequestOf(op) /\ t.exdc.data = i.regs[1]
    BY <1>1 DEF ExecutedAs, op
  <2>4. t.exdc.result = VrResult(op, i.pc, i.regs[1], i.regs[2], s.lo)
    BY <1>1 DEF ExecutedAs, op
  <2> QED BY <2>2, <2>3, <2>4 DEF Executes, op
<1>6. Agree(p, t, i, j)
  <2>1. t.mem = i.mem /\ t.cp0.epc = j.epc /\ t.cp0.bd = j.bd /\ t.cp0.code = j.code /\ ~ t.cp0.erl
    BY <1>1, <1>2 DEF ExecutedAs
  <2>2. t.cp0.exl = s.cp0.exl
    BY DEF ExecutedAs
  <2>3. t.lo = (IF op \in Multiplications THEN VrProduct(i.regs[1], i.regs[2]) ELSE s.lo)
    BY <1>1 DEF ExecutedAs
  <2>4. t.lo = j.lo \/ Redoes(p, i, t.cp0.exl)
    BY <1>1, <1>2, <2>2, <2>3
  <2> HIDE DEF j, op
  <2> QED BY <1>1, <2>1, <2>2, <2>4 DEF Agree
<1>7. t.exdc.op \in Multiplications => t.lo = j.lo
  <2>1. t.exdc.op = op /\ t.lo = (IF op \in Multiplications THEN VrProduct(i.regs[1], i.regs[2]) ELSE s.lo)
    BY <1>1 DEF ExecutedAs
  <2> QED BY <1>2, <2>1
<1>8. Sound(p, t, i)
  <2> HIDE DEF j
  <2> QED BY <1>4, <1>5, <1>6, <1>7 DEF Sound
<1>9. Held(p, t, i)
  <2>1. Held(p, s, i) /\ t.dcwb = s.dcwb /\ t.regs = s.regs /\ t.cp0.exl = s.cp0.exl
    BY DEF AtEx, ExecutedAs
  <2> QED BY <2>1 DEF Held
<1>10. t.icrf.pc = j.pc /\ Marked(t.icrf.bd, j) /\ t.icrf.next = j.next /\ t.rfex.kill = j.void
  <2>1. t.icrf.pc = s.icrf.pc /\ t.icrf.bd = s.icrf.bd /\ t.icrf.next = j.next /\ t.rfex.kill = j.void
    BY DEF ExecutedAs
  <2>2. t.icrf.bd = j.slot
    BY <1>1, <1>2, <2>1
  <2> HIDE DEF j
  <2> QED BY <1>1, <1>2, <2>1, <2>2 DEF Marked
<1>11. Young(t, t.icrf, 1) /\ Young(t, t.exdc, 2) /\ Young(t, t.dcwb, 3)
  <2>1. Young(s, s.dcwb, 3) /\ t.dcwb = s.dcwb /\ t.history = s.history /\ t.fault_present = s.fault_present
    BY DEF AtEx, ExecutedAs
  <2> QED BY <1>3, <2>1 DEF Young
<1> HIDE DEF j
<1> QED BY <1>3, <1>4, <1>8, <1>9, <1>10, <1>11 DEF AtRf

\* EX skips what is marked.
LEMMA ExBubbleHolds ==
  ASSUME NEW p \in VrPrograms, NEW i \in IsaStates, NEW s \in Machines, AtEx(p, s, i),
         ~ Valid(s.rfex), s.raised = "none", ~ s.stop
  PROVE  LET t == [LatchEx(s) EXCEPT !.exdc.dest = 0] IN
         AtRf(p, t, i) /\ Passes(s, t) /\ t.dcwb = s.dcwb /\ RankRf(t) <= RankEx(s)
<1> DEFINE t == [LatchEx(s) EXCEPT !.exdc.dest = 0]
<1>1. /\ t \in Machines
      /\ t.exdc.fault = s.rfex.fault /\ t.exdc.dest = 0
      /\ t.icrf = s.icrf /\ t.rfex = s.rfex /\ t.dcwb = s.dcwb
      /\ Going(s, t) /\ t.lo = s.lo /\ t.type = s.type /\ t.stop = s.stop
  BY ExBubbleFields
<1> HIDE DEF t
<1>2. /\ t.regs = s.regs /\ t.mem = s.mem /\ t.pend = s.pend /\ t.commit = s.commit
      /\ t.cp0 = s.cp0 /\ t.history = s.history /\ t.fault_present = s.fault_present
      /\ t.raised = s.raised
  BY <1>1 DEF Going
<1>3. /\ Agree(p, s, i, i) /\ Held(p, s, i) /\ Follows(p, s, i)
      /\ Young(s, s.icrf, 1) /\ Young(s, s.rfex, 2) /\ Young(s, s.dcwb, 3)
  BY DEF AtEx
<1>4. ~ Valid(t.exdc) /\ Ahead(p, t, i) = i
  BY <1>1 DEF Valid, Ahead
<1>5. Sound(p, t, i)
  <2>1. Agree(p, t, i, i)
    BY <1>1, <1>2, <1>3 DEF Agree
  <2> QED BY <1>4, <2>1 DEF Sound
<1>6. Held(p, t, i)
  BY <1>1, <1>2, <1>3 DEF Held
<1>7. ~ s.rfex.kill /\ (Fetched(s, i) \/ Empty(s, i))
  BY <1>3 DEF Follows, Decoded
<1>8. Plain(i)
  BY <1>7 DEF Fetched, Empty
<1>9. t.rfex.kill = i.void
  <2>1. t.rfex.kill \in BOOLEAN /\ i.void \in BOOLEAN /\ ~ t.rfex.kill /\ ~ i.void
    BY <1>1, <1>7, <1>8 DEF Plain, Machines, Decode, IsaStates
  <2> QED BY <2>1
<1>10. IF Valid(t.icrf) THEN t.icrf.pc = i.pc /\ Marked(t.icrf.bd, i) /\ t.icrf.next = i.next
       ELSE /\ ~ Valid(t.exdc) /\ Plain(i) /\ t.icrf.next = i.pc
            /\ i.pc \in Vectors \/ t.rfex.op \notin Branches
  <2>1. CASE Fetched(s, i)
    BY <1>1, <2>1 DEF Fetched
  <2>2. CASE Empty(s, i)
    BY <1>1, <1>4, <2>2 DEF Empty
  <2> QED BY <1>7, <2>1, <2>2
<1>11. Young(t, t.icrf, 1) /\ Young(t, t.exdc, 2) /\ Young(t, t.dcwb, 3)
  BY <1>1, <1>2, <1>3 DEF Young, Valid
<1>12. AtRf(p, t, i)
  BY <1>1, <1>4, <1>5, <1>6, <1>9, <1>10, <1>11 DEF AtRf
<1>13. Pending(t) = Pending(s)
  BY <1>2 DEF Pending
<1>14. Passes(s, t)
  BY <1>1, <1>2, <1>13 DEF Passes
<1>15. RankRf(t) <= RankEx(s)
  BY <1>1, <1>4 DEF RankRf, RankEx
<1> QED BY <1>1, <1>12, <1>14, <1>15 DEF t

\* A machine that has just taken an exception of the program.
Raised(p, i, t) ==
  LET k == IsaException(i, t.raised, t.vector) IN
  /\ t \in Machines
  /\ ~ Valid(t.icrf) /\ ~ Valid(t.rfex) /\ ~ Valid(t.exdc) /\ ~ t.rfex.kill
  /\ t.type = "wb" /\ t.history = 0 /\ t.fault_present
  /\ t.raised \in Codes \ {"none", "ERET"} /\ t.vector \in Vectors /\ t.icrf.next = t.vector
  /\ t.cp0.exl /\ ~ t.cp0.erl /\ t.cp0.epc = k.epc /\ t.cp0.bd = k.bd /\ t.cp0.code = k.code
  /\ t.mem = i.mem
  /\ t.lo = i.lo \/ Redoes(p, k, TRUE)
  /\ Placed(p, k, TRUE) /\ i.inorder /\ i.precise
  /\ \A n \in 1 .. 2 : i.regs[n] = IF Valid(t.dcwb) THEN Drained(t.dcwb, t.regs, n) ELSE t.regs[n]
  /\ Valid(t.dcwb) => t.dcwb.dest # CYCLE_TYPE

\* An exception leaves a pipeline that starts again at its vector.
LEMMA RaisedEnds ==
  ASSUME NEW p \in VrPrograms, NEW i \in IsaStates, NEW t, Raised(p, i, t)
  PROVE  Ends(p, i, t) /\ ~ Pending(t)
<1> DEFINE k == IsaException(i, t.raised, t.vector)
<1>1. /\ k \in IsaStates /\ k.pc = t.vector /\ Plain(k)
      /\ k.regs = i.regs /\ k.mem = i.mem /\ k.lo = i.lo
      /\ k.inorder = i.inorder /\ k.precise = i.precise
  <2>1. t.raised \in Texts /\ t.vector \in Int
    BY TextFacts, VectorFacts DEF Raised
  <2> QED BY <2>1, IsaExceptionTyped
<1>2. /\ t \in Machines
      /\ ~ Valid(t.icrf) /\ ~ Valid(t.rfex) /\ ~ Valid(t.exdc) /\ ~ t.rfex.kill
      /\ t.type = "wb" /\ t.history = 0 /\ t.fault_present
      /\ t.raised \in Codes \ {"none", "ERET"} /\ t.vector \in Vectors /\ t.icrf.next = t.vector
      /\ t.cp0.exl /\ ~ t.cp0.erl /\ t.cp0.epc = k.epc /\ t.cp0.bd = k.bd /\ t.cp0.code = k.code
      /\ t.mem = i.mem
      /\ t.lo = i.lo \/ Redoes(p, k, TRUE)
      /\ Placed(p, k, TRUE) /\ i.inorder /\ i.precise
      /\ \A n \in 1 .. 2 : i.regs[n] = IF Valid(t.dcwb) THEN Drained(t.dcwb, t.regs, n) ELSE t.regs[n]
      /\ Valid(t.dcwb) => t.dcwb.dest # CYCLE_TYPE
  BY DEF Raised
<1>3. AfterOf(i, t) = k
  BY <1>2 DEF AfterOf
<1> HIDE DEF k
<1>4. Ahead(p, t, k) = k
  BY <1>2 DEF Ahead
<1>5. t.cp0.exl = TRUE
  BY <1>2 DEF Machines, Control
<1>6. Sound(p, t, k)
  <2>1. Agree(p, t, k, k)
    BY <1>1, <1>2, <1>5 DEF Agree
  <2> QED BY <1>2, <1>4, <2>1 DEF Sound
<1>7. Written(p, t, k)
  BY <1>1, <1>2 DEF Written
<1>8. Follows(p, t, k)
  BY <1>1, <1>2 DEF Follows, Empty
<1>9. AtWb(p, t, k)
  BY <1>2, <1>4, <1>6, <1>7, <1>8 DEF AtWb, Young
<1>10. AtCycle(p, t, k)
  BY <1>2, <1>9 DEF AtCycle
<1>11. Exact(p, i, t)
  BY <1>2 DEF Exact
<1>12. ~ Pending(t)
  BY <1>2 DEF Pending
<1> QED BY <1>1, <1>2, <1>3, <1>10, <1>11, <1>12 DEF Ends, Slow

LEMMA GeneralFacts == GeneralVector \in Vectors /\ RefillVector \in Vectors
BY DEF Vectors

\* SYSCALL and an unusable coprocessor, in EX.
LEMMA ExRaises ==
  ASSUME NEW p \in VrPrograms, NEW i \in IsaStates, NEW s \in Machines, AtEx(p, s, i), Valid(s.rfex),
         OpOf(p, i) \in {"syscall", "fpu"},
         NEW u \in Machines, u.exdc.pc = s.rfex.pc, u.exdc.bd = s.rfex.bd,
         u.rfex = s.rfex, u.dcwb = s.dcwb, Going(s, u), u.lo = s.lo,
         NEW fault \in Texts \ {"NONE"}, NEW code \in {"Sys", "CpU"}
  PROVE  LET t == Exception(vr4300_ex_fault(u, fault), u.exdc, code, GeneralVector) IN
         Ends(p, i, t) /\ ~ Pending(t) /\ t.stop /\ t.dcwb = s.dcwb /\ t.commit = s.commit
<1> DEFINE v == vr4300_ex_fault(u, fault)
           t == Exception(v, u.exdc, code, GeneralVector)
           k == IsaException(i, code, GeneralVector)
<1>1. /\ s.rfex.pc = i.pc /\ ~ s.rfex.kill
      /\ s.rfex.bd = i.slot
      /\ s.mem = i.mem /\ ~ s.cp0.erl
      /\ s.lo = i.lo \/ Redoes(p, i, s.cp0.exl)
      /\ s.cp0.exl \in BOOLEAN /\ Placed(p, i, s.cp0.exl)
      /\ i.inorder /\ i.precise
  BY ExFinds
<1>2. ~ s.cp0.exl
  BY <1>1, OpOfFacts
<1>3. s.lo = i.lo
  <2>1. OpOf(p, i) \notin Branches \cup Multiplications \cup {"handle", "eret"}
    BY DEF Branches
  <2> QED BY <1>1, <2>1, RedoesKinds
<1>4. code \in Codes \ {"none", "ERET"} /\ code \in Texts
  BY TextFacts DEF Codes
<1>5. /\ v \in Machines
      /\ v.icrf.fault = fault /\ v.rfex.fault = fault /\ v.exdc.fault = fault
      /\ v.rfex.kill = u.rfex.kill
      /\ v.dcwb = u.dcwb /\ Going(u, v) /\ v.lo = u.lo
  BY ExMarkFields
<1> HIDE DEF v
<1>6. /\ v.regs = s.regs /\ v.mem = s.mem /\ v.pend = s.pend /\ v.commit = s.commit
      /\ v.cp0 = s.cp0 /\ v.lo = s.lo /\ v.dcwb = s.dcwb /\ v.rfex.kill = s.rfex.kill
  BY <1>5 DEF Going
<1>7. u.exdc.pc \in Int /\ u.exdc.bd \in BOOLEAN
  BY DEF Machines, Execute
<1>8. /\ t \in Machines
      /\ t.cp0.exl /\ t.cp0.erl = v.cp0.erl /\ t.cp0.epc = ExceptionPc(u.exdc)
      /\ t.cp0.bd = u.exdc.bd /\ t.cp0.code = code
      /\ t.type = "wb" /\ t.history = 0 /\ t.fault_present
      /\ t.icrf.next = GeneralVector /\ t.icrf.fault = v.icrf.fault
      /\ t.raised = code /\ t.vector = GeneralVector /\ t.stop
      /\ t.rfex = v.rfex /\ t.exdc = v.exdc /\ t.dcwb = v.dcwb
      /\ Kept(v, t) /\ t.lo = v.lo
  BY <1>2, <1>4, <1>5, <1>6, <1>7, GeneralFacts, ExceptionFields
<1> HIDE DEF t
<1>9. /\ k.epc = (IF i.slot THEN i.pc - 1 ELSE i.pc) /\ k.bd = i.slot /\ k.code = code
  BY <1>4, GeneralFacts, VectorFacts, IsaExceptionTyped
<1>10. Placed(p, k, TRUE)
  <2>1. OpOf(p, i) \notin Branches
    BY DEF Branches
  <2>2. s.cp0.exl = FALSE
    BY <1>1, <1>2
  <2> QED BY <1>1, <1>4, <2>1, <2>2, GeneralFacts, ExceptionPlaced
<1>11. t.cp0.epc = k.epc /\ t.cp0.bd = k.bd /\ t.cp0.code = k.code
  BY <1>1, <1>8, <1>9 DEF ExceptionPc
<1>12. Held(p, s, i) /\ t.regs = s.regs /\ t.dcwb = s.dcwb
  BY <1>6, <1>8 DEF AtEx, Kept
<1>13. t.dcwb.dest # CYCLE_TYPE
  <2>1. ~ Waits(p, i, s.cp0.exl)
    BY <1>1, WaitsNop
  <2> QED BY <1>12, <2>1 DEF Held
<1>14. \A n \in 1 .. 2 : i.regs[n] = IF Valid(t.dcwb) THEN Drained(t.dcwb, t.regs, n) ELSE t.regs[n]
  BY <1>12 DEF Held, Drained
<1>15. k = IsaException(i, t.raised, t.vector)
  BY <1>8
<1> HIDE DEF k
<1>16. t.mem = i.mem /\ t.lo = i.lo /\ ~ t.cp0.erl /\ ~ t.rfex.kill /\ t.commit = s.commit
  BY <1>1, <1>3, <1>6, <1>8 DEF Kept
<1>17. ~ Valid(t.icrf) /\ ~ Valid(t.rfex) /\ ~ Valid(t.exdc)
  BY <1>5, <1>8 DEF Valid
<1>18. Raised(p, i, t)
  BY <1>4, <1>8, <1>1, <1>10, <1>11, <1>13, <1>14, <1>15, <1>16, <1>17, GeneralFacts DEF Raised
<1> QED BY <1>8, <1>12, <1>16, <1>18, RaisedEnds DEF t, v

\* The load interlock: EX starts again with the same instruction.
LEMMA LoadDelayHolds ==
  ASSUME NEW p \in VrPrograms, NEW i \in IsaStates, NEW s \in Machines, AtEx(p, s, i), Valid(s.rfex),
         s.raised = "none", s.exdc.request = "read", s.exdc.dest # 0
  PROVE  LET t == LoadDelay(LatchEx(s)) IN
         /\ Ends(p, i, t) /\ Sooner(s, RankEx(s), t)
         /\ t.stop /\ t.dcwb = s.dcwb /\ t.commit = s.commit
<1> DEFINE t == LoadDelay(LatchEx(s))
<1>1. /\ t \in Machines
      /\ t.exdc.request = "none" /\ t.icrf = s.icrf /\ t.rfex = s.rfex /\ t.dcwb = s.dcwb
      /\ Going(s, t) /\ t.lo = s.lo /\ t.type = "ex" /\ t.stop
  BY LoadDelayFields
<1> HIDE DEF t
<1>2. /\ t.regs = s.regs /\ t.mem = s.mem /\ t.commit = s.commit
      /\ t.cp0 = s.cp0 /\ t.history = s.history /\ t.fault_present = s.fault_present
      /\ t.raised = "none"
  BY <1>1 DEF Going
<1>3. AtEx(p, t, i)
  <2>1. Agree(p, t, i, i) /\ Held(p, t, i)
    BY <1>1, <1>2 DEF AtEx, Agree, Held
  <2>2. Follows(p, t, i)
    BY <1>1 DEF AtEx, Follows, Decoded, Fetched, Empty
  <2>3. Young(t, t.icrf, 1) /\ Young(t, t.rfex, 2) /\ Young(t, t.dcwb, 3)
    BY <1>1, <1>2 DEF AtEx, Young
  <2> QED BY <2>1, <2>2, <2>3 DEF AtEx
<1>4. AfterOf(i, t) = i
  BY <1>2 DEF AfterOf
<1>5. AtCycle(p, t, i)
  BY <1>1, <1>3 DEF AtCycle
<1>6. Ends(p, i, t)
  BY <1>1, <1>2, <1>4, <1>5 DEF Ends, Slow, Exact
<1>7. Rank(t) < RankEx(s)
  BY <1>1 DEF Rank, RankEx
<1> QED BY <1>1, <1>2, <1>6, <1>7 DEF Sooner, t

\* ERET leaves a pipeline that starts again at EPC.
LEMMA EretHolds ==
  ASSUME NEW p \in VrPrograms, NEW i \in IsaStates, NEW s \in Machines, AtEx(p, s, i), Valid(s.rfex),
         OpOf(p, i) = "eret",
         NEW u \in Machines, u.exdc.pc = s.rfex.pc, u.exdc.dest = 0,
         u.icrf = s.icrf, u.rfex = s.rfex, u.dcwb = s.dcwb, Going(s, u), u.lo = s.lo
  PROVE  LET t == VR4300_ERET(u) IN
         /\ Ends(p, i, t) /\ ~ Pending(s)
         /\ t.stop /\ t.dcwb = s.dcwb /\ t.commit = s.commit
<1> DEFINE t == VR4300_ERET(u)
           k == IsaReturn(i)
<1>1. /\ s.rfex.op = "eret" /\ s.rfex.pc = i.pc /\ ~ s.rfex.kill
      /\ s.mem = i.mem
      /\ s.cp0.epc = i.epc /\ s.cp0.bd = i.bd /\ s.cp0.code = i.code /\ ~ s.cp0.erl
      /\ s.lo = i.lo \/ Redoes(p, i, s.cp0.exl)
      /\ s.cp0.exl \in BOOLEAN /\ Placed(p, i, s.cp0.exl)
      /\ i.inorder /\ i.precise
  BY ExFinds
<1>2. s.cp0.exl = TRUE
  BY <1>1, OpOfFacts
<1>3. /\ u.regs = s.regs /\ u.mem = s.mem /\ u.commit = s.commit /\ u.cp0 = s.cp0
  BY DEF Going
<1>4. /\ t \in Machines
      /\ t.icrf.next = u.cp0.epc /\ t.icrf.fault = u.icrf.fault
      /\ ~ t.cp0.exl /\ ~ t.cp0.erl /\ t.cp0.epc = u.cp0.epc /\ t.cp0.bd = u.cp0.bd
      /\ t.cp0.code = u.cp0.code
      /\ t.exdc.fault = "ERET" /\ t.exdc.dest = u.exdc.dest /\ t.exdc.pc = u.exdc.pc
      /\ t.rfex.fault = "ERET" /\ t.rfex.op = u.rfex.op /\ t.rfex.kill = u.rfex.kill
      /\ t.dcwb = u.dcwb /\ t.lo = u.lo
      /\ t.type = "ic" /\ t.history = 0 /\ t.fault_present /\ t.raised = "ERET" /\ t.stop
      /\ Kept(u, t)
  BY <1>1, <1>3, EretFields
<1> HIDE DEF t
<1>5. /\ k \in IsaStates /\ k.pc = i.epc /\ Plain(k)
      /\ k.epc = i.epc /\ k.bd = i.bd /\ k.code = i.code
      /\ k.regs = i.regs /\ k.mem = i.mem /\ k.lo = i.lo
      /\ k.inorder = i.inorder /\ k.precise = i.precise
  BY IsaReturnTyped
<1>6. Placed(p, k, FALSE) /\ (Redoes(p, i, TRUE) => Redoes(p, k, FALSE))
  BY <1>1, <1>2, ReturnPlaced
<1>7. AfterOf(i, t) = k
  BY <1>4 DEF AfterOf
<1> HIDE DEF k
<1>8. ~ Valid(t.exdc) /\ ~ Valid(t.rfex) /\ Ahead(p, t, k) = k
  BY <1>4 DEF Valid, Ahead
<1>9. t.cp0.exl = FALSE
  BY <1>4 DEF Machines, Control
<1>10. t.regs = s.regs /\ t.mem = s.mem /\ t.commit = s.commit /\ t.lo = s.lo /\ t.dcwb = s.dcwb
  BY <1>3, <1>4 DEF Kept
<1>11. Sound(p, t, k)
  <2>1. t.lo = k.lo \/ Redoes(p, k, FALSE)
    BY <1>1, <1>2, <1>5, <1>6, <1>10
  <2>2. t.mem = k.mem /\ t.cp0.epc = k.epc /\ t.cp0.bd = k.bd /\ t.cp0.code = k.code /\ ~ t.cp0.erl
    BY <1>1, <1>3, <1>4, <1>5, <1>10
  <2>3. Agree(p, t, k, k)
    BY <1>1, <1>5, <1>6, <1>9, <2>1, <2>2 DEF Agree
  <2> QED BY <1>8, <2>3 DEF Sound
<1>12. Held(p, t, k)
  <2>1. Held(p, s, i) /\ ~ Waits(p, i, s.cp0.exl)
    BY <1>2 DEF AtEx, Waits
  <2> QED BY <1>5, <1>10, <2>1 DEF Held
<1>13. AtIc(p, t, k)
  <2>1. t.rfex.kill = k.void
    <3>1. t.rfex.kill \in BOOLEAN /\ k.void \in BOOLEAN
      BY <1>4, <1>5 DEF Machines, Decode, IsaStates
    <3> QED BY <1>1, <1>4, <1>5, <3>1 DEF Plain
  <2>2. t.rfex.op \notin Branches
    BY <1>1, <1>4 DEF Branches
  <2>3. t.icrf.next = k.pc
    BY <1>1, <1>3, <1>4, <1>5
  <2>4. Young(t, t.rfex, 1) /\ Young(t, t.exdc, 2) /\ Young(t, t.dcwb, 3)
    BY <1>4 DEF Young
  <2>5. t.exdc.dest = 0
    BY <1>4
  <2> QED BY <1>5, <1>8, <1>11, <1>12, <2>1, <2>2, <2>3, <2>4, <2>5 DEF AtIc
<1>14. AtCycle(p, t, k)
  BY <1>4, <1>13 DEF AtCycle
<1>15. Exact(p, i, t)
  BY <1>1, <1>4 DEF Exact
<1>16. Ends(p, i, t)
  BY <1>4, <1>5, <1>7, <1>14, <1>15 DEF Ends, Slow
<1>17. ~ Pending(s)
  BY <1>2 DEF Pending
<1> QED BY <1>4, <1>10, <1>16, <1>17 DEF t

\* EX, whatever it finds.
LEMMA ExHolds ==
  ASSUME NEW p \in VrPrograms, NEW i \in IsaStates, NEW s \in Machines, AtEx(p, s, i), Valid(s.rfex),
         s.raised = "none", ~ s.stop
  PROVE  LET t == vr4300_ex_stage(s) IN
         /\ t.dcwb = s.dcwb /\ t.commit = s.commit
         /\ \/ t.stop /\ Ends(p, i, t) /\ Sooner(s, RankEx(s), t)
            \/ /\ Passes(s, t) /\ AtRf(p, t, i) /\ Valid(t.exdc) /\ Valid(t.icrf)
               /\ RankRf(t) <= RankEx(s)
<1> DEFINE op == OpOf(p, i)
           j == IsaExecute(i, op)
           u == LatchEx(s)
           r1 == VrForwarded(s, 1)
           r2 == VrForwarded(s, 2)
           d == Done(u, op, r1, r2)
           t == vr4300_ex_stage(s)
<1>1. /\ s.rfex.op = op /\ s.rfex.pc = i.pc /\ ~ s.rfex.kill
      /\ Valid(s.icrf) /\ s.icrf.pc = i.next /\ s.icrf.next = i.next + 1
      /\ r1 = i.regs[1] /\ r2 = i.regs[2]
      /\ s.cp0.epc = i.epc /\ s.cp0.bd = i.bd /\ s.cp0.code = i.code
      /\ s.cp0.exl \in BOOLEAN /\ Placed(p, i, s.cp0.exl)
  BY ExFinds
<1>2. op \in Texts /\ op \notin {"trap", "bad"}
  <2>1. CASE s.cp0.exl
    BY <1>1, <2>1, OpOfFacts, TextFacts
  <2>2. CASE ~ s.cp0.exl
    <3>1. op \in Opcodes
      BY <1>1, <2>2, OpOfFacts
    <3> QED BY <3>1, TextFacts DEF Opcodes
  <2> QED BY <2>1, <2>2
<1>3. r1 \in Data /\ r2 \in Data
  BY ForwardedTyped
<1>4. /\ u \in Machines
      /\ u.exdc.pc = s.rfex.pc /\ u.exdc.fault = s.rfex.fault /\ u.exdc.bd = s.rfex.bd
      /\ u.icrf = s.icrf /\ u.rfex = s.rfex /\ u.dcwb = s.dcwb
      /\ Going(s, u) /\ u.lo = s.lo /\ u.type = s.type /\ u.stop = s.stop
  BY LatchExFields
<1>5. /\ op = "fpu" => t = VR4300_CPU(u)
      /\ op # "fpu" /\ s.exdc.request = "read" /\ VrNeeds(op, s.exdc.dest) => t = LoadDelay(u)
      /\ op \notin {"fpu", "trap", "bad"} /\ ~ (s.exdc.request = "read" /\ VrNeeds(op, s.exdc.dest)) =>
           /\ op = "syscall" => t = VR4300_SYSC(d)
           /\ op = "eret" => t = VR4300_ERET(d)
           /\ op = "handle" => t = HANDLE(d)
           /\ op = "mult" => t = [d EXCEPT !.lo = VrProduct(r1, r2)]
           /\ op = "dmult" => t = Stall([d EXCEPT !.lo = VrProduct(r1, r2)], "rf")
           /\ op \in Branches => t = Branch(d, op, r1, r2)
           /\ op \notin {"syscall", "eret", "handle"} \cup Multiplications \cup Branches => t = d
  BY <1>1, ExStage
<1>6. /\ d \in Machines
      /\ d.exdc.pc = u.exdc.pc /\ d.exdc.fault = u.exdc.fault /\ d.exdc.bd = u.exdc.bd
      /\ d.exdc.op = op
      /\ d.exdc.dest = (IF op = "spin" THEN CYCLE_TYPE ELSE VrDest(op))
      /\ d.exdc.result = VrResult(op, u.rfex.pc, r1, r2, u.lo)
      /\ d.exdc.request = RequestOf(op) /\ d.exdc.data = r1
      /\ d.icrf = u.icrf /\ d.rfex = u.rfex /\ d.dcwb = u.dcwb
      /\ Going(u, d) /\ d.lo = u.lo /\ d.type = u.type /\ d.stop = u.stop
  BY <1>2, <1>3, <1>4, DoneFields
<1>7. /\ j.next = (IF VrTaken(op, i.regs[1], i.regs[2]) THEN VrTarget(op, i.pc) ELSE i.next + 1)
      /\ j.void = (op = "beql" /\ ~ VrTaken(op, i.regs[1], i.regs[2]))
      /\ j.epc = (IF op = "handle" /\ i.code \in SteppedOver /\ ~ i.bd THEN i.epc + 1 ELSE i.epc)
  BY IsaExecuteTyped
<1> HIDE DEF u, d, t, r1, r2, j
<1>8. Going(s, d) /\ d.lo = s.lo /\ d.dcwb = s.dcwb /\ d.icrf = s.icrf /\ d.rfex = s.rfex
      /\ d.type = s.type /\ d.stop = s.stop
  BY <1>4, <1>6 DEF Going
<1>9. op \notin Branches => ~ VrTaken(op, i.regs[1], i.regs[2]) /\ op # "beql"
  BY DEF VrTaken, Branches
\* What all instructions that go on have in common.
<1>10. ASSUME op \notin {"eret", "syscall", "fpu"}, NEW x \in Machines,
              x.exdc = d.exdc, x.dcwb = d.dcwb, x.regs = d.regs, x.mem = d.mem,
              x.history = d.history, x.fault_present = d.fault_present,
              x.icrf.pc = d.icrf.pc, x.icrf.fault = d.icrf.fault, x.icrf.bd = d.icrf.bd,
              x.cp0.exl = d.cp0.exl, x.cp0.erl = d.cp0.erl, x.cp0.bd = d.cp0.bd,
              x.cp0.code = d.cp0.code, x.cp0.epc = j.epc,
              x.lo = (IF op \in Multiplications THEN VrProduct(r1, r2) ELSE d.lo),
              x.icrf.next = j.next, x.rfex.kill = j.void
       PROVE  AtRf(p, x, i) /\ Valid(x.exdc) /\ Valid(x.icrf) /\ RankRf(x) < RankEx(s)
  <2>1. /\ d.regs = s.regs /\ d.mem = s.mem /\ d.cp0 = s.cp0 /\ d.history = s.history
        /\ d.fault_present = s.fault_present
    BY <1>8 DEF Going
  <2>2. ExecutedAs(p, s, i, x)
    BY <1>4, <1>6, <1>8, <1>10, <2>1 DEF ExecutedAs, r1, r2, j
  <2>3. AtRf(p, x, i) /\ Valid(x.exdc) /\ Valid(x.icrf)
    BY <1>10, <2>2, ExecutedHolds
  <2> QED BY <2>3 DEF RankRf, RankEx
<1>11. CASE op = "fpu"
  <2>1. PICK fault \in Texts \ {"NONE"} : fault = "CPU"
    BY TextFacts
  <2>2. PICK code \in {"Sys", "CpU"} : code = "CpU"
    OBVIOUS
  <2>3. t = Exception(vr4300_ex_fault(u, fault), u.exdc, code, GeneralVector)
    BY <1>5, <1>11, <2>1, <2>2 DEF VR4300_CPU
  <2>4. Ends(p, i, t) /\ ~ Pending(t) /\ t.stop /\ t.dcwb = s.dcwb /\ t.commit = s.commit
    BY <1>4, <1>11, <2>3, ExRaises
  <2> QED BY <2>4 DEF Sooner, t
<1>12. CASE op # "fpu" /\ s.exdc.request = "read" /\ VrNeeds(op, s.exdc.dest)
  <2>1. s.exdc.dest # 0
    BY <1>12 DEF VrNeeds
  <2>2. t = LoadDelay(LatchEx(s))
    BY <1>5, <1>12 DEF u
  <2>3. Ends(p, i, t) /\ Sooner(s, RankEx(s), t) /\ t.stop /\ t.dcwb = s.dcwb /\ t.commit = s.commit
    BY <1>12, <2>1, <2>2, LoadDelayHolds
  <2> QED BY <2>3 DEF t
<1>13. CASE op # "fpu" /\ ~ (s.exdc.request = "read" /\ VrNeeds(op, s.exdc.dest))
  <2>0. /\ op = "syscall" => t = VR4300_SYSC(d)
        /\ op = "eret" => t = VR4300_ERET(d)
        /\ op = "handle" => t = HANDLE(d)
        /\ op = "mult" => t = [d EXCEPT !.lo = VrProduct(r1, r2)]
        /\ op = "dmult" => t = Stall([d EXCEPT !.lo = VrProduct(r1, r2)], "rf")
        /\ op \in Branches => t = Branch(d, op, r1, r2)
        /\ op \notin {"syscall", "eret", "handle"} \cup Multiplications \cup Branches => t = d
    BY <1>2, <1>5, <1>13
  <2>1. CASE op = "syscall"
    <3>1. PICK fault \in Texts \ {"NONE"} : fault = "SYSC"
      BY TextFacts
    <3>2. PICK code \in {"Sys", "CpU"} : code = "Sys"
      OBVIOUS
    <3>3. t = Exception(vr4300_ex_fault(d, fault), d.exdc, code, GeneralVector)
      BY <2>0, <2>1, <3>1, <3>2 DEF VR4300_SYSC
    <3>4. Ends(p, i, t) /\ ~ Pending(t) /\ t.stop /\ t.dcwb = s.dcwb /\ t.commit = s.commit
      BY <1>4, <1>6, <1>8, <2>1, <3>3, ExRaises
    <3> QED BY <3>4 DEF Sooner, t
  <2>2. CASE op = "eret"
    <3>1. d.exdc.dest = 0
      BY <1>6, <2>2, OpcodeKinds
    <3>2. Ends(p, i, t) /\ ~ Pending(s) /\ t.stop /\ t.dcwb = s.dcwb /\ t.commit = s.commit
      BY <1>4, <1>6, <1>8, <2>0, <2>2, <3>1, EretHolds
    <3> QED BY <3>2 DEF Sooner, t
  <2>3. CASE op = "handle"
    <3>1. /\ t \in Machines
          /\ t.cp0.exl = d.cp0.exl /\ t.cp0.erl = d.cp0.erl /\ t.cp0.bd = d.cp0.bd
          /\ t.cp0.code = d.cp0.code
          /\ t.cp0.epc = (IF d.cp0.code \in SteppedOver /\ ~ d.cp0.bd THEN d.cp0.epc + 1 ELSE d.cp0.epc)
          /\ t.pend => d.pend
          /\ t.icrf = d.icrf /\ t.rfex = d.rfex /\ t.exdc = d.exdc /\ t.dcwb = d.dcwb
          /\ t.regs = d.regs /\ t.mem = d.mem /\ t.lo = d.lo
          /\ t.type = d.type /\ t.history = d.history /\ t.fault_present = d.fault_present
          /\ t.commit = d.commit /\ t.raised = d.raised /\ t.stop = d.stop
      BY <1>6, <2>0, <2>3, HandleFields
    <3>2. op \notin Branches
      BY <2>3 DEF Branches
    <3>3. d.cp0 = s.cp0 /\ d.pend = s.pend /\ d.commit = s.commit /\ d.raised = s.raised
      BY <1>8 DEF Going
    <3>4. t.cp0.epc = j.epc
      BY <1>1, <1>7, <2>3, <3>1, <3>3
    <3>5. t.icrf.next = j.next
      BY <1>1, <1>7, <1>8, <1>9, <3>1, <3>2
    <3>6. t.rfex.kill = j.void
      <4>1. s.rfex.kill = FALSE
        BY <1>1 DEF Machines, Decode
      <4> QED BY <1>7, <1>8, <1>9, <3>1, <3>2, <4>1
    <3>7. AtRf(p, t, i) /\ Valid(t.exdc) /\ Valid(t.icrf) /\ RankRf(t) < RankEx(s)
      BY <1>10, <2>3, <3>1, <3>4, <3>5, <3>6
    <3>8. Pending(t) => Pending(s)
      BY <3>1, <3>3 DEF Pending
    <3>9. Passes(s, t) /\ t.dcwb = s.dcwb /\ t.commit = s.commit
      BY <1>8, <3>1, <3>3, <3>8 DEF Passes
    <3>10. RankRf(t) <= RankEx(s)
      BY <3>7 DEF RankRf, RankEx
    <3> QED BY <3>7, <3>9, <3>10 DEF t
  <2>4. CASE op = "dmult"
    <3>1. VrProduct(r1, r2) \in Data
      BY <1>3, OpcodeFacts
    <3>2. /\ t \in Machines /\ t.lo = VrProduct(r1, r2)
          /\ t.icrf = d.icrf /\ t.rfex = d.rfex /\ t.exdc = d.exdc /\ t.dcwb = d.dcwb
          /\ Going(d, t) /\ t.type = "rf" /\ t.stop
      BY <1>6, <2>0, <2>4, <3>1, DmultFields
    <3>3. op \notin Branches
      BY <2>4 DEF Branches
    <3>4. /\ d.cp0 = s.cp0 /\ d.commit = s.commit /\ d.raised = s.raised
          /\ t.cp0 = d.cp0 /\ t.commit = d.commit /\ t.raised = d.raised
          /\ t.regs = d.regs /\ t.mem = d.mem /\ t.history = d.history
          /\ t.fault_present = d.fault_present
      BY <1>8, <3>2 DEF Going
    <3>5. t.cp0.epc = j.epc
      BY <1>1, <1>7, <2>4, <3>4
    <3>6. t.icrf.next = j.next
      BY <1>1, <1>7, <1>8, <1>9, <3>2, <3>3
    <3>7. t.rfex.kill = j.void
      <4>1. s.rfex.kill = FALSE
        BY <1>1 DEF Machines, Decode
      <4> QED BY <1>7, <1>8, <1>9, <3>2, <3>3, <4>1
    <3>8. AtRf(p, t, i) /\ Valid(t.exdc) /\ Valid(t.icrf) /\ RankRf(t) < RankEx(s)
      BY <1>10, <2>4, <3>2, <3>4, <3>5, <3>6, <3>7
    <3>9. AtCycle(p, t, i) /\ Rank(t) = RankRf(t)
      BY <3>2, <3>8 DEF AtCycle, Rank
    <3>10. Ends(p, i, t)
      BY <3>2, <3>4, <3>9 DEF Ends, Slow, Exact, AfterOf
    <3> QED BY <1>8, <3>2, <3>4, <3>8, <3>9, <3>10 DEF Sooner, t
  <2>5. CASE op \in Branches
    <3>1. /\ t \in Machines
          /\ t.icrf.next = (IF VrTaken(op, r1, r2) THEN VrTarget(op, d.rfex.pc) ELSE d.icrf.next)
          /\ t.icrf.pc = d.icrf.pc /\ t.icrf.fault = d.icrf.fault /\ t.icrf.bd = d.icrf.bd
          /\ t.rfex.kill = (op = "beql" /\ ~ VrTaken(op, r1, r2))
          /\ t.exdc = d.exdc /\ t.dcwb = d.dcwb
          /\ Going(d, t) /\ t.lo = d.lo /\ t.type = d.type /\ t.stop = d.stop
      BY <1>3, <1>6, <2>0, <2>5, BranchFields
    <3>2. op \notin {"mult", "dmult", "handle", "eret", "syscall", "fpu"}
      BY <2>5 DEF Branches
    <3>4. /\ d.cp0 = s.cp0 /\ d.commit = s.commit /\ d.raised = s.raised /\ d.pend = s.pend
          /\ t.cp0 = d.cp0 /\ t.commit = d.commit /\ t.raised = d.raised /\ t.pend = d.pend
          /\ t.regs = d.regs /\ t.mem = d.mem /\ t.history = d.history
          /\ t.fault_present = d.fault_present
      BY <1>8, <3>1 DEF Going
    <3>5. t.cp0.epc = j.epc
      BY <1>1, <1>7, <3>2, <3>4
    <3>6. t.icrf.next = j.next /\ t.rfex.kill = j.void
      BY <1>1, <1>7, <1>8, <3>1
    <3>7. AtRf(p, t, i) /\ Valid(t.exdc) /\ Valid(t.icrf) /\ RankRf(t) < RankEx(s)
      BY <1>10, <3>1, <3>2, <3>4, <3>5, <3>6
    <3>8. Pending(t) = Pending(s)
      BY <3>4 DEF Pending
    <3>9. Passes(s, t) /\ t.dcwb = s.dcwb /\ t.commit = s.commit
      BY <1>8, <3>1, <3>4, <3>8 DEF Passes
    <3>10. RankRf(t) <= RankEx(s)
      BY <3>7 DEF RankRf, RankEx
    <3> QED BY <3>7, <3>9, <3>10 DEF t
  <2>6. CASE op \notin {"syscall", "eret", "handle"} \cup Multiplications \cup Branches
    <3>1. t = d /\ op \notin Branches
      BY <2>0, <2>6
    <3>4. d.cp0 = s.cp0 /\ d.commit = s.commit /\ d.raised = s.raised /\ d.pend = s.pend
      BY <1>8 DEF Going
    <3>5. d.cp0.epc = j.epc
      BY <1>1, <1>7, <2>6, <3>4
    <3>6. d.icrf.next = j.next
      BY <1>1, <1>7, <1>8, <1>9, <3>1
    <3>7. d.rfex.kill = j.void
      <4>1. s.rfex.kill = FALSE
        BY <1>1 DEF Machines, Decode
      <4> QED BY <1>7, <1>8, <1>9, <3>1, <4>1
    <3>8. AtRf(p, d, i) /\ Valid(d.exdc) /\ Valid(d.icrf) /\ RankRf(d) < RankEx(s)
      BY <1>6, <1>10, <1>13, <2>6, <3>5, <3>6, <3>7
    <3>9. Pending(d) = Pending(s)
      BY <3>4 DEF Pending
    <3>10. Passes(s, d) /\ d.dcwb = s.dcwb /\ d.commit = s.commit
      BY <1>6, <1>8, <3>4, <3>9 DEF Passes
    <3>11. RankRf(d) <= RankEx(s)
      BY <3>8 DEF RankRf, RankEx
    <3> QED BY <3>1, <3>8, <3>10, <3>11 DEF t
  <2>7. CASE op = "mult"
    <3>1. VrProduct(r1, r2) \in Data
      BY <1>3, OpcodeFacts
    <3>2. /\ t \in Machines /\ t.lo = VrProduct(r1, r2)
          /\ t.icrf = d.icrf /\ t.rfex = d.rfex /\ t.exdc = d.exdc /\ t.dcwb = d.dcwb
          /\ Going(d, t) /\ t.type = d.type /\ t.stop = d.stop
      <4>1. d \in Machines /\ t = [d EXCEPT !.lo = VrProduct(r1, r2)]
        BY <1>6, <2>0, <2>7
      <4> QED BY <3>1, <4>1, MultFields
    <3>3. op \notin Branches
      BY <2>7 DEF Branches
    <3>4. /\ d.cp0 = s.cp0 /\ d.commit = s.commit /\ d.raised = s.raised /\ d.pend = s.pend
          /\ t.cp0 = d.cp0 /\ t.commit = d.commit /\ t.raised = d.raised /\ t.pend = d.pend
          /\ t.regs = d.regs /\ t.mem = d.mem /\ t.history = d.history
          /\ t.fault_present = d.fault_present
      BY <1>8, <3>2 DEF Going
    <3>5. t.cp0.epc = j.epc
      BY <1>1, <1>7, <2>7, <3>4
    <3>6. t.icrf.next = j.next
      BY <1>1, <1>7, <1>8, <1>9, <3>2, <3>3
    <3>7. t.rfex.kill = j.void
      <4>1. s.rfex.kill = FALSE
        BY <1>1 DEF Machines, Decode
      <4> QED BY <1>7, <1>8, <1>9, <3>2, <3>3, <4>1
    <3>8. AtRf(p, t, i) /\ Valid(t.exdc) /\ Valid(t.icrf) /\ RankRf(t) < RankEx(s)
      BY <1>10, <2>7, <3>2, <3>4, <3>5, <3>6, <3>7
    <3>9. Pending(t) = Pending(s)
      BY <3>4 DEF Pending
    <3>10. Passes(s, t) /\ t.dcwb = s.dcwb /\ t.commit = s.commit
      BY <1>8, <3>2, <3>4, <3>9 DEF Passes
    <3>11. RankRf(t) <= RankEx(s)
      BY <3>8 DEF RankRf, RankEx
    <3> QED BY <3>8, <3>10, <3>11 DEF t
  <2> QED BY <2>1, <2>2, <2>3, <2>4, <2>5, <2>6, <2>7
<1> QED BY <1>11, <1>12, <1>13

-----------------------------------------------------------------------------
(* The step of DC.                                                         *)

\* What DC finds.
LEMMA DcFinds ==
  ASSUME NEW p \in VrPrograms, NEW i \in IsaStates, NEW s \in Machines, AtDc(p, s, i), Valid(s.exdc)
  PROVE  LET op == OpOf(p, i)
             j == IsaExecute(i, op)
         IN /\ op \notin {"eret", "syscall", "fpu", "lwa"} /\ op \in Texts /\ op # "none"
            /\ s.exdc.pc = i.pc /\ s.exdc.op = op /\ (op # "handle" => s.exdc.bd = i.slot)
            /\ s.exdc.dest = (IF op = "spin" THEN CYCLE_TYPE ELSE VrDest(op))
            /\ s.exdc.request = RequestOf(op)
            /\ s.exdc.result = VrResult(op, i.pc, i.regs[1], i.regs[2], i.lo)
            /\ s.exdc.data = i.regs[1]
            /\ s.regs = i.regs /\ s.mem = i.mem
            /\ s.cp0.epc = j.epc /\ s.cp0.bd = j.bd /\ s.cp0.code = j.code /\ ~ s.cp0.erl
            /\ s.lo = j.lo \/ Redoes(p, i, s.cp0.exl)
            /\ op \in Multiplications => s.lo = j.lo
            /\ s.cp0.exl \in BOOLEAN /\ Placed(p, i, s.cp0.exl)
            /\ i.inorder /\ i.precise
            /\ Follows(p, s, j) /\ Valid(s.rfex) /\ Valid(s.icrf)
<1> DEFINE op == OpOf(p, i)
           j == IsaExecute(i, op)
<1>1. Sound(p, s, i) /\ s.regs = i.regs /\ Follows(p, s, Ahead(p, s, i)) /\ Valid(s.rfex)
  BY DEF AtDc
<1>2. Ahead(p, s, i) = j
  BY DEF Ahead
<1> HIDE DEF j
<1>3. Agree(p, s, i, j) /\ Executes(p, s.exdc, i) /\ (s.exdc.op \in Multiplications => s.lo = j.lo)
  BY <1>1, <1>2 DEF Sound
<1>4. s.cp0.exl \in BOOLEAN
  BY DEF Machines, Control
<1>5. /\ s.mem = i.mem
      /\ s.cp0.epc = j.epc /\ s.cp0.bd = j.bd /\ s.cp0.code = j.code /\ ~ s.cp0.erl
      /\ s.lo = j.lo \/ Redoes(p, i, s.cp0.exl)
      /\ Placed(p, i, s.cp0.exl) /\ i.inorder /\ i.precise
  BY <1>3 DEF Agree
<1>6. /\ op \notin {"eret", "syscall", "fpu"}
      /\ s.exdc.pc = i.pc /\ s.exdc.op = op /\ (op # "handle" => s.exdc.bd = i.slot)
      /\ s.exdc.dest = (IF op = "spin" THEN CYCLE_TYPE ELSE VrDest(op))
      /\ s.exdc.request = RequestOf(op)
      /\ s.exdc.result = VrResult(op, i.pc, i.regs[1], i.regs[2], i.lo)
      /\ s.exdc.data = i.regs[1]
  BY <1>3 DEF Executes
<1>7. op \in Texts /\ op # "none" /\ op # "lwa"
  <2>1. CASE s.cp0.exl
    BY <1>4, <1>5, <2>1, OpOfFacts, TextFacts
  <2>2. CASE ~ s.cp0.exl
    <3>1. op \in Opcodes
      BY <1>4, <1>5, <2>2, OpOfFacts
    <3> QED BY <3>1, TextFacts DEF Opcodes, VrAllOpcodes
  <2> QED BY <2>1, <2>2
<1>8. Valid(s.icrf)
  BY <1>1 DEF Follows, Decoded, Fetched, Empty
<1> QED BY <1>1, <1>2, <1>3, <1>4, <1>5, <1>6, <1>7, <1>8 DEF j

\* The instruction is accepted.
LEMMA DcAccepts ==
  ASSUME NEW p \in VrPrograms, NEW i \in IsaStates, NEW s \in Machines, AtDc(p, s, i), Valid(s.exdc),
         NEW t \in Machines, t.icrf = s.icrf, t.rfex = s.rfex,
         t.dcwb.pc = s.exdc.pc, t.dcwb.fault = s.exdc.fault, t.dcwb.dest = s.exdc.dest,
         t.dcwb.result = (IF s.exdc.request = "read" THEN s.mem ELSE s.exdc.result),
         t.mem = (IF s.exdc.request = "write" THEN s.exdc.data ELSE s.mem),
         t.regs = s.regs, t.lo = s.lo, t.cp0 = s.cp0,
         t.history = s.history, t.fault_present = s.fault_present
  PROVE  LET k == IsaExecute(i, OpOf(p, i)) IN
         k \in IsaStates /\ AtEx(p, t, k) /\ Valid(t.rfex)
<1> DEFINE op == OpOf(p, i)
           k == IsaExecute(i, op)
<1>1. /\ op # "eret"
      /\ s.exdc.dest = (IF op = "spin" THEN CYCLE_TYPE ELSE VrDest(op))
      /\ s.exdc.request = RequestOf(op)
      /\ s.exdc.result = VrResult(op, i.pc, i.regs[1], i.regs[2], i.lo)
      /\ s.exdc.data = i.regs[1]
      /\ s.regs = i.regs /\ s.mem = i.mem
      /\ s.cp0.epc = k.epc /\ s.cp0.bd = k.bd /\ s.cp0.code = k.code /\ ~ s.cp0.erl
      /\ s.lo = k.lo \/ Redoes(p, i, s.cp0.exl)
      /\ op \in Multiplications => s.lo = k.lo
      /\ s.cp0.exl \in BOOLEAN /\ Placed(p, i, s.cp0.exl)
      /\ i.inorder /\ i.precise
      /\ Follows(p, s, k) /\ Valid(s.rfex)
  BY DcFinds
<1>2. /\ k.inorder = i.inorder /\ k.precise = i.precise
      /\ k.mem = (IF op \in VrStores THEN i.regs[1] ELSE i.mem)
      /\ \A n \in 1 .. 2 : k.regs[n] =
           IF VrDest(op) = n
           THEN IF op \in Loads THEN i.mem ELSE VrResult(op, i.pc, i.regs[1], i.regs[2], i.lo)
           ELSE i.regs[n]
  BY IsaExecuteTyped
<1>3. k \in IsaStates /\ Placed(p, k, s.cp0.exl) /\ (op = "spin" => Waits(p, k, s.cp0.exl))
  BY <1>1, ExecutePlaced
<1>4. s.lo = k.lo \/ Redoes(p, k, s.cp0.exl)
  BY <1>1, ExecuteRedoes
<1> HIDE DEF k
<1>5. t.mem = k.mem
  <2>1. s.exdc.request = "write" <=> op \in VrStores
    BY <1>1 DEF RequestOf, VrStores, Loads
  <2> QED BY <1>1, <1>2, <2>1
<1>6. Agree(p, t, k, k)
  BY <1>1, <1>2, <1>3, <1>4, <1>5 DEF Agree
<1>7. Held(p, t, k)
  <2>1. s.exdc.request = "read" <=> op \in Loads
    BY <1>1 DEF RequestOf, VrStores, Loads
  <2>2. op = "spin" => VrDest(op) = 0
    BY OpcodeKinds
  <2>3. \A n \in 1 .. 2 : t.dcwb.dest = n <=> VrDest(op) = n
    BY <1>1, <2>2 DEF CYCLE_TYPE
  <2>4. t.dcwb.result = IF op \in Loads THEN i.mem ELSE VrResult(op, i.pc, i.regs[1], i.regs[2], i.lo)
    BY <1>1, <2>1
  <2>5. \A n \in 1 .. 2 : k.regs[n] = Drained(t.dcwb, t.regs, n)
    <3> HIDE DEF op
    <3> QED BY <1>1, <1>2, <2>3, <2>4 DEF Drained
  <2>6. Valid(t.dcwb)
    BY DEF Valid
  <2>7. t.dcwb.dest = CYCLE_TYPE => op = "spin"
    <3>1. VrDest(op) \in 0 .. 2
      BY DEF VrDest
    <3> QED BY <1>1, <3>1 DEF CYCLE_TYPE
  <2> QED BY <1>3, <2>5, <2>6, <2>7 DEF Held
<1>8. Follows(p, t, k)
  BY <1>1 DEF Follows, Decoded, Fetched, Empty
<1>9. Young(t, t.icrf, 1) /\ Young(t, t.rfex, 2) /\ Young(t, t.dcwb, 3)
  BY DEF AtDc, Young, Valid
<1>10. AtEx(p, t, k)
  BY <1>6, <1>7, <1>8, <1>9 DEF AtEx
<1> QED BY <1>1, <1>3, <1>10 DEF k

\* The instruction is stopped by an exception.
LEMMA DcRaises ==
  ASSUME NEW p \in VrPrograms, NEW i \in IsaStates, NEW s \in Machines, AtDc(p, s, i), Valid(s.exdc),
         ~ s.cp0.exl,
         NEW code \in Codes \ {"none", "ERET"}, NEW vector \in Vectors,
         code = "Int" \/ OpOf(p, i) \in Loads \cup VrStores,
         NEW t \in Machines,
         ~ Valid(t.icrf), ~ Valid(t.rfex), ~ Valid(t.exdc), ~ Valid(t.dcwb),
         t.rfex.kill = s.rfex.kill,
         t.type = "wb", t.history = 0, t.fault_present,
         t.raised = code, t.vector = vector, t.icrf.next = vector,
         t.cp0.exl, t.cp0.erl = s.cp0.erl, t.cp0.epc = ExceptionPc(s.exdc), t.cp0.bd = s.exdc.bd,
         t.cp0.code = code,
         t.mem = s.mem, t.lo = s.lo, t.regs = s.regs
  PROVE  Ends(p, i, t) /\ ~ Pending(t)
<1> DEFINE op == OpOf(p, i)
           j == IsaExecute(i, op)
           k == IsaException(i, code, vector)
<1>1. /\ op # "fpu"
      /\ s.exdc.pc = i.pc /\ (op # "handle" => s.exdc.bd = i.slot)
      /\ s.regs = i.regs /\ s.mem = i.mem /\ ~ s.cp0.erl
      /\ s.lo = j.lo \/ Redoes(p, i, s.cp0.exl)
      /\ op \in Multiplications => s.lo = j.lo
      /\ s.cp0.exl \in BOOLEAN /\ Placed(p, i, s.cp0.exl)
      /\ i.inorder /\ i.precise
      /\ Follows(p, s, j)
  BY DcFinds
<1>2. s.cp0.exl = FALSE
  BY <1>1
<1>3. op # "handle"
  BY <1>1, <1>2, OpOfFacts
<1>4. j.lo = (IF op \in Multiplications THEN VrProduct(i.regs[1], i.regs[2]) ELSE i.lo)
  BY IsaExecuteTyped
<1> HIDE DEF j
<1>5. /\ k.epc = (IF i.slot THEN i.pc - 1 ELSE i.pc) /\ k.bd = i.slot /\ k.code = code
  BY TextFacts, VectorFacts, IsaExceptionTyped
<1>6. Placed(p, k, TRUE)
  <2>1. code \in SteppedOver => op \notin Branches
    BY DEF SteppedOver, Branches, Loads, VrStores
  <2> QED BY <1>1, <1>2, <2>1, TextFacts, ExceptionPlaced
<1>7. s.lo = i.lo \/ Redoes(p, k, TRUE)
  <2>1. CASE code = "Int"
    <3>1. s.lo = i.lo \/ Redoes(p, i, FALSE) \/ op \in Multiplications
      BY <1>1, <1>2, <1>4
    <3>2. Redoes(p, i, FALSE) \/ op \in Multiplications => Redoes(p, k, TRUE)
      BY <1>1, <1>2, <2>1, ExceptionRedoes
    <3> QED BY <3>1, <3>2
  <2>2. CASE op \in Loads \cup VrStores
    <3>1. op \notin Branches \cup Multiplications \cup {"handle", "eret"}
      BY <2>2 DEF Branches, Loads, VrStores
    <3>2. ~ Redoes(p, i, FALSE)
      BY <1>1, <1>2, <3>1, RedoesKinds
    <3> QED BY <1>1, <1>2, <1>4, <3>1, <3>2
  <2> QED BY <2>1, <2>2
<1>8. t.cp0.epc = k.epc /\ t.cp0.bd = k.bd /\ t.cp0.code = k.code
  BY <1>1, <1>3, <1>5 DEF ExceptionPc
<1>9. k = IsaException(i, t.raised, t.vector)
  OBVIOUS
<1>10. ~ s.rfex.kill
  BY <1>1 DEF Follows
<1> HIDE DEF k
<1>11. Raised(p, i, t)
  BY <1>1, <1>6, <1>7, <1>8, <1>9, <1>10 DEF Raised
<1> QED BY <1>11, RaisedEnds

\* The two orders in which the handlers mark the latches.
LEMMA MarkedFirst ==
  ASSUME NEW p \in VrPrograms, NEW i \in IsaStates, NEW s \in Machines, AtDc(p, s, i), Valid(s.exdc),
         ~ s.cp0.exl, OpOf(p, i) \in Loads \cup VrStores,
         NEW u \in Machines, u.icrf = s.icrf, u.rfex = s.rfex, u.exdc = s.exdc,
         Going(s, u), u.lo = s.lo,
         NEW fault \in Texts \ {"NONE"}, NEW code \in Codes \ {"none", "ERET"}, NEW vector \in Vectors
  PROVE  LET t == Exception(vr4300_dc_fault(u, fault), u.exdc, code, vector) IN
         Ends(p, i, t) /\ ~ Pending(t) /\ t.stop /\ t.commit = s.commit
<1> DEFINE v == vr4300_dc_fault(u, fault)
           t == Exception(v, u.exdc, code, vector)
<1>1. /\ v \in Machines
      /\ v.icrf.fault = fault /\ v.rfex.fault = fault /\ v.exdc.fault = fault /\ v.dcwb.fault = fault
      /\ v.rfex.kill = u.rfex.kill /\ Going(u, v) /\ v.lo = u.lo
  BY DcMarkFields
<1> HIDE DEF v
<1>2. v.regs = s.regs /\ v.mem = s.mem /\ v.commit = s.commit /\ v.cp0 = s.cp0
  BY <1>1 DEF Going
<1>3. u.exdc.pc \in Int /\ u.exdc.bd \in BOOLEAN /\ code \in Texts
  BY TextFacts DEF Machines, Execute
<1>4. /\ t \in Machines
      /\ t.cp0.exl /\ t.cp0.erl = v.cp0.erl /\ t.cp0.epc = ExceptionPc(u.exdc)
      /\ t.cp0.bd = u.exdc.bd /\ t.cp0.code = code
      /\ t.type = "wb" /\ t.history = 0 /\ t.fault_present
      /\ t.icrf.next = vector /\ t.icrf.fault = v.icrf.fault
      /\ t.raised = code /\ t.vector = vector /\ t.stop
      /\ t.rfex = v.rfex /\ t.exdc = v.exdc /\ t.dcwb = v.dcwb
      /\ Kept(v, t) /\ t.lo = v.lo
  BY <1>1, <1>2, <1>3, ExceptionFields
<1> HIDE DEF t
<1>5. ~ Valid(t.icrf) /\ ~ Valid(t.rfex) /\ ~ Valid(t.exdc) /\ ~ Valid(t.dcwb)
  BY <1>1, <1>4 DEF Valid
<1>6. t.mem = s.mem /\ t.regs = s.regs /\ t.commit = s.commit /\ t.lo = s.lo
      /\ t.rfex.kill = s.rfex.kill
  BY <1>1, <1>2, <1>4 DEF Kept
<1>7. Ends(p, i, t) /\ ~ Pending(t)
  BY <1>2, <1>4, <1>5, <1>6, DcRaises
<1> QED BY <1>4, <1>6, <1>7 DEF t, v

LEMMA MarkedLast ==
  ASSUME NEW p \in VrPrograms, NEW i \in IsaStates, NEW s \in Machines, AtDc(p, s, i), Valid(s.exdc),
         ~ s.cp0.exl,
         NEW u \in Machines, u.icrf = s.icrf, u.rfex = s.rfex, u.exdc = s.exdc,
         u.dcwb.pc = s.exdc.pc, u.dcwb.bd = s.exdc.bd, Going(s, u), u.lo = s.lo,
         NEW fault \in Texts \ {"NONE"}, NEW code \in Codes \ {"none", "ERET"},
         code = "Int" \/ OpOf(p, i) \in Loads \cup VrStores
  PROVE  LET t == vr4300_dc_fault(Exception(u, u.dcwb, code, GeneralVector), fault) IN
         Ends(p, i, t) /\ ~ Pending(t) /\ t.stop /\ t.commit = s.commit
<1> DEFINE v == Exception(u, u.dcwb, code, GeneralVector)
           t == vr4300_dc_fault(v, fault)
<1>1. u.dcwb.pc \in Int /\ u.dcwb.bd \in BOOLEAN /\ code \in Texts
  BY TextFacts DEF Machines, WriteBack
<1>2. u.cp0 = s.cp0 /\ u.mem = s.mem /\ u.regs = s.regs /\ u.commit = s.commit
  BY DEF Going
<1>3. /\ v \in Machines
      /\ v.cp0.exl /\ v.cp0.erl = u.cp0.erl /\ v.cp0.epc = ExceptionPc(u.dcwb)
      /\ v.cp0.bd = u.dcwb.bd /\ v.cp0.code = code
      /\ v.type = "wb" /\ v.history = 0 /\ v.fault_present
      /\ v.icrf.next = GeneralVector
      /\ v.raised = code /\ v.vector = GeneralVector /\ v.stop
      /\ v.rfex = u.rfex /\ v.exdc = u.exdc /\ v.dcwb = u.dcwb
      /\ Kept(u, v) /\ v.lo = u.lo
  BY <1>1, <1>2, GeneralFacts, ExceptionFields
<1> HIDE DEF v
<1>4. /\ t \in Machines
      /\ t.icrf.fault = fault /\ t.rfex.fault = fault /\ t.exdc.fault = fault /\ t.dcwb.fault = fault
      /\ t.icrf.next = v.icrf.next /\ t.rfex.kill = v.rfex.kill
      /\ Going(v, t) /\ t.lo = v.lo /\ t.type = v.type /\ t.stop = v.stop
  <2>1. v \in Machines
    BY <1>3
  <2> QED BY <2>1, DcMarkFields
<1> HIDE DEF t
<1>5. ~ Valid(t.icrf) /\ ~ Valid(t.rfex) /\ ~ Valid(t.exdc) /\ ~ Valid(t.dcwb)
  BY <1>4 DEF Valid
<1>6. /\ t.mem = s.mem /\ t.regs = s.regs /\ t.commit = s.commit /\ t.lo = s.lo
      /\ t.rfex.kill = s.rfex.kill
      /\ t.cp0 = v.cp0 /\ t.history = v.history /\ t.fault_present = v.fault_present
      /\ t.raised = v.raised /\ t.vector = v.vector
  BY <1>2, <1>3, <1>4 DEF Kept, Going
<1>7. ExceptionPc(u.dcwb) = ExceptionPc(s.exdc)
  BY DEF ExceptionPc
<1>8. Ends(p, i, t) /\ ~ Pending(t)
  <2>1. /\ t.type = "wb" /\ t.history = 0 /\ t.fault_present
        /\ t.raised = code /\ t.vector = GeneralVector /\ t.icrf.next = GeneralVector
        /\ t.cp0.exl /\ t.cp0.erl = s.cp0.erl /\ t.cp0.epc = ExceptionPc(s.exdc)
        /\ t.cp0.bd = s.exdc.bd /\ t.cp0.code = code
    BY <1>2, <1>3, <1>4, <1>6, <1>7
  <2> QED BY <1>4, <1>5, <1>6, <2>1, GeneralFacts, DcRaises
<1> QED BY <1>3, <1>4, <1>6, <1>8 DEF t, v

\* The stage, without the access to an address that is not aligned.
LEMMA DcStage ==
  ASSUME NEW s \in Machines, NEW dmiss
  PROVE  LET u == LatchDc(s)
             t == vr4300_dc_stage(s, dmiss)
         IN /\ Pending(s) => t = VR4300_INTR(u)
            /\ ~ Pending(s) /\ s.exdc.request = "none" => t = Commit(u)
            /\ ~ Pending(s) /\ s.exdc.request # "none" /\ s.exdc.op # "lwa" =>
                 \/ t = VR4300_DTLB(u) /\ u.exdc.op \in Mapped
                 \/ t = VR4300_WAT(u) /\ u.exdc.op = "lww"
                 \/ t = UncachedAccess(u)
                 \/ t = CachedAccess(u, dmiss)
<1> DEFINE u == LatchDc(s)
           t == vr4300_dc_stage(s, dmiss)
<1>1. u.exdc = s.exdc /\ u.pend = s.pend /\ u.cp0 = s.cp0
  BY LatchDcFields DEF Going
<1>2. t = IF Pending(u) THEN VR4300_INTR(u)
          ELSE IF u.exdc.request = "none" THEN Commit(u)
          ELSE IF u.exdc.op = "lwa" THEN VR4300_DADE(u)
          ELSE IF TlbFaults(u) THEN VR4300_DTLB(u)
          ELSE IF u.exdc.op = "lww" THEN VR4300_WAT(u)
          ELSE IF u.exdc.op \in {"lwio", "swio"} THEN UncachedAccess(u)
          ELSE CachedAccess(u, dmiss)
  BY Zenon DEF vr4300_dc_stage
<1> HIDE DEF u, t
<1>3. Pending(u) = Pending(s)
  BY <1>1 DEF Pending
<1>4. TlbFaults(u) => u.exdc.op \in Mapped
  BY DEF TlbFaults
<1>5. Pending(s) => t = VR4300_INTR(u)
  BY <1>2, <1>3
<1>6. ~ Pending(s) /\ s.exdc.request = "none" => t = Commit(u)
  BY <1>1, <1>2, <1>3
<1>7. ~ Pending(s) /\ s.exdc.request # "none" /\ s.exdc.op # "lwa" =>
                 \/ t = VR4300_DTLB(u) /\ u.exdc.op \in Mapped
                 \/ t = VR4300_WAT(u) /\ u.exdc.op = "lww"
                 \/ t = UncachedAccess(u)
                 \/ t = CachedAccess(u, dmiss)
  BY <1>1, <1>2, <1>3, <1>4
<1> QED BY <1>5, <1>6, <1>7 DEF u, t

\* DC, whatever it finds.
LEMMA DcHolds ==
  ASSUME NEW p \in VrPrograms, NEW i \in IsaStates, NEW s \in Machines, AtDc(p, s, i), Valid(s.exdc),
         s.raised = "none", ~ s.stop, s.commit = "none", NEW dmiss \in BOOLEAN
  PROVE  LET t == vr4300_dc_stage(s, dmiss)
             op == OpOf(p, i)
             k == IsaExecute(i, op)
         IN /\ k \in IsaStates /\ ~ Pending(t)
            /\ \/ t.stop /\ t.commit = "none" /\ Ends(p, i, t)
               \/ t.stop /\ t.commit = op /\ t.dcwb.pc = i.pc /\ Ends(p, k, t)
               \/ /\ t.commit = op /\ t.dcwb.pc = i.pc /\ AtEx(p, t, k) /\ Valid(t.rfex)
                  /\ (op # "handle" => t.dcwb.bd = i.slot) /\ t.dcwb.dest = s.exdc.dest
                  /\ t \in Machines /\ ~ t.stop /\ t.raised = "none" /\ t.type = s.type
                  /\ t.cp0.exl = s.cp0.exl
            /\ Pending(s) => t.raised # "none" /\ t.stop
<1> DEFINE op == OpOf(p, i)
           k == IsaExecute(i, op)
           u == LatchDc(s)
           t == vr4300_dc_stage(s, dmiss)
<1>1. /\ op \notin {"eret", "syscall", "fpu", "lwa"} /\ op \in Texts /\ op # "none"
      /\ s.exdc.pc = i.pc /\ s.exdc.op = op /\ (op # "handle" => s.exdc.bd = i.slot)
      /\ s.exdc.request = RequestOf(op)
      /\ s.cp0.exl \in BOOLEAN /\ Placed(p, i, s.cp0.exl)
      /\ Follows(p, s, k) /\ Valid(s.rfex)
  BY DcFinds
<1>2. /\ u \in Machines
      /\ u.dcwb.pc = s.exdc.pc /\ u.dcwb.fault = s.exdc.fault /\ u.dcwb.bd = s.exdc.bd
      /\ u.dcwb.dest = s.exdc.dest /\ u.dcwb.result = s.exdc.result
      /\ u.icrf = s.icrf /\ u.rfex = s.rfex /\ u.exdc = s.exdc
      /\ Going(s, u) /\ u.lo = s.lo /\ u.tlb = s.tlb /\ u.type = s.type /\ u.stop = s.stop
  BY LatchDcFields
<1>3. /\ u.regs = s.regs /\ u.mem = s.mem /\ u.pend = s.pend /\ u.commit = s.commit
      /\ u.cp0 = s.cp0 /\ u.history = s.history /\ u.fault_present = s.fault_present
      /\ u.raised = s.raised
  BY <1>2 DEF Going
<1>4. k \in IsaStates
  BY IsaExecuteTyped
<1>5. /\ Pending(s) => t = VR4300_INTR(u)
      /\ ~ Pending(s) /\ s.exdc.request = "none" => t = Commit(u)
      /\ ~ Pending(s) /\ s.exdc.request # "none" /\ s.exdc.op # "lwa" =>
           \/ t = VR4300_DTLB(u) /\ u.exdc.op \in Mapped
           \/ t = VR4300_WAT(u) /\ u.exdc.op = "lww"
           \/ t = UncachedAccess(u)
           \/ t = CachedAccess(u, dmiss)
  BY DcStage
<1>6. s.exdc.request = "none" \/ op \in Loads \cup VrStores
  BY <1>1 DEF RequestOf
<1>7. op \in Loads \cup VrStores => ~ s.cp0.exl
  <2>1. op \in Loads \cup VrStores => op \notin {"handle", "eret"}
    BY DEF Loads, VrStores
  <2> QED BY <1>1, <2>1, OpOfFacts
<1> HIDE DEF u, t, k
\* Where the instruction has been accepted.
<1>8. ASSUME NEW x \in Machines, Accessing(u, x), x.commit = op,
             x.dcwb.result = (IF s.exdc.request = "read" THEN s.mem ELSE s.exdc.result),
             x.mem = (IF s.exdc.request = "write" THEN s.exdc.data ELSE s.mem)
      PROVE  /\ AtEx(p, x, k) /\ Valid(x.rfex) /\ x.dcwb.pc = i.pc /\ (op # "handle" => x.dcwb.bd = i.slot)
             /\ x.dcwb.dest = s.exdc.dest /\ x.raised = "none" /\ x.cp0 = s.cp0 /\ x.pend = s.pend
  <2>1. /\ x.icrf = s.icrf /\ x.rfex = s.rfex /\ x.dcwb.pc = s.exdc.pc /\ x.dcwb.fault = s.exdc.fault
        /\ x.dcwb.bd = s.exdc.bd /\ x.dcwb.dest = s.exdc.dest
        /\ x.regs = s.regs /\ x.lo = s.lo /\ x.cp0 = s.cp0 /\ x.pend = s.pend
        /\ x.history = s.history /\ x.fault_present = s.fault_present /\ x.raised = s.raised
    BY <1>2, <1>3, <1>8 DEF Accessing
  <2>2. AtEx(p, x, k) /\ Valid(x.rfex)
    BY <1>8, <2>1, DcAccepts DEF k
  <2> QED BY <1>1, <2>1, <2>2
<1>9. CASE Pending(s)
  <2>1. PICK fault \in Texts \ {"NONE"} : fault = "INTR"
    BY TextFacts
  <2>2. PICK code \in Codes \ {"none", "ERET"} : code = "Int"
    BY DEF Codes
  <2>3. ~ s.cp0.exl
    BY <1>9 DEF Pending
  <2>4. t = vr4300_dc_fault(Exception(u, u.dcwb, code, GeneralVector), fault)
    BY <1>5, <1>9, <2>1, <2>2 DEF VR4300_INTR
  <2>5. Ends(p, i, t) /\ ~ Pending(t) /\ t.stop /\ t.commit = s.commit /\ t.raised # "none"
    <3>1. Ends(p, i, t) /\ ~ Pending(t) /\ t.stop /\ t.commit = s.commit
      BY <1>2, <2>2, <2>3, <2>4, MarkedLast
    <3>2. t.raised = code
      <4> DEFINE w == Exception(u, u.dcwb, code, GeneralVector)
      <4>1. u.dcwb.pc \in Int /\ u.dcwb.bd \in BOOLEAN /\ code \in Texts
        BY <1>2, TextFacts DEF Machines, WriteBack
      <4>2. ~ u.cp0.exl
        BY <1>3, <2>3
      <4>3. w \in Machines /\ w.raised = code
        BY <1>2, <4>1, <4>2, GeneralFacts, ExceptionFields
      <4> HIDE DEF w
      <4>4. vr4300_dc_fault(w, fault).raised = w.raised
        BY <4>3, DcMarkFields DEF Going
      <4> QED BY <2>4, <4>3, <4>4 DEF w
    <3> QED BY <2>2, <3>1, <3>2
  <2> QED BY <1>4, <2>5 DEF t, k
<1>10. CASE ~ Pending(s) /\ s.exdc.request = "none"
  <2>1. /\ t \in Machines /\ Accessing(u, t) /\ t.dcwb = u.dcwb /\ t.mem = u.mem
        /\ t.commit = u.exdc.op /\ t.type = u.type /\ t.stop = u.stop
    BY <1>2, <1>5, <1>10, CommitFields
  <2>2. /\ t.commit = op
        /\ t.dcwb.result = (IF s.exdc.request = "read" THEN s.mem ELSE s.exdc.result)
        /\ t.mem = (IF s.exdc.request = "write" THEN s.exdc.data ELSE s.mem)
    BY <1>1, <1>2, <1>3, <1>10, <2>1
  <2>3. /\ AtEx(p, t, k) /\ Valid(t.rfex) /\ t.dcwb.pc = i.pc /\ (op # "handle" => t.dcwb.bd = i.slot)
        /\ t.dcwb.dest = s.exdc.dest /\ t.raised = "none" /\ t.cp0 = s.cp0 /\ t.pend = s.pend
    BY <1>8, <2>1, <2>2
  <2>4. ~ Pending(t)
    BY <1>10, <2>3 DEF Pending
  <2> QED BY <1>2, <1>4, <1>10, <2>1, <2>2, <2>3, <2>4 DEF t, k
<1>11. CASE ~ Pending(s) /\ s.exdc.request # "none"
  <2>1. op \in Loads \cup VrStores /\ s.cp0.exl = FALSE
    BY <1>1, <1>6, <1>7, <1>11
  <2>2. s.exdc.request \in {"read", "write"}
    BY <1>11 DEF Machines, Execute
  <2>3. \/ t = VR4300_DTLB(u) /\ u.exdc.op \in Mapped
        \/ t = VR4300_WAT(u) /\ u.exdc.op = "lww"
        \/ t = UncachedAccess(u)
        \/ t = CachedAccess(u, dmiss)
    BY <1>1, <1>5, <1>11
  <2>4. CASE t = VR4300_DTLB(u)
    <3>1. PICK fault \in Texts \ {"NONE"} : fault = "DTLB"
      BY TextFacts
    <3>2. PICK code \in Codes \ {"none", "ERET"} :
            code = IF u.tlb \in {"miss", "invalid"} THEN "TLBx" ELSE "Mod"
      BY DEF Codes
    <3>3. PICK vector \in Vectors :
            vector = DtlbVector(u, u.tlb = "miss", u.tlb # "ok" /\ u.exdc.request = "write")
      BY GeneralFacts DEF DtlbVector, Refill
    <3>4. t = Exception(vr4300_dc_fault(u, fault), u.exdc, code, vector)
      BY <2>4, <3>1, <3>2, <3>3, Zenon DEF VR4300_DTLB
    <3>5. Ends(p, i, t) /\ ~ Pending(t) /\ t.stop /\ t.commit = s.commit
      BY <1>2, <2>1, <3>4, MarkedFirst
    <3> QED BY <1>4, <1>11, <3>5 DEF t, k
  <2>5. CASE t = VR4300_WAT(u)
    <3>1. PICK fault \in Texts \ {"NONE"} : fault = "WAT"
      BY TextFacts
    <3>2. PICK code \in Codes \ {"none", "ERET"} : code = "WATCH"
      BY DEF Codes
    <3>3. t = vr4300_dc_fault(Exception(u, u.dcwb, code, GeneralVector), fault)
      BY <2>5, <3>1, <3>2 DEF VR4300_WAT
    <3>4. Ends(p, i, t) /\ ~ Pending(t) /\ t.stop /\ t.commit = s.commit
      BY <1>2, <2>1, <3>3, MarkedLast
    <3> QED BY <1>4, <1>11, <3>4 DEF t, k
  \* The result of the access, for both kinds.
  <2>6. ASSUME NEW x, Accessing(u, x), Accessed(u, x)
        PROVE  /\ x.commit = op
               /\ x.dcwb.result = (IF s.exdc.request = "read" THEN s.mem ELSE s.exdc.result)
               /\ x.mem = (IF s.exdc.request = "write" THEN s.exdc.data ELSE s.mem)
    BY <1>1, <1>2, <1>3, <2>2, <2>6 DEF Accessing, Accessed
  <2>7. CASE t = UncachedAccess(u)
    <3>1. t \in Machines /\ Accessing(u, t) /\ Accessed(u, t) /\ t.type = "ex" /\ t.stop
      BY <1>2, <2>7, UncachedFields
    <3>2. /\ AtEx(p, t, k) /\ Valid(t.rfex) /\ t.dcwb.pc = i.pc /\ t.raised = "none" /\ t.cp0 = s.cp0
          /\ t.pend = s.pend /\ t.commit = op
      BY <1>8, <2>6, <3>1
    <3>3. AtCycle(p, t, k)
      BY <3>1, <3>2 DEF AtCycle
    <3>4. Ends(p, k, t)
      BY <1>4, <3>1, <3>2, <3>3 DEF Ends, Slow, Exact, AfterOf
    <3>5. ~ Pending(t)
      BY <1>11, <3>2 DEF Pending
    <3> QED BY <1>4, <1>11, <3>1, <3>2, <3>4, <3>5 DEF t, k
  <2>8. CASE t = CachedAccess(u, dmiss)
    <3>1. /\ t \in Machines /\ Accessing(u, t)
          /\ \/ t.stop /\ t.type \in {"dcm", "dc"} /\ t.mem = u.mem /\ t.commit = u.commit
             \/ Accessed(u, t) /\ t.type = u.type /\ t.stop = u.stop
      BY <1>2, <2>8, CachedFields
    <3>2. t.pend = s.pend /\ t.cp0 = s.cp0 /\ t.raised = "none"
      BY <1>3, <3>1 DEF Accessing
    <3>3. ~ Pending(t)
      BY <1>11, <3>2 DEF Pending
    <3>4. CASE t.stop /\ t.type \in {"dcm", "dc"} /\ t.mem = u.mem /\ t.commit = u.commit
      <4>1. /\ t.icrf = s.icrf /\ t.rfex = s.rfex /\ t.exdc = s.exdc /\ t.mem = s.mem /\ t.commit = "none"
            /\ t.regs = s.regs /\ t.lo = s.lo /\ t.cp0 = s.cp0
            /\ t.history = s.history /\ t.fault_present = s.fault_present
        BY <1>2, <1>3, <3>1, <3>4 DEF Accessing
      <4>2. Ahead(p, t, i) = Ahead(p, s, i)
        BY <4>1 DEF Ahead
      <4>3. Sound(p, t, i)
        BY <4>1, <4>2 DEF AtDc, Sound, Agree
      <4>4. Follows(p, t, Ahead(p, t, i))
        BY <4>1, <4>2 DEF AtDc, Follows, Decoded, Fetched, Empty
      <4>5. Young(t, t.icrf, 1) /\ Young(t, t.rfex, 2) /\ Young(t, t.exdc, 3)
        BY <4>1 DEF AtDc, Young
      <4>6. AtDc(p, t, i) /\ Valid(t.exdc)
        BY <4>1, <4>3, <4>4, <4>5 DEF AtDc
      <4>7. AtCycle(p, t, i)
        BY <3>4, <4>6 DEF AtCycle
      <4>8. Ends(p, i, t)
        BY <3>1, <3>2, <3>4, <4>7 DEF Ends, Slow, Exact, AfterOf
      <4> QED BY <1>4, <1>11, <3>3, <3>4, <4>1, <4>8 DEF t, k
    <3>5. CASE Accessed(u, t) /\ t.type = u.type /\ t.stop = u.stop
      <4>1. /\ AtEx(p, t, k) /\ Valid(t.rfex) /\ t.dcwb.pc = i.pc
            /\ (op # "handle" => t.dcwb.bd = i.slot) /\ t.dcwb.dest = s.exdc.dest /\ t.commit = op
        BY <1>8, <2>6, <3>1, <3>5
      <4> QED BY <1>2, <1>4, <1>11, <3>1, <3>2, <3>3, <3>5, <4>1 DEF t, k
    <3> QED BY <3>1, <3>4, <3>5
  <2> QED BY <2>3, <2>4, <2>5, <2>7, <2>8
<1> QED BY <1>9, <1>10, <1>11

\* DC skips what is marked.
LEMMA DcBubbleHolds ==
  ASSUME NEW p \in VrPrograms, NEW i \in IsaStates, NEW s \in Machines, AtDc(p, s, i), ~ Valid(s.exdc),
         s.raised = "none", ~ s.stop
  PROVE  LET t == DcBubble(s) IN
         AtEx(p, t, i) /\ Passes(s, t) /\ RankEx(t) = RankDc(s)
<1> DEFINE t == DcBubble(s)
<1>1. /\ t \in Machines
      /\ t.dcwb.fault = s.exdc.fault /\ t.dcwb.dest = 0
      /\ t.icrf = s.icrf /\ t.rfex = s.rfex /\ t.exdc = s.exdc
      /\ Going(s, t) /\ t.lo = s.lo /\ t.type = s.type /\ t.stop = s.stop
  BY DcBubbleFields
<1> HIDE DEF t
<1>2. /\ t.regs = s.regs /\ t.mem = s.mem /\ t.pend = s.pend /\ t.commit = s.commit
      /\ t.cp0 = s.cp0 /\ t.history = s.history /\ t.fault_present = s.fault_present
      /\ t.raised = s.raised
  BY <1>1 DEF Going
<1>3. Ahead(p, s, i) = i
  BY DEF Ahead
<1>4. /\ Agree(p, s, i, i) /\ s.regs = i.regs /\ Follows(p, s, i)
      /\ Young(s, s.icrf, 1) /\ Young(s, s.rfex, 2) /\ Young(s, s.exdc, 3)
  BY <1>3 DEF AtDc, Sound
<1>5. Agree(p, t, i, i)
  BY <1>1, <1>2, <1>4 DEF Agree
<1>6. Held(p, t, i)
  BY <1>1, <1>2, <1>4 DEF Held, Drained, CYCLE_TYPE
<1>7. Follows(p, t, i)
  BY <1>1, <1>4 DEF Follows, Decoded, Fetched, Empty
<1>8. Young(t, t.icrf, 1) /\ Young(t, t.rfex, 2) /\ Young(t, t.dcwb, 3)
  BY <1>1, <1>2, <1>4 DEF Young, Valid
<1>9. AtEx(p, t, i)
  BY <1>5, <1>6, <1>7, <1>8 DEF AtEx
<1>10. Pending(t) = Pending(s)
  BY <1>2 DEF Pending
<1>11. Passes(s, t)
  BY <1>1, <1>2, <1>10 DEF Passes
<1>12. RankEx(t) = RankDc(s)
  BY <1>1 DEF RankEx, RankDc
<1> QED BY <1>9, <1>11, <1>12 DEF t

-----------------------------------------------------------------------------
(* The step of WB.                                                         *)

\* All but the registers and the type.
WbStep(s, t) ==
  /\ t \in Machines
  /\ t.icrf = s.icrf /\ t.rfex = s.rfex /\ t.exdc = s.exdc /\ t.dcwb = s.dcwb
  /\ t.mem = s.mem /\ t.lo = s.lo /\ t.cp0 = s.cp0
  /\ t.pend = s.pend /\ t.commit = s.commit /\ t.raised = s.raised /\ t.stop = s.stop

\* The stage WB: a register, or the type of the cycle.
LEMMA WbFields ==
  ASSUME NEW s \in Machines
  PROVE  LET t == vr4300_wb_stage(s) IN
         /\ WbStep(s, t)
         /\ t.history = s.history /\ t.fault_present = s.fault_present
         /\ \A n \in 1 .. 2 : t.regs[n] = Drained(s.dcwb, s.regs, n)
         /\ (t.type = "busywait" /\ s.dcwb.dest = CYCLE_TYPE) \/ t.type = s.type
<1> DEFINE t == vr4300_wb_stage(s)
<1>1. s.dcwb.dest \in 0 .. 3 /\ s.dcwb.result \in Data /\ s.regs \in [1 .. 2 -> Data]
  BY DEF Machines, WriteBack
<1>2. CASE s.dcwb.dest = CYCLE_TYPE
  <2>1. PICK type \in Texts : type = "busywait"
    BY TextFacts
  <2> DEFINE u == [s EXCEPT !.type = type]
  <2>2. t = u
    <3>1. s.dcwb.dest \notin 1 .. 2
      BY <1>2 DEF CYCLE_TYPE
    <3> QED BY <1>2, <2>1, <3>1 DEF vr4300_wb_stage
  <2>3. /\ WbStep(s, u) /\ u.type = type /\ u.regs = s.regs
        /\ u.history = s.history /\ u.fault_present = s.fault_present
    BY DEF Machines, WbStep
  <2> HIDE DEF u
  <2>4. \A n \in 1 .. 2 : u.regs[n] = Drained(s.dcwb, s.regs, n)
    BY <1>2, <2>3 DEF Drained, CYCLE_TYPE
  <2> QED BY <1>2, <2>1, <2>2, <2>3, <2>4
<1>3. CASE s.dcwb.dest \in 1 .. 2
  <2> DEFINE d == s.dcwb.dest
             v == s.dcwb.result
             regs == [s.regs EXCEPT ![d] = v]
             u == [s EXCEPT !.regs = regs]
  <2>1. t = u
    <3>1. s.dcwb.dest # CYCLE_TYPE
      BY <1>3 DEF CYCLE_TYPE
    <3> QED BY <1>3, <3>1 DEF vr4300_wb_stage
  <2>2. regs \in [1 .. 2 -> Data] /\ \A n \in 1 .. 2 : regs[n] = IF d = n THEN v ELSE s.regs[n]
    BY <1>1, <1>3
  <2> HIDE DEF regs
  <2>3. /\ WbStep(s, u) /\ u.type = s.type /\ u.regs = regs
        /\ u.history = s.history /\ u.fault_present = s.fault_present
    BY <2>2 DEF Machines, WbStep
  <2> HIDE DEF u
  <2>4. \A n \in 1 .. 2 : u.regs[n] = Drained(s.dcwb, s.regs, n)
    BY <2>2, <2>3 DEF Drained
  <2> QED BY <2>1, <2>3, <2>4
<1>4. CASE s.dcwb.dest = 0
  <2>1. t = s
    BY <1>4 DEF vr4300_wb_stage, CYCLE_TYPE
  <2>2. \A n \in 1 .. 2 : s.regs[n] = Drained(s.dcwb, s.regs, n)
    BY <1>4 DEF Drained
  <2> QED BY <2>1, <2>2 DEF WbStep
<1> QED BY <1>1, <1>2, <1>3, <1>4 DEF CYCLE_TYPE

\* A fault ages.
Aged(s) ==
  [s EXCEPT !.fault_present = @ /\ s.history <= HistoryLimit,
            !.history = IF @ > HistoryLimit THEN @ ELSE @ + 1]

LEMMA AgedFields ==
  ASSUME NEW s \in Machines
  PROVE  LET t == Aged(s) IN
         /\ WbStep(s, t) /\ t.regs = s.regs /\ t.type = s.type
         /\ t.fault_present = (s.fault_present /\ s.history <= 3)
         /\ s.history <= 3 => t.history = s.history + 1
<1> DEFINE present == s.fault_present /\ s.history <= HistoryLimit
           history == IF s.history > HistoryLimit THEN s.history ELSE s.history + 1
           t == [s EXCEPT !.fault_present = present, !.history = history]
<1>1. Aged(s) = t
  BY Zenon DEF Aged
<1>2. s.history \in 0 .. 4 /\ s.fault_present \in BOOLEAN
  BY DEF Machines
<1>3. history \in 0 .. 4 /\ (s.history <= 3 => history = s.history + 1)
  BY <1>2 DEF HistoryLimit
<1>4. present \in BOOLEAN /\ present = (s.fault_present /\ s.history <= 3)
  BY <1>2 DEF HistoryLimit
<1> HIDE DEF present, history
<1>5. /\ WbStep(s, t) /\ t.regs = s.regs /\ t.type = s.type
      /\ t.fault_present = present /\ t.history = history
  BY <1>3, <1>4 DEF Machines, WbStep
<1> HIDE DEF t
<1> QED BY <1>1, <1>3, <1>4, <1>5

\* What WB leaves to DC.
LEMMA WbHolds ==
  ASSUME NEW p \in VrPrograms, NEW i \in IsaStates, NEW s \in Machines, AtWb(p, s, i),
         NEW t, WbStep(s, t),
         \A n \in 1 .. 2 : t.regs[n] = IF Valid(s.dcwb) THEN Drained(s.dcwb, s.regs, n) ELSE s.regs[n],
         t.fault_present = s.fault_present \/ (t.fault_present = (s.fault_present /\ s.history <= 3)),
         s.history <= 3 => t.history <= s.history + 1
  PROVE  AtDc(p, t, i)
<1>1. Ahead(p, t, i) = Ahead(p, s, i)
  BY DEF Ahead, WbStep
<1>2. Sound(p, t, i)
  BY <1>1 DEF AtWb, Sound, Agree, WbStep
<1>3. t.regs = i.regs
  <2>1. t.regs \in [1 .. 2 -> Data] /\ i.regs \in [1 .. 2 -> Data]
    BY DEF WbStep, Machines, IsaStates
  <2>2. \A n \in 1 .. 2 : t.regs[n] = i.regs[n]
    BY DEF AtWb, Written
  <2> QED BY <2>1, <2>2
<1>4. Follows(p, t, Ahead(p, t, i)) /\ (Valid(t.exdc) => Valid(t.rfex))
  BY <1>1 DEF AtWb, Follows, Decoded, Fetched, Empty, WbStep
<1>5. Valid(t.rfex) /\ ~ Valid(t.exdc) => t.exdc.dest = 0
  BY DEF AtWb, WbStep
<1>6. Young(t, t.icrf, 1) /\ Young(t, t.rfex, 2) /\ Young(t, t.exdc, 3)
  <2>1. s.history \in 0 .. 4 /\ t.history \in 0 .. 4
    BY DEF WbStep, Machines
  <2>2. t.icrf = s.icrf /\ t.rfex = s.rfex /\ t.exdc = s.exdc
    BY DEF WbStep
  <2>3. ASSUME NEW latch, NEW age \in 0 .. 2, Young(s, latch, age)
        PROVE  Young(t, latch, age + 1)
    <3>1. SUFFICES ASSUME ~ Valid(latch) PROVE t.fault_present /\ t.history <= age + 1
      BY DEF Young
    <3>2. s.fault_present /\ s.history <= age
      BY <2>3, <3>1 DEF Young
    <3>3. s.history <= 3
      BY <2>1, <3>2
    <3>4. t.fault_present
      BY <3>2, <3>3
    <3> QED BY <2>1, <3>2, <3>3, <3>4
  <2>4. Young(s, s.icrf, 0) /\ Young(s, s.rfex, 1) /\ Young(s, s.exdc, 2)
    BY DEF AtWb
  <2>5. Young(t, s.icrf, 0 + 1)
    BY <2>3, <2>4
  <2>6. Young(t, s.rfex, 1 + 1)
    BY <2>3, <2>4
  <2>7. Young(t, s.exdc, 2 + 1)
    BY <2>3, <2>4
  <2> QED BY <2>2, <2>5, <2>6, <2>7
<1> QED BY <1>2, <1>3, <1>4, <1>5, <1>6 DEF AtDc

-----------------------------------------------------------------------------
(* The rest of a slow cycle, from each of its stages.                      *)

\* The cycle ends with what some stage left to commit.
Closes(p, i, s, rank, t) ==
  /\ Ends(p, i, t) /\ t.commit = s.commit /\ t.dcwb = s.dcwb
  /\ Sooner(s, rank, t)

\* The rest of the cycle from IC,
LEMMA SlowIcEnds ==
  ASSUME NEW p \in VrPrograms, NEW i \in IsaStates, NEW s \in Machines, AtIc(p, s, i),
         s.raised = "none"
  PROVE  LET t == vr4300_cycle_slow_ic(s) IN
         Closes(p, i, s, RankIc(s), t) /\ Pending(t) = Pending(s)
<1> DEFINE t == vr4300_cycle_slow_ic(s)
<1>1. IcStep(s, t) /\ t.icrf.fault = "NONE" /\ t.type = "wb"
  BY SlowIc
<1> HIDE DEF t
<1>2. AtWb(p, t, i) /\ Sooner(s, RankIc(s), t)
  BY <1>1, IcHolds
<1>3. t \in Machines /\ t.raised = "none" /\ t.commit = s.commit /\ t.dcwb = s.dcwb
      /\ t.pend = s.pend /\ t.cp0 = s.cp0
  BY <1>1 DEF IcStep
<1>4. AtCycle(p, t, i)
  BY <1>1, <1>2 DEF AtCycle
<1>5. Ends(p, i, t)
  BY <1>1, <1>3, <1>4 DEF Ends, Exact, AfterOf, Slow
<1>6. Pending(t) = Pending(s)
  BY <1>3 DEF Pending
<1> QED BY <1>2, <1>3, <1>5, <1>6 DEF Closes, t

\* from RF,
LEMMA SlowRfEnds ==
  ASSUME vrprog \in VrPrograms, NEW i \in IsaStates, NEW s \in Machines, AtRf(vrprog, s, i),
         NEW imiss \in BOOLEAN, s.raised = "none", ~ s.stop
  PROVE  LET t == vr4300_cycle_slow_rf(s, imiss, FALSE) IN
         Closes(vrprog, i, s, RankRf(s), t) /\ Pending(t) = Pending(s)
<1> DEFINE u == IF Valid(s.icrf) THEN Fetching(s, imiss) ELSE LatchRf(s)
           t == vr4300_cycle_slow_rf(s, imiss, FALSE)
<1>1. t = Unless(u, vr4300_cycle_slow_ic(u))
  BY Zenon DEF vr4300_cycle_slow_rf, Fetching, Valid
<1>2. /\ AtIc(vrprog, u, i)
      /\ u.exdc = s.exdc /\ u.dcwb = s.dcwb /\ u.icrf = s.icrf /\ Going(s, u)
      /\ u \in Machines
      /\ \/ u.stop /\ u.type = "ic" /\ Sooner(s, RankRf(s), u)
         \/ Passes(s, u) /\ RankIc(u) <= RankRf(s)
  BY RfHolds
<1> HIDE DEF u, t
<1>3. u.raised = "none" /\ u.commit = s.commit /\ u.pend = s.pend /\ u.cp0 = s.cp0
  BY <1>2 DEF Going
<1>4. Pending(u) = Pending(s)
  BY <1>3 DEF Pending
<1>5. CASE u.stop /\ u.type = "ic" /\ Sooner(s, RankRf(s), u)
  <2>1. t = u
    BY <1>1, <1>5 DEF Unless
  <2>2. AtCycle(vrprog, u, i)
    BY <1>2, <1>5 DEF AtCycle
  <2>3. Ends(vrprog, i, u)
    BY <1>2, <1>3, <1>5, <2>2 DEF Ends, Exact, AfterOf, Slow
  <2> QED BY <1>2, <1>3, <1>4, <1>5, <2>1, <2>3 DEF Closes, t
<1>6. CASE Passes(s, u) /\ RankIc(u) <= RankRf(s)
  <2> DEFINE v == vr4300_cycle_slow_ic(u)
  <2>1. t = v
    BY <1>1, <1>6 DEF Unless, Passes
  <2>2. Closes(vrprog, i, u, RankIc(u), v) /\ Pending(v) = Pending(u)
    BY <1>2, <1>3, SlowIcEnds
  <2> HIDE DEF v
  <2>3. Sooner(s, RankRf(s), v)
    <3>1. SUFFICES ASSUME Pending(v), Pending(s) PROVE Rank(v) < RankRf(s)
      BY DEF Sooner
    <3>2. Rank(v) < RankIc(u)
      BY <1>4, <2>2, <3>1 DEF Closes, Sooner
    <3>3. Rank(v) \in Int /\ RankIc(u) \in Int /\ RankRf(s) \in Int
      BY DEF Rank, RankIc, RankRf, RankEx, RankDc
    <3> QED BY <1>6, <3>2, <3>3
  <2> QED BY <1>2, <1>3, <1>4, <2>1, <2>2, <2>3 DEF Closes, t
<1> QED BY <1>2, <1>5, <1>6

\* An interrupt never waits for more than six cycles without a stall.
LEMMA RanksTyped ==
  ASSUME NEW s
  PROVE  /\ RankIc(s) \in 0 .. 6 /\ RankRf(s) \in 0 .. 6 /\ RankEx(s) \in 0 .. 6
         /\ RankDc(s) \in 0 .. 6 /\ Rank(s) \in 0 .. 6
<1>1. RankIc(s) \in 0 .. 6
  BY DEF RankIc
<1>2. RankRf(s) \in 0 .. 6
  BY DEF RankRf
<1>3. RankEx(s) \in 0 .. 6
  BY DEF RankEx
<1>4. RankDc(s) \in 0 .. 6
  BY <1>3 DEF RankDc
<1>5. Rank(s) \in 0 .. 6
  BY <1>1, <1>2, <1>3, <1>4 DEF Rank
<1> QED BY <1>1, <1>2, <1>3, <1>4, <1>5

\* and from EX.
LEMMA SlowExEnds ==
  ASSUME vrprog \in VrPrograms, NEW i \in IsaStates, NEW s \in Machines, AtEx(vrprog, s, i),
         NEW imiss \in BOOLEAN, s.raised = "none", ~ s.stop
  PROVE  LET t == vr4300_cycle_slow_ex(s, imiss, FALSE) IN Closes(vrprog, i, s, RankEx(s), t)
<1> DEFINE u == IF Valid(s.rfex) THEN vr4300_ex_stage(s) ELSE [LatchEx(s) EXCEPT !.exdc.dest = 0]
           v == vr4300_cycle_slow_rf(u, imiss, FALSE)
           t == vr4300_cycle_slow_ex(s, imiss, FALSE)
<1>1. t = Unless(u, v)
  BY Zenon DEF vr4300_cycle_slow_ex, Valid
<1>2. /\ u.dcwb = s.dcwb /\ u.commit = s.commit
      /\ \/ u.stop /\ Ends(vrprog, i, u) /\ Sooner(s, RankEx(s), u)
         \/ Passes(s, u) /\ AtRf(vrprog, u, i) /\ RankRf(u) <= RankEx(s)
  <2>1. CASE Valid(s.rfex)
    BY <2>1, ExHolds
  <2>2. CASE ~ Valid(s.rfex)
    <3>1. /\ AtRf(vrprog, u, i) /\ Passes(s, u) /\ u.dcwb = s.dcwb /\ RankRf(u) <= RankEx(s)
      BY <2>2, ExBubbleHolds
    <3> QED BY <3>1 DEF Passes
  <2> QED BY <2>1, <2>2
<1> HIDE DEF u, t
<1>3. CASE u.stop /\ Ends(vrprog, i, u) /\ Sooner(s, RankEx(s), u)
  <2>1. t = u
    BY <1>1, <1>3 DEF Unless
  <2> QED BY <1>2, <1>3, <2>1 DEF Closes, t
<1>4. CASE Passes(s, u) /\ AtRf(vrprog, u, i) /\ RankRf(u) <= RankEx(s)
  <2>1. t = v
    BY <1>1, <1>4 DEF Unless, Passes
  <2>2. u \in Machines /\ u.raised = "none" /\ ~ u.stop
    BY <1>4 DEF Passes
  <2>3. Closes(vrprog, i, u, RankRf(u), v) /\ Pending(v) = Pending(u)
    BY <1>4, <2>2, SlowRfEnds
  <2> HIDE DEF v
  <2>4. Sooner(s, RankEx(s), v)
    <3>1. SUFFICES ASSUME Pending(v), Pending(s) PROVE Rank(v) < RankEx(s)
      BY DEF Sooner
    <3>2. Rank(v) < RankRf(u)
      BY <2>3, <3>1 DEF Closes, Sooner
    <3> QED BY <1>4, <3>2, RanksTyped
  <2> QED BY <1>2, <2>1, <2>3, <2>4 DEF Closes, t
<1> QED BY <1>2, <1>3, <1>4

\* A whole cycle: nothing is committed, or the next instruction is, or the
\* program waits in a loop of one instruction.
Turns(p, i, s, rank, t) ==
  /\ \/ Ends(p, i, t) /\ t.commit = "none"
     \/ /\ t.commit = OpOf(p, i) /\ OpOf(p, i) # "none" /\ t.dcwb.pc = i.pc
        /\ Ends(p, IsaExecute(i, OpOf(p, i)), t)
     \/ t \in Machines /\ t.type = "busywait" /\ t.raised = "none" /\ AtWait(p, t, i)
  /\ Sooner(s, rank, t)

\* The rest of the cycle from DC: it accepts the instruction or not.
LEMMA SlowDcEnds ==
  ASSUME vrprog \in VrPrograms, NEW i \in IsaStates, NEW s \in Machines, AtDc(vrprog, s, i),
         NEW dmiss \in BOOLEAN, NEW imiss \in BOOLEAN,
         s.raised = "none", ~ s.stop, s.commit = "none"
  PROVE  LET t == vr4300_cycle_slow_dc(s, dmiss, imiss, FALSE) IN Turns(vrprog, i, s, RankDc(s), t)
<1> DEFINE u == IF Valid(s.exdc) THEN vr4300_dc_stage(s, dmiss) ELSE DcBubble(s)
           v == vr4300_cycle_slow_ex(u, imiss, FALSE)
           t == vr4300_cycle_slow_dc(s, dmiss, imiss, FALSE)
           op == OpOf(vrprog, i)
           k == IsaExecute(i, op)
<1>1. t = Unless(u, v)
  BY Zenon DEF vr4300_cycle_slow_dc, Valid, DcBubble
<1>2. CASE Valid(s.exdc)
  <2>1. u = vr4300_dc_stage(s, dmiss)
    BY <1>2
  <2> HIDE DEF u, v, t
  <2>2. /\ k \in IsaStates /\ ~ Pending(u)
        /\ \/ u.stop /\ u.commit = "none" /\ Ends(vrprog, i, u)
           \/ u.stop /\ u.commit = op /\ u.dcwb.pc = i.pc /\ Ends(vrprog, k, u)
           \/ /\ u.commit = op /\ u.dcwb.pc = i.pc /\ AtEx(vrprog, u, k)
              /\ u \in Machines /\ ~ u.stop /\ u.raised = "none"
        /\ Pending(s) => u.stop
    BY <1>2, <2>1, DcHolds
  <2>3. op # "none"
    BY <1>2, DcFinds
  <2> HIDE DEF k, op
  <2>4. Sooner(s, RankDc(s), u)
    BY <2>2 DEF Sooner
  <2>5. CASE u.stop
    <3>1. t = u
      BY <1>1, <2>5 DEF Unless
    <3>2. Turns(vrprog, i, s, RankDc(s), u)
      BY <2>2, <2>3, <2>4, <2>5 DEF Turns, k, op
    <3> QED BY <3>1, <3>2 DEF t
  <2>6. CASE ~ u.stop
    <3>1. t = v
      BY <1>1, <2>6 DEF Unless
    <3>2. /\ u.commit = op /\ u.dcwb.pc = i.pc /\ AtEx(vrprog, u, k)
          /\ u \in Machines /\ u.raised = "none"
      BY <2>2, <2>6
    <3>3. Closes(vrprog, k, u, RankEx(u), v)
      BY <2>2, <2>6, <3>2, SlowExEnds DEF v
    <3>4. Sooner(s, RankDc(s), v)
      BY <2>2, <2>6 DEF Sooner
    <3>5. Turns(vrprog, i, s, RankDc(s), v)
      BY <2>3, <3>2, <3>3, <3>4 DEF Turns, Closes, k, op
    <3> QED BY <3>1, <3>5 DEF t
  <2> QED BY <2>5, <2>6
<1>3. CASE ~ Valid(s.exdc)
  <2>1. u = DcBubble(s)
    BY <1>3
  <2> HIDE DEF u, v, t
  <2>2. AtEx(vrprog, u, i) /\ Passes(s, u) /\ RankEx(u) = RankDc(s)
    BY <1>3, <2>1, DcBubbleHolds
  <2>3. Pending(u) = Pending(s)
    BY <2>1, DcBubbleFields DEF Going, Pending
  <2>4. u \in Machines /\ u.raised = "none" /\ ~ u.stop /\ u.commit = "none"
    BY <2>2 DEF Passes
  <2>5. Closes(vrprog, i, u, RankEx(u), v)
    BY <2>2, <2>4, SlowExEnds DEF v
  <2>6. Sooner(s, RankDc(s), v)
    BY <2>2, <2>3, <2>5 DEF Closes, Sooner
  <2>7. Turns(vrprog, i, s, RankDc(s), v)
    BY <2>4, <2>5, <2>6 DEF Turns, Closes
  <2>8. t = v
    BY <1>1, <2>4 DEF Unless
  <2> QED BY <2>7, <2>8 DEF t
<1> QED BY <1>2, <1>3

\* The whole slow cycle.
LEMMA SlowWbEnds ==
  ASSUME vrprog \in VrPrograms, NEW i \in IsaStates, NEW s \in Machines, AtWb(vrprog, s, i),
         NEW dmiss \in BOOLEAN, NEW imiss \in BOOLEAN,
         s.raised = "none", ~ s.stop, s.commit = "none"
  PROVE  LET t == vr4300_cycle_slow_wb(s, dmiss, imiss, FALSE) IN Turns(vrprog, i, s, RankDc(s), t)
<1> DEFINE a == Aged(s)
           u == IF Valid(a.dcwb) THEN vr4300_wb_stage(a) ELSE a
           v == vr4300_cycle_slow_dc(u, dmiss, imiss, FALSE)
           t == vr4300_cycle_slow_wb(s, dmiss, imiss, FALSE)
<1>1. t = v
  BY Zenon DEF vr4300_cycle_slow_wb, Valid, Aged
<1>2. /\ WbStep(s, a) /\ a.regs = s.regs /\ a.type = s.type
      /\ a.fault_present = (s.fault_present /\ s.history <= 3)
      /\ s.history <= 3 => a.history = s.history + 1
  BY AgedFields
<1> HIDE DEF a
<1>3. /\ WbStep(a, u) /\ u.history = a.history /\ u.fault_present = a.fault_present
      /\ \A n \in 1 .. 2 : u.regs[n] = IF Valid(s.dcwb) THEN Drained(s.dcwb, s.regs, n) ELSE s.regs[n]
  <2>1. a \in Machines /\ a.dcwb = s.dcwb
    BY <1>2 DEF WbStep
  <2>2. CASE Valid(a.dcwb)
    <3> DEFINE w == vr4300_wb_stage(a)
    <3>1. u = w
      BY <2>2
    <3>2. /\ WbStep(a, w) /\ w.history = a.history /\ w.fault_present = a.fault_present
          /\ \A n \in 1 .. 2 : w.regs[n] = Drained(a.dcwb, a.regs, n)
      BY <2>1, WbFields
    <3> HIDE DEF u, w
    <3> QED BY <1>2, <2>1, <2>2, <3>1, <3>2
  <2>3. CASE ~ Valid(a.dcwb)
    <3>1. u = a
      BY <2>3
    <3> HIDE DEF u
    <3> QED BY <1>2, <2>1, <2>3, <3>1 DEF WbStep
  <2> QED BY <2>2, <2>3
<1> HIDE DEF u
<1>4. WbStep(s, u)
  BY <1>2, <1>3 DEF WbStep
<1>5. AtDc(vrprog, u, i)
  <2>1. s.history \in 0 .. 4
    BY DEF Machines
  <2>2. s.history <= 3 => u.history <= s.history + 1
    BY <1>2, <1>3, <2>1
  <2>3. u.fault_present = (s.fault_present /\ s.history <= 3)
    BY <1>2, <1>3
  <2> QED BY <1>3, <1>4, <2>2, <2>3, WbHolds
<1>6. /\ u \in Machines /\ u.raised = "none" /\ ~ u.stop /\ u.commit = "none"
      /\ Pending(u) = Pending(s)
  BY <1>4 DEF WbStep, Pending
<1>7. Turns(vrprog, i, u, RankDc(u), v)
  BY <1>5, <1>6, SlowDcEnds
<1>8. RankDc(u) = RankDc(s)
  BY <1>4 DEF RankDc, RankEx, WbStep
<1> HIDE DEF v, t
<1>9. Turns(vrprog, i, s, RankDc(s), v)
  BY <1>6, <1>7, <1>8 DEF Turns, Sooner
<1> QED BY <1>1, <1>9 DEF t

\* What the pipeline holds while it waits.
LEMMA WaitHolds ==
  ASSUME NEW p \in VrPrograms, NEW i \in IsaStates, NEW t \in Machines,
         Placed(p, i, t.cp0.exl), Waits(p, i, t.cp0.exl),
         AtWb(p, t, IsaExecute(i, OpOf(p, i))),
         t.dcwb.pc = i.pc, t.dcwb.bd = i.slot, t.dcwb.dest = 0
  PROVE  AtWait(p, t, i)
<1> DEFINE op == OpOf(p, i)
           k == IsaExecute(i, op)
           word == OpOf(p, k)
           j == IsaExecute(k, word)
           exl == t.cp0.exl
<1>1. exl \in BOOLEAN
  BY DEF Machines, Control
<1>2. /\ op = "nop" /\ i.pc \in 1 .. 4 /\ p[i.pc] = "nop" /\ p[i.pc - 1] = "spin"
      /\ ~ i.void /\ i.slot /\ i.next = i.pc - 1
  BY <1>1, WaitsNop
<1>3. VrDest("nop") = 0 /\ ~ ("nop" \in Loads) /\ ~ ("nop" \in VrStores) /\ ~ ("nop" \in Branches)
  BY DEF VrDest, Loads, VrStores, Branches
<1>4. /\ k \in IsaStates /\ k.pc = i.next /\ ~ k.void
      /\ k.regs = i.regs /\ k.mem = i.mem /\ k.lo = i.lo
      /\ k.epc = i.epc /\ k.bd = i.bd /\ k.code = i.code
      /\ k.inorder = i.inorder /\ k.precise = i.precise
  <2> HIDE DEF op
  <2>1. /\ k \in IsaStates /\ k.pc = i.next
        /\ k.void = (op = "beql" /\ ~ VrTaken(op, i.regs[1], i.regs[2]))
        /\ \A n \in 1 .. 2 : k.regs[n] =
             IF VrDest(op) = n
             THEN IF op \in Loads THEN i.mem ELSE VrResult(op, i.pc, i.regs[1], i.regs[2], i.lo)
             ELSE i.regs[n]
        /\ k.mem = (IF op \in VrStores THEN i.regs[1] ELSE i.mem)
        /\ k.lo = (IF op \in Multiplications THEN VrProduct(i.regs[1], i.regs[2]) ELSE i.lo)
        /\ k.epc = (IF op = "handle" /\ i.code \in SteppedOver /\ ~ i.bd THEN i.epc + 1 ELSE i.epc)
        /\ k.bd = i.bd /\ k.code = i.code
        /\ k.inorder = i.inorder /\ k.precise = i.precise
    BY IsaExecuteTyped
  <2> HIDE DEF k
  <2>2. k.regs = i.regs
    <3>1. k.regs \in [1 .. 2 -> Data] /\ i.regs \in [1 .. 2 -> Data]
      BY <2>1 DEF IsaStates
    <3>2. \A n \in 1 .. 2 : k.regs[n] = i.regs[n]
      BY <1>2, <1>3, <2>1
    <3> QED BY <3>1, <3>2
  <2> QED BY <1>2, <1>3, <2>1, <2>2
<1> HIDE DEF op, k
<1>5. word = "spin"
  <2>1. p[i.pc - 1] = WordOf(p, i.pc - 1)
    <3>1. i.pc - 1 \in 0 .. 4
      BY <1>2
    <3> QED BY <3>1, WordFacts
  <2> QED BY <1>2, <1>4, <2>1 DEF OpOf
<1>6. j.epc = k.epc /\ j.bd = k.bd /\ j.code = k.code /\ j.lo = k.lo
  <2> HIDE DEF word
  <2>1. /\ j.lo = (IF word \in Multiplications THEN VrProduct(k.regs[1], k.regs[2]) ELSE k.lo)
        /\ j.epc = (IF word = "handle" /\ k.code \in SteppedOver /\ ~ k.bd THEN k.epc + 1 ELSE k.epc)
        /\ j.bd = k.bd /\ j.code = k.code
    BY <1>4, IsaExecuteTyped
  <2> QED BY <1>5, <2>1
<1> HIDE DEF word, j
<1>7. Ahead(p, t, k) = j \/ Ahead(p, t, k) = k
  BY DEF Ahead, j, word
<1>8. /\ t.mem = k.mem
      /\ t.cp0.epc = i.epc /\ t.cp0.bd = i.bd /\ t.cp0.code = i.code /\ ~ t.cp0.erl
      /\ t.lo = i.lo \/ Redoes(p, k, exl)
      /\ k.inorder /\ k.precise
  <2>1. Agree(p, t, k, Ahead(p, t, k))
    BY DEF AtWb, Sound, k, op
  <2> QED BY <1>4, <1>6, <1>7, <2>1 DEF Agree
<1>9. ~ exl
  BY DEF Waits
<1>10. ~ Redoes(p, k, exl)
  <2>1. k.pc = i.pc - 1 /\ p[k.pc] = "spin" /\ p[k.pc + 1] = "nop"
    <3>1. k.pc + 1 = i.pc
      BY <1>2, <1>4
    <3> QED BY <1>2, <1>4, <3>1
  <2> QED BY <1>9, <2>1 DEF Redoes, Multiplies
<1>11. Agree(p, t, i, i)
  BY <1>4, <1>8, <1>10 DEF Agree
<1>12. t.regs = i.regs
  <2>1. t.regs \in [1 .. 2 -> Data] /\ i.regs \in [1 .. 2 -> Data]
    BY DEF Machines, IsaStates
  <2>2. \A n \in 1 .. 2 : k.regs[n] = IF Valid(t.dcwb) THEN Drained(t.dcwb, t.regs, n) ELSE t.regs[n]
    BY DEF AtWb, Written, k, op
  <2>3. \A n \in 1 .. 2 : t.regs[n] = i.regs[n]
    BY <1>4, <2>2 DEF Drained
  <2> QED BY <2>1, <2>3
<1>13. ~ t.rfex.kill
  BY DEF AtWb, Follows
<1> QED BY <1>2, <1>9, <1>11, <1>12, <1>13 DEF AtWait

\* The fast cycle: nothing is marked, and it may enter a busy wait.
LEMMA FastEnds ==
  ASSUME vrprog \in VrPrograms, NEW i \in IsaStates, NEW s \in Machines, AtWb(vrprog, s, i),
         s.type = "wb", ~ s.fault_present,
         NEW dmiss \in BOOLEAN, NEW imiss \in BOOLEAN,
         s.raised = "none", ~ s.stop, s.commit = "none"
  PROVE  LET t == FastCycle(s, dmiss, imiss, FALSE) IN Turns(vrprog, i, s, RankDc(s), t)
<1> DEFINE w == vr4300_wb_stage(s)
           dc == vr4300_dc_stage(w, dmiss)
           e == vr4300_ex_stage(dc)
           ex == Unless(dc, e)
           r == Fetching(ex, imiss)
           rf == Unless(ex, r)
           c == vr4300_ic_stage(rf)
           t == Unless(rf, c)
           op == OpOf(vrprog, i)
           k == IsaExecute(i, op)
<1>1. FastCycle(s, dmiss, imiss, FALSE) = t
  BY Zenon DEF FastCycle, Fetching
<1>2. Valid(s.icrf) /\ Valid(s.rfex) /\ Valid(s.exdc) /\ Valid(s.dcwb)
  BY DEF AtWb, Young
<1>3. /\ WbStep(s, w)
      /\ w.history = s.history /\ w.fault_present = s.fault_present
      /\ \A n \in 1 .. 2 : w.regs[n] = Drained(s.dcwb, s.regs, n)
      /\ (w.type = "busywait" /\ s.dcwb.dest = CYCLE_TYPE) \/ w.type = s.type
  BY WbFields
<1> HIDE DEF w
<1>4. AtDc(vrprog, w, i)
  <2>1. s.history \in 0 .. 4
    BY DEF Machines
  <2>2. s.history <= 3 => w.history <= s.history + 1
    BY <1>3, <2>1
  <2>3. \A n \in 1 .. 2 : w.regs[n] = IF Valid(s.dcwb) THEN Drained(s.dcwb, s.regs, n) ELSE s.regs[n]
    BY <1>2, <1>3
  <2> QED BY <1>3, <2>2, <2>3, WbHolds
<1>5. /\ w \in Machines /\ w.raised = "none" /\ ~ w.stop /\ w.commit = "none" /\ Valid(w.exdc)
      /\ Pending(w) = Pending(s) /\ w.cp0 = s.cp0 /\ w.exdc = s.exdc
  BY <1>2, <1>3 DEF WbStep, Pending
<1>6. /\ k \in IsaStates /\ ~ Pending(dc)
      /\ \/ dc.stop /\ dc.commit = "none" /\ Ends(vrprog, i, dc)
         \/ dc.stop /\ dc.commit = op /\ dc.dcwb.pc = i.pc /\ Ends(vrprog, k, dc)
         \/ /\ dc.commit = op /\ dc.dcwb.pc = i.pc /\ AtEx(vrprog, dc, k) /\ Valid(dc.rfex)
            /\ (op # "handle" => dc.dcwb.bd = i.slot) /\ dc.dcwb.dest = w.exdc.dest
            /\ dc \in Machines /\ ~ dc.stop /\ dc.raised = "none" /\ dc.type = w.type
            /\ dc.cp0.exl = w.cp0.exl
      /\ Pending(w) => dc.stop
  BY <1>4, <1>5, DcHolds
<1>7. /\ op # "none" /\ w.exdc.dest = (IF op = "spin" THEN CYCLE_TYPE ELSE VrDest(op))
      /\ w.cp0.exl \in BOOLEAN /\ Placed(vrprog, i, w.cp0.exl)
  BY <1>4, <1>5, DcFinds
<1> HIDE DEF dc
<1>8. CASE dc.stop
  <2>1. t = dc
    BY <1>8 DEF Unless
  <2> HIDE DEF t, k, op
  <2>2. Sooner(s, RankDc(s), dc)
    BY <1>6 DEF Sooner
  <2>3. Turns(vrprog, i, s, RankDc(s), dc)
    BY <1>6, <1>7, <1>8, <2>2 DEF Turns, k, op
  <2> QED BY <1>1, <2>1, <2>3
<1>9. CASE ~ dc.stop
  <2>1. /\ dc.commit = op /\ dc.dcwb.pc = i.pc /\ AtEx(vrprog, dc, k) /\ Valid(dc.rfex)
        /\ (op # "handle" => dc.dcwb.bd = i.slot) /\ dc.dcwb.dest = w.exdc.dest
        /\ dc \in Machines /\ dc.raised = "none" /\ dc.type = w.type
        /\ dc.cp0.exl = w.cp0.exl
        /\ ~ Pending(s)
    <3> HIDE DEF k, op
    <3> QED BY <1>5, <1>6, <1>9
  <2>2. ex = e
    BY <1>9 DEF Unless
  <2>3. \A x : Sooner(s, RankDc(s), x)
    BY <2>1 DEF Sooner
  <2>4. /\ e.dcwb = dc.dcwb /\ e.commit = dc.commit
        /\ \/ e.stop /\ Ends(vrprog, k, e)
           \/ Passes(dc, e) /\ AtRf(vrprog, e, k) /\ Valid(e.exdc) /\ Valid(e.icrf)
    <3> HIDE DEF k, op
    <3> QED BY <1>6, <1>9, <2>1, ExHolds
  <2> HIDE DEF e
  <2>5. CASE e.stop
    <3>1. t = e
      BY <2>2, <2>5 DEF Unless
    <3>2. Ends(vrprog, k, e)
      BY <2>4, <2>5 DEF Passes
    <3> HIDE DEF t, k, op
    <3>3. Turns(vrprog, i, s, RankDc(s), e)
      BY <1>7, <2>1, <2>3, <2>4, <3>2 DEF Turns, k, op
    <3> QED BY <1>1, <3>1, <3>3
  <2>6. CASE ~ e.stop
    <3>1. Passes(dc, e) /\ AtRf(vrprog, e, k) /\ Valid(e.icrf)
      BY <2>4, <2>6
    <3>2. e \in Machines /\ e.raised = "none" /\ e.type = w.type /\ e.commit = op
          /\ e.cp0.exl = w.cp0.exl /\ e.dcwb = dc.dcwb
      BY <2>1, <2>4, <3>1 DEF Passes
    <3>3. rf = Fetching(e, imiss)
      BY <2>2, <2>6 DEF Unless
    <3> HIDE DEF rf
    <3>4. /\ AtIc(vrprog, rf, k)
          /\ rf.exdc = e.exdc /\ rf.dcwb = e.dcwb /\ rf.icrf = e.icrf /\ Going(e, rf)
          /\ rf \in Machines
          /\ \/ rf.stop /\ rf.type = "ic"
             \/ Passes(e, rf)
      <4>1. rf = IF Valid(e.icrf) THEN Fetching(e, imiss) ELSE LatchRf(e)
        BY <3>1, <3>3
      <4> HIDE DEF k
      <4> QED BY <1>6, <2>6, <3>1, <3>2, <4>1, RfHolds
    <3>5. rf.commit = op /\ rf.raised = "none" /\ rf.cp0.exl = w.cp0.exl
      BY <3>2, <3>4 DEF Going
    <3>6. CASE rf.stop
      <4>1. t = rf
        BY <3>6 DEF Unless
      <4>2. rf.type = "ic"
        BY <3>4, <3>6 DEF Passes
      <4>3. AtCycle(vrprog, rf, k)
        BY <3>4, <4>2 DEF AtCycle
      <4> HIDE DEF t, k, op
      <4>4. Ends(vrprog, k, rf)
        BY <1>6, <3>4, <3>5, <4>2, <4>3 DEF Ends, Exact, AfterOf, Slow
      <4>5. Turns(vrprog, i, s, RankDc(s), rf)
        BY <1>7, <2>1, <2>3, <3>2, <3>4, <3>5, <4>4 DEF Turns, k, op
      <4> QED BY <1>1, <4>1, <4>5
    <3>7. CASE ~ rf.stop
      <4>1. t = c
        BY <3>7 DEF Unless
      <4>2. IcStep(rf, c) /\ c.icrf.fault = rf.icrf.fault /\ c.type = rf.type
        BY <3>4, FastIc
      <4> HIDE DEF c
      <4>3. c.icrf.fault = "NONE" /\ c.type = w.type
        BY <3>1, <3>2, <3>4, <3>7, <4>2 DEF Valid, Passes
      <4>4. AtWb(vrprog, c, k)
        <5> HIDE DEF k
        <5> QED BY <1>6, <3>4, <4>2, <4>3, IcHolds
      <4>5. /\ c \in Machines /\ c.commit = op /\ c.raised = "none" /\ c.cp0.exl = w.cp0.exl
            /\ c.dcwb = dc.dcwb
        BY <3>2, <3>4, <3>5, <4>2 DEF IcStep
      <4>6. CASE w.type = "wb"
        <5>1. AtCycle(vrprog, c, k)
          BY <4>3, <4>4, <4>6 DEF AtCycle
        <5> HIDE DEF t, k, op
        <5>2. Ends(vrprog, k, c)
          BY <1>6, <4>3, <4>5, <4>6, <5>1 DEF Ends, Exact, AfterOf, Slow
        <5>3. Turns(vrprog, i, s, RankDc(s), c)
          BY <1>7, <2>1, <2>3, <4>5, <5>2 DEF Turns, k, op
        <5> QED BY <1>1, <4>1, <5>3
      <4>7. CASE w.type = "busywait" /\ s.dcwb.dest = CYCLE_TYPE
        <5>1. Waits(vrprog, i, w.cp0.exl)
          BY <1>2, <1>5, <4>7 DEF AtWb, Written
        <5>2. op = "nop"
          BY <1>7, <5>1, WaitsNop
        <5>3. c.dcwb.pc = i.pc /\ c.dcwb.bd = i.slot /\ c.dcwb.dest = 0
          <6>1. VrDest("nop") = 0
            BY DEF VrDest, Loads
          <6> HIDE DEF op
          <6> QED BY <1>7, <2>1, <4>5, <5>2, <6>1
        <5>4. AtWait(vrprog, c, i)
          BY <1>7, <4>4, <4>5, <5>1, <5>3, WaitHolds
        <5>5. Turns(vrprog, i, s, RankDc(s), c)
          BY <2>3, <4>3, <4>5, <4>7, <5>4 DEF Turns
        <5> HIDE DEF t
        <5> QED BY <1>1, <4>1, <5>5
      <4> QED BY <1>3, <4>6, <4>7
    <3> QED BY <3>6, <3>7
  <2> QED BY <2>5, <2>6
<1> QED BY <1>8, <1>9

-----------------------------------------------------------------------------
(* A cycle.                                                                *)

Cleared(s) == [s EXCEPT !.commit = "none", !.raised = "none", !.stop = FALSE]

\* What a cycle forgets first is in no invariant.
LEMMA ClearedHolds ==
  ASSUME NEW p, NEW i, NEW s \in Machines, AtCycle(p, s, i)
  PROVE  LET t == Cleared(s) IN
         /\ t \in Machines /\ t.raised = "none" /\ ~ t.stop /\ t.commit = "none"
         /\ t.type = s.type /\ t.fault_present = s.fault_present
         /\ AtCycle(p, t, i) /\ Rank(t) = Rank(s) /\ Pending(t) = Pending(s)
<1>1. PICK none \in Texts : none = "none"
  BY DEF Texts, Codes
<1> DEFINE no == FALSE
           t == [s EXCEPT !.commit = none, !.raised = none, !.stop = no]
<1>2. Cleared(s) = t
  BY <1>1, Zenon DEF Cleared
<1>3. no \in BOOLEAN /\ ~ no
  OBVIOUS
<1> HIDE DEF no
<1>4. /\ t \in Machines /\ t.raised = none /\ t.stop = no /\ t.commit = none
      /\ t.icrf = s.icrf /\ t.rfex = s.rfex /\ t.exdc = s.exdc /\ t.dcwb = s.dcwb
      /\ t.regs = s.regs /\ t.mem = s.mem /\ t.lo = s.lo /\ t.cp0 = s.cp0 /\ t.pend = s.pend
      /\ t.type = s.type /\ t.history = s.history /\ t.fault_present = s.fault_present
  BY <1>3 DEF Machines
<1> HIDE DEF t
<1>5. Ahead(p, t, i) = Ahead(p, s, i)
  BY <1>4 DEF Ahead
<1> DEFINE j == Ahead(p, s, i)
<1> HIDE DEF j
<1>6. (Sound(p, s, i) => Sound(p, t, i)) /\ \A x : Agree(p, s, i, x) => Agree(p, t, i, x)
  BY <1>4, <1>5 DEF Sound, Agree
<1>7. (Written(p, s, i) => Written(p, t, i)) /\ (Held(p, s, i) => Held(p, t, i))
  BY <1>4 DEF Written, Held
<1>8. \A x : Follows(p, s, x) => Follows(p, t, x)
  BY <1>4 DEF Follows, Decoded, Fetched, Empty
<1>9. \A latch, age : Young(s, latch, age) => Young(t, latch, age)
  BY <1>4 DEF Young
<1>10. AtWb(p, s, i) => AtWb(p, t, i)
  BY <1>4, <1>5, <1>6, <1>7, <1>8, <1>9 DEF AtWb
<1>11. AtDc(p, s, i) => AtDc(p, t, i)
  BY <1>4, <1>5, <1>6, <1>8, <1>9 DEF AtDc
<1>12. AtEx(p, s, i) => AtEx(p, t, i)
  BY <1>4, <1>6, <1>7, <1>8, <1>9 DEF AtEx
<1>13. AtRf(p, s, i) => AtRf(p, t, i)
  BY <1>4, <1>5, <1>6, <1>7, <1>9 DEF AtRf
<1>14. AtIc(p, s, i) => AtIc(p, t, i)
  BY <1>4, <1>5, <1>6, <1>7, <1>9 DEF AtIc
<1>15. AtWait(p, s, i) => AtWait(p, t, i)
  BY <1>4, <1>6 DEF AtWait
<1>16. AtCycle(p, t, i)
  BY <1>4, <1>10, <1>11, <1>12, <1>13, <1>14, <1>15 DEF AtCycle
<1>17. Rank(t) = Rank(s)
  BY <1>4 DEF Rank, RankIc, RankRf, RankEx, RankDc
<1>18. Pending(t) = Pending(s)
  BY <1>4 DEF Pending
<1> QED BY <1>1, <1>2, <1>3, <1>4, <1>16, <1>17, <1>18

\* The interrupt that ends a busy wait.
LEMMA WaitEnds ==
  ASSUME NEW p \in VrPrograms, NEW i \in IsaStates, NEW s \in Machines, AtWait(p, s, i)
  PROVE  LET t == VR4300_INTR(s) IN Ends(p, i, t) /\ ~ Pending(t) /\ t.commit = s.commit
<1>1. PICK fault \in Texts \ {"NONE"} : fault = "INTR"
  BY TextFacts
<1>2. PICK code \in Codes \ {"none", "ERET"} : code = "Int"
  BY DEF Codes
<1> DEFINE v == Exception(s, s.dcwb, code, GeneralVector)
           t == vr4300_dc_fault(v, fault)
           k == IsaException(i, code, GeneralVector)
<1>3. VR4300_INTR(s) = t
  BY <1>1, <1>2, Zenon DEF VR4300_INTR
<1>4. s.dcwb.pc \in Int /\ s.dcwb.bd \in BOOLEAN /\ code \in Texts
  BY TextFacts DEF Machines, WriteBack
<1>5. /\ Agree(p, s, i, i) /\ s.regs = i.regs /\ ~ s.cp0.exl /\ ~ s.rfex.kill
      /\ i.slot /\ i.pc = s.dcwb.pc /\ s.dcwb.bd
  BY DEF AtWait
<1>6. /\ v \in Machines
      /\ v.cp0.exl /\ v.cp0.erl = s.cp0.erl /\ v.cp0.epc = ExceptionPc(s.dcwb)
      /\ v.cp0.bd = s.dcwb.bd /\ v.cp0.code = code
      /\ v.type = "wb" /\ v.history = 0 /\ v.fault_present
      /\ v.icrf.next = GeneralVector
      /\ v.raised = code /\ v.vector = GeneralVector
      /\ v.rfex = s.rfex
      /\ Kept(s, v) /\ v.lo = s.lo
  <2>1. ~ s.cp0.exl
    BY <1>5
  <2> QED BY <1>4, <2>1, GeneralFacts, ExceptionFields
<1> HIDE DEF v
<1>7. /\ t \in Machines
      /\ t.icrf.fault = fault /\ t.rfex.fault = fault /\ t.exdc.fault = fault /\ t.dcwb.fault = fault
      /\ t.icrf.next = v.icrf.next /\ t.rfex.kill = v.rfex.kill
      /\ Going(v, t) /\ t.lo = v.lo /\ t.type = v.type
  <2>1. v \in Machines
    BY <1>6
  <2> QED BY <2>1, DcMarkFields
<1> HIDE DEF t
<1>8. ~ Valid(t.icrf) /\ ~ Valid(t.rfex) /\ ~ Valid(t.exdc) /\ ~ Valid(t.dcwb)
  BY <1>7 DEF Valid
<1>9. /\ t.mem = s.mem /\ t.regs = s.regs /\ t.commit = s.commit /\ t.lo = s.lo /\ ~ t.rfex.kill
      /\ t.cp0 = v.cp0 /\ t.history = v.history /\ t.fault_present = v.fault_present
      /\ t.raised = v.raised /\ t.vector = v.vector
  BY <1>5, <1>6, <1>7 DEF Kept, Going
<1>10. /\ k.epc = i.pc - 1 /\ k.bd /\ k.code = code
  <2>1. GeneralVector \in Int
    BY GeneralFacts, VectorFacts
  <2>2. k.epc = (IF i.slot THEN i.pc - 1 ELSE i.pc) /\ k.bd = i.slot /\ k.code = code
    BY <1>4, <2>1, IsaExceptionTyped
  <2> HIDE DEF k
  <2> QED BY <1>5, <2>2
<1>11. ExceptionPc(s.dcwb) = i.pc - 1
  BY <1>5 DEF ExceptionPc
<1>12. /\ s.mem = i.mem /\ ~ s.cp0.erl /\ (s.lo = i.lo \/ Redoes(p, i, FALSE))
       /\ Placed(p, i, FALSE) /\ i.inorder /\ i.precise
  <2>1. s.cp0.exl = FALSE
    BY <1>5 DEF Machines, Control
  <2> QED BY <1>5, <2>1 DEF Agree
<1>13. Placed(p, k, TRUE)
  <2>1. code \notin SteppedOver
    BY <1>2 DEF SteppedOver
  <2> QED BY <1>4, <1>12, <2>1, GeneralFacts, ExceptionPlaced
<1>14. t.lo = i.lo \/ Redoes(p, k, TRUE)
  <2>1. Redoes(p, i, FALSE) => Redoes(p, k, TRUE)
    BY <1>2, <1>12, GeneralFacts, ExceptionRedoes
  <2> QED BY <1>9, <1>12, <2>1
<1> HIDE DEF k
<1>15. Raised(p, i, t)
  <2>1. k = IsaException(i, t.raised, t.vector)
    BY <1>6, <1>9 DEF k
  <2>2. /\ t.type = "wb" /\ t.history = 0 /\ t.fault_present
        /\ t.raised \in Codes \ {"none", "ERET"} /\ t.vector \in Vectors /\ t.icrf.next = t.vector
        /\ t.cp0.exl /\ ~ t.cp0.erl /\ t.cp0.epc = k.epc /\ t.cp0.bd = k.bd /\ t.cp0.code = k.code
        /\ t.mem = i.mem
    <3>1. t.type = "wb" /\ t.history = 0 /\ t.fault_present
      BY <1>6, <1>7, <1>9
    <3>2. t.raised \in Codes \ {"none", "ERET"} /\ t.vector \in Vectors /\ t.icrf.next = t.vector
      BY <1>2, <1>6, <1>7, <1>9, GeneralFacts
    <3>3. t.cp0.exl /\ ~ t.cp0.erl
      BY <1>6, <1>9, <1>12
    <3>4. t.cp0.epc = k.epc /\ t.cp0.bd = k.bd /\ t.cp0.code = k.code
      BY <1>5, <1>6, <1>9, <1>10, <1>11
    <3>5. t.mem = i.mem
      BY <1>9, <1>12
    <3> QED BY <3>1, <3>2, <3>3, <3>4, <3>5
  <2>3. /\ \A n \in 1 .. 2 : i.regs[n] = IF Valid(t.dcwb) THEN Drained(t.dcwb, t.regs, n) ELSE t.regs[n]
        /\ Valid(t.dcwb) => t.dcwb.dest # CYCLE_TYPE
    BY <1>5, <1>8, <1>9
  <2> QED BY <1>7, <1>8, <1>9, <1>12, <1>13, <1>14, <2>1, <2>2, <2>3 DEF Raised
<1>16. Ends(p, i, t) /\ ~ Pending(t)
  BY <1>15, RaisedEnds
<1> QED BY <1>3, <1>9, <1>16

\* The line is filled, and DC tries again.
LEMMA DcmHolds ==
  ASSUME NEW p, NEW i \in IsaStates, NEW s \in Machines, AtDc(p, s, i), Valid(s.exdc),
         s.raised = "none"
  PROVE  LET t == VR4300_DCM(s) IN
         Ends(p, i, t) /\ Rank(t) = 0 /\ t.commit = s.commit
<1>1. PICK dc \in Texts : dc = "dc"
  BY TextFacts
<1> DEFINE t == [s EXCEPT !.type = dc]
<1>2. VR4300_DCM(s) = t
  BY <1>1, Zenon DEF VR4300_DCM
<1>3. /\ t \in Machines /\ t.type = dc /\ t.raised = "none" /\ t.commit = s.commit
      /\ t.icrf = s.icrf /\ t.rfex = s.rfex /\ t.exdc = s.exdc /\ t.dcwb = s.dcwb
      /\ t.regs = s.regs /\ t.mem = s.mem /\ t.lo = s.lo /\ t.cp0 = s.cp0 /\ t.pend = s.pend
      /\ t.history = s.history /\ t.fault_present = s.fault_present
  BY DEF Machines
<1> HIDE DEF t
<1>4. Ahead(p, t, i) = Ahead(p, s, i)
  BY <1>3 DEF Ahead
<1>5. Sound(p, t, i)
  BY <1>3, <1>4 DEF AtDc, Sound, Agree
<1>6. Follows(p, t, Ahead(p, t, i))
  BY <1>3, <1>4 DEF AtDc, Follows, Decoded, Fetched, Empty
<1>7. Young(t, t.icrf, 1) /\ Young(t, t.rfex, 2) /\ Young(t, t.exdc, 3)
  BY <1>3 DEF AtDc, Young
<1>8. AtDc(p, t, i) /\ Valid(t.exdc)
  BY <1>3, <1>5, <1>6, <1>7 DEF AtDc
<1>9. AtCycle(p, t, i)
  BY <1>1, <1>3, <1>8 DEF AtCycle
<1>10. Ends(p, i, t)
  BY <1>1, <1>3, <1>9 DEF Ends, Exact, AfterOf, Slow
<1>11. Rank(t) = 0
  BY <1>1, <1>3 DEF Rank
<1> QED BY <1>2, <1>3, <1>10, <1>11

\* The cycle, when the program is in the TLB.
Cycle(s, dmiss, imiss) == vr4300_cycle_(s, dmiss, imiss, FALSE)

\* Every kind of cycle.
LEMMA CycleTurns ==
  ASSUME vrprog \in VrPrograms, NEW i \in IsaStates, NEW old \in Machines,
         old.type \in Slow \cup {"busywait"}, AtCycle(vrprog, old, i),
         NEW dmiss \in BOOLEAN, NEW imiss \in BOOLEAN
  PROVE  Turns(vrprog, i, old, Rank(old), Cycle(old, dmiss, imiss))
<1> DEFINE s == Cleared(old)
           fast == FastCycle(s, dmiss, imiss, FALSE)
           wb == vr4300_cycle_slow_wb(s, dmiss, imiss, FALSE)
           dc == vr4300_cycle_slow_dc(s, dmiss, imiss, FALSE)
           ex == vr4300_cycle_slow_ex(s, imiss, FALSE)
           rf == vr4300_cycle_slow_rf(s, imiss, FALSE)
           ic == vr4300_cycle_slow_ic(s)
           wait == vr4300_cycle_busywait(s)
           dcm == VR4300_DCM(s)
           t == Cycle(old, dmiss, imiss)
<1>1. t = CASE Fast(s) -> fast
            [] s.type = "wb" /\ s.fault_present -> wb
            [] s.type = "dc" -> dc
            [] s.type = "ex" -> ex
            [] s.type = "rf" -> rf
            [] s.type = "ic" -> ic
            [] s.type = "busywait" -> wait
            [] s.type = "dcm" -> dcm
  BY Zenon DEF Cycle, vr4300_cycle_, Cleared
<1>2. /\ s \in Machines /\ s.raised = "none" /\ ~ s.stop /\ s.commit = "none"
      /\ s.type = old.type /\ s.fault_present = old.fault_present
      /\ AtCycle(vrprog, s, i) /\ Rank(s) = Rank(old) /\ Pending(s) = Pending(old)
  BY ClearedHolds
<1> HIDE DEF s, t
<1>3. SUFFICES Turns(vrprog, i, s, Rank(s), t)
  BY <1>2 DEF Turns, Sooner, t
<1>4. s.type = "wb" \/ s.type = "dc" \/ s.type = "ex" \/ s.type = "rf" \/ s.type = "ic"
      \/ s.type = "busywait" \/ s.type = "dcm"
  BY <1>2 DEF Slow
<1>5. ASSUME NEW rank, NEW u, Closes(vrprog, i, s, rank, u)
      PROVE  Turns(vrprog, i, s, rank, u)
  BY <1>2, <1>5 DEF Turns, Closes
<1>6. CASE s.type = "wb"
  <2>1. AtWb(vrprog, s, i) /\ Rank(s) = RankDc(s)
    BY <1>2, <1>6 DEF AtCycle, Rank
  <2>2. CASE s.fault_present
    <3>1. Turns(vrprog, i, s, RankDc(s), wb)
      BY <1>2, <2>1, SlowWbEnds
    <3> HIDE DEF fast, wb, dc, ex, rf, ic, wait, dcm
    <3>2. t = wb
      BY <1>1, <1>6, <2>2 DEF Fast
    <3> QED BY <2>1, <3>1, <3>2
  <2>3. CASE ~ s.fault_present
    <3>1. Turns(vrprog, i, s, RankDc(s), fast)
      BY <1>2, <1>6, <2>1, <2>3, FastEnds
    <3> HIDE DEF fast, wb, dc, ex, rf, ic, wait, dcm
    <3>2. t = fast
      BY <1>1, <1>6, <2>3 DEF Fast
    <3> QED BY <2>1, <3>1, <3>2
  <2> QED BY <2>2, <2>3
<1>7. CASE s.type = "dc"
  <2>1. AtDc(vrprog, s, i) /\ Valid(s.exdc)
    BY <1>2, <1>7 DEF AtCycle
  <2>2. RankDc(s) = 0 /\ Rank(s) = 0
    BY <1>7, <2>1 DEF RankDc, Rank
  <2>3. Turns(vrprog, i, s, RankDc(s), dc)
    BY <1>2, <2>1, SlowDcEnds
  <2> HIDE DEF fast, wb, dc, ex, rf, ic, wait, dcm
  <2>4. t = dc
    BY <1>1, <1>7 DEF Fast
  <2> QED BY <2>2, <2>3, <2>4
<1>8. CASE s.type = "ex"
  <2>1. AtEx(vrprog, s, i) /\ Rank(s) = RankEx(s)
    BY <1>2, <1>8 DEF AtCycle, Rank
  <2>2. Turns(vrprog, i, s, RankEx(s), ex)
    BY <1>2, <1>5, <2>1, SlowExEnds
  <2> HIDE DEF fast, wb, dc, ex, rf, ic, wait, dcm
  <2>3. t = ex
    BY <1>1, <1>8 DEF Fast
  <2> QED BY <2>1, <2>2, <2>3
<1>9. CASE s.type = "rf"
  <2>1. AtRf(vrprog, s, i) /\ Rank(s) = RankRf(s)
    BY <1>2, <1>9 DEF AtCycle, Rank
  <2>2. Closes(vrprog, i, s, RankRf(s), rf)
    BY <1>2, <2>1, SlowRfEnds
  <2>3. Turns(vrprog, i, s, RankRf(s), rf)
    BY <1>5, <2>2
  <2> HIDE DEF fast, wb, dc, ex, rf, ic, wait, dcm
  <2>4. t = rf
    BY <1>1, <1>9 DEF Fast
  <2> QED BY <2>1, <2>3, <2>4
<1>10. CASE s.type = "ic"
  <2>1. AtIc(vrprog, s, i) /\ Rank(s) = RankIc(s)
    BY <1>2, <1>10 DEF AtCycle, Rank
  <2>2. Closes(vrprog, i, s, RankIc(s), ic)
    BY <1>2, <2>1, SlowIcEnds
  <2>3. Turns(vrprog, i, s, RankIc(s), ic)
    BY <1>5, <2>2
  <2> HIDE DEF fast, wb, dc, ex, rf, ic, wait, dcm
  <2>4. t = ic
    BY <1>1, <1>10 DEF Fast
  <2> QED BY <2>1, <2>3, <2>4
<1>11. CASE s.type = "dcm"
  <2>1. AtDc(vrprog, s, i) /\ Valid(s.exdc) /\ Rank(s) = 1
    BY <1>2, <1>11 DEF AtCycle, Rank
  <2>2. Ends(vrprog, i, dcm) /\ Rank(dcm) = 0 /\ dcm.commit = "none"
    BY <1>2, <2>1, DcmHolds
  <2> HIDE DEF fast, wb, dc, ex, rf, ic, wait, dcm
  <2>3. Turns(vrprog, i, s, Rank(s), dcm)
    BY <2>1, <2>2 DEF Turns, Sooner
  <2>4. t = dcm
    BY <1>1, <1>11 DEF Fast
  <2> QED BY <2>3, <2>4
<1>12. CASE s.type = "busywait"
  <2>1. AtWait(vrprog, s, i)
    BY <1>2, <1>12 DEF AtCycle
  <2>2. wait = IF Pending(s) THEN VR4300_INTR(s) ELSE s
    BY DEF vr4300_cycle_busywait
  <2>3. t = wait
    <3> HIDE DEF fast, wb, dc, ex, rf, ic, wait, dcm
    <3> QED BY <1>1, <1>12 DEF Fast
  <2> DEFINE intr == VR4300_INTR(s)
  <2>4. Ends(vrprog, i, intr) /\ ~ Pending(intr) /\ intr.commit = s.commit
    BY <1>2, <2>1, WaitEnds
  <2> HIDE DEF fast, wb, dc, ex, rf, ic, wait, dcm, intr
  <2>5. CASE Pending(s)
    <3>1. t = intr
      BY <2>2, <2>3, <2>5 DEF intr
    <3> QED BY <1>2, <2>4, <3>1 DEF Turns, Sooner
  <2>6. CASE ~ Pending(s)
    <3>1. t = s
      BY <2>2, <2>3, <2>6
    <3> QED BY <1>2, <1>12, <2>1, <2>6, <3>1 DEF Turns, Sooner
  <2> QED BY <2>5, <2>6
<1> QED BY <1>4, <1>6, <1>7, <1>8, <1>9, <1>10, <1>11, <1>12

-----------------------------------------------------------------------------
(* The same program, but for how long an interrupt has waited.             *)

Alike(i, j) ==
  /\ i \in IsaStates /\ j \in IsaStates
  /\ j.pc = i.pc /\ j.next = i.next /\ j.slot = i.slot /\ j.void = i.void
  /\ j.regs = i.regs /\ j.mem = i.mem /\ j.lo = i.lo
  /\ j.epc = i.epc /\ j.bd = i.bd /\ j.code = i.code
  /\ j.inorder = i.inorder /\ j.precise = i.precise

\* An instruction does not look at it,
LEMMA AlikeExecute ==
  ASSUME NEW i, NEW j, Alike(i, j), NEW op
  PROVE  Alike(IsaExecute(i, op), IsaExecute(j, op))
<1> DEFINE k == IsaExecute(i, op)
           m == IsaExecute(j, op)
<1>1. i \in IsaStates /\ j \in IsaStates
  BY DEF Alike
<1>2. /\ k \in IsaStates
      /\ k.pc = i.next
      /\ k.next = (IF VrTaken(op, i.regs[1], i.regs[2]) THEN VrTarget(op, i.pc) ELSE i.next + 1)
      /\ k.slot = (op \in Branches)
      /\ k.void = (op = "beql" /\ ~ VrTaken(op, i.regs[1], i.regs[2]))
      /\ \A n \in 1 .. 2 : k.regs[n] =
           IF VrDest(op) = n
           THEN IF op \in Loads THEN i.mem ELSE VrResult(op, i.pc, i.regs[1], i.regs[2], i.lo)
           ELSE i.regs[n]
      /\ k.mem = (IF op \in VrStores THEN i.regs[1] ELSE i.mem)
      /\ k.lo = (IF op \in Multiplications THEN VrProduct(i.regs[1], i.regs[2]) ELSE i.lo)
      /\ k.epc = (IF op = "handle" /\ i.code \in SteppedOver /\ ~ i.bd THEN i.epc + 1 ELSE i.epc)
      /\ k.bd = i.bd /\ k.code = i.code
      /\ k.inorder = i.inorder /\ k.precise = i.precise
  BY <1>1, IsaExecuteTyped
<1>3. /\ m \in IsaStates
      /\ m.pc = j.next
      /\ m.next = (IF VrTaken(op, j.regs[1], j.regs[2]) THEN VrTarget(op, j.pc) ELSE j.next + 1)
      /\ m.slot = (op \in Branches)
      /\ m.void = (op = "beql" /\ ~ VrTaken(op, j.regs[1], j.regs[2]))
      /\ \A n \in 1 .. 2 : m.regs[n] =
           IF VrDest(op) = n
           THEN IF op \in Loads THEN j.mem ELSE VrResult(op, j.pc, j.regs[1], j.regs[2], j.lo)
           ELSE j.regs[n]
      /\ m.mem = (IF op \in VrStores THEN j.regs[1] ELSE j.mem)
      /\ m.lo = (IF op \in Multiplications THEN VrProduct(j.regs[1], j.regs[2]) ELSE j.lo)
      /\ m.epc = (IF op = "handle" /\ j.code \in SteppedOver /\ ~ j.bd THEN j.epc + 1 ELSE j.epc)
      /\ m.bd = j.bd /\ m.code = j.code
      /\ m.inorder = j.inorder /\ m.precise = j.precise
  BY <1>1, IsaExecuteTyped
<1> HIDE DEF k, m
<1>4. k.regs = m.regs
  <2>1. k.regs \in [1 .. 2 -> Data] /\ m.regs \in [1 .. 2 -> Data]
    BY <1>2, <1>3 DEF IsaStates
  <2>2. \A n \in 1 .. 2 : k.regs[n] = m.regs[n]
    BY <1>2, <1>3 DEF Alike
  <2> QED BY <2>1, <2>2
<1>5. /\ m.pc = k.pc /\ m.next = k.next /\ m.slot = k.slot /\ m.void = k.void
      /\ m.mem = k.mem /\ m.lo = k.lo /\ m.epc = k.epc /\ m.bd = k.bd /\ m.code = k.code
      /\ m.inorder = k.inorder /\ m.precise = k.precise
  BY <1>2, <1>3 DEF Alike
<1>6. Alike(k, m)
  BY <1>2, <1>3, <1>4, <1>5 DEF Alike
<1> QED BY <1>6 DEF k, m

\* and neither does the invariant.
LEMMA AlikeCycle ==
  ASSUME NEW p \in VrPrograms, NEW i, NEW j, Alike(i, j), NEW s \in Machines, AtCycle(p, s, i)
  PROVE  AtCycle(p, s, j)
<1> DEFINE a == Ahead(p, s, i)
           b == Ahead(p, s, j)
<1>1. OpOf(p, j) = OpOf(p, i)
  BY DEF Alike, OpOf
<1>2. Alike(a, b)
  BY <1>1, AlikeExecute DEF Ahead
<1> HIDE DEF a, b
<1>3. s.cp0.exl \in BOOLEAN
  BY DEF Machines, Control
<1>4. Placed(p, i, s.cp0.exl) => Placed(p, j, s.cp0.exl)
  BY DEF Alike, Placed, InHandler, InProgram, AfterBranch, Plain
<1>5. Redoes(p, i, s.cp0.exl) => Redoes(p, j, s.cp0.exl)
  BY DEF Alike, Redoes
<1>6. ASSUME NEW x, NEW y, Alike(x, y), Agree(p, s, i, x) PROVE Agree(p, s, j, y)
  BY <1>4, <1>5, <1>6 DEF Agree, Alike
<1>7. Executes(p, s.exdc, i) => Executes(p, s.exdc, j)
  BY <1>1 DEF Executes, Alike
<1>8. Sound(p, s, i) => Sound(p, s, j)
  <2>1. Agree(p, s, i, a) => Agree(p, s, j, b)
    BY <1>2, <1>6
  <2>2. a.lo = b.lo
    BY <1>2 DEF Alike
  <2> QED BY <1>7, <2>1, <2>2 DEF Sound, a, b
<1>9. Waits(p, i, s.cp0.exl) => Waits(p, j, s.cp0.exl)
  BY DEF Waits, Alike
<1>10. Written(p, s, i) => Written(p, s, j)
  BY <1>9 DEF Written, Alike
<1>11. Held(p, s, i) => Held(p, s, j)
  BY <1>9 DEF Held, Alike
<1>12. ASSUME NEW x, NEW y, Alike(x, y), Follows(p, s, x) PROVE Follows(p, s, y)
  <2>1. OpOf(p, y) = OpOf(p, x)
    BY <1>12 DEF Alike, OpOf
  <2>2. \A bd : Marked(bd, x) => Marked(bd, y)
    BY <1>12 DEF Alike, Marked
  <2>3. Plain(x) => Plain(y)
    BY <1>12 DEF Alike, Plain
  <2>4. y.pc = x.pc /\ y.next = x.next
    BY <1>12 DEF Alike
  <2> QED BY <1>12, <2>1, <2>2, <2>3, <2>4 DEF Follows, Decoded, Fetched, Empty
<1>13. /\ \A bd : Marked(bd, a) => Marked(bd, b)
       /\ Plain(a) => Plain(b)
       /\ b.pc = a.pc /\ b.next = a.next /\ b.void = a.void
  BY <1>2 DEF Alike, Marked, Plain
<1>14. AtWb(p, s, i) => AtWb(p, s, j)
  <2>1. Follows(p, s, a) => Follows(p, s, b)
    BY <1>2, <1>12
  <2> QED BY <1>8, <1>10, <2>1 DEF AtWb, a, b
<1>15. AtDc(p, s, i) => AtDc(p, s, j)
  <2>1. Follows(p, s, a) => Follows(p, s, b)
    BY <1>2, <1>12
  <2> QED BY <1>8, <2>1 DEF AtDc, a, b, Alike
<1>16. AtEx(p, s, i) => AtEx(p, s, j)
  <2>1. Follows(p, s, i) => Follows(p, s, j)
    BY <1>12
  <2>2. Agree(p, s, i, i) => Agree(p, s, j, j)
    BY <1>6
  <2> QED BY <1>11, <2>1, <2>2 DEF AtEx
<1>17. AtRf(p, s, i) => AtRf(p, s, j)
  BY <1>8, <1>11, <1>13 DEF AtRf, a, b
<1>18. AtIc(p, s, i) => AtIc(p, s, j)
  BY <1>8, <1>11, <1>13 DEF AtIc, a, b
<1>19. AtWait(p, s, i) => AtWait(p, s, j)
  <2>1. Agree(p, s, i, i) => Agree(p, s, j, j)
    BY <1>6
  <2> QED BY <2>1 DEF AtWait, Alike
<1> QED BY <1>14, <1>15, <1>16, <1>17, <1>18, <1>19 DEF AtCycle

-----------------------------------------------------------------------------
(* What the reference does in the cycle.                                   *)

\* A flag of the history that stays as it is.
LEMMA SameState ==
  ASSUME NEW i \in IsaStates, NEW b
  PROVE  /\ b = i.inorder => [i EXCEPT !.inorder = b] = i
         /\ b = i.precise => [i EXCEPT !.precise = b] = i
BY DEF IsaStates

\* Wherever the cycle has ended, program and pipeline agree about EPC.
LEMMA AgreesAlways ==
  ASSUME NEW p, NEW i \in IsaStates, NEW s, AtCycle(p, s, i), s.type \in Slow \cup {"busywait"}
  PROVE  /\ i.inorder /\ i.precise
         /\ s.type = "wb" /\ ~ Valid(s.exdc) => s.cp0.epc = i.epc /\ s.cp0.bd = i.bd
<1>1. \E x : Agree(p, s, i, x)
  BY DEF AtCycle, Slow, AtWb, AtDc, AtEx, AtRf, AtIc, AtWait, Sound
<1>2. i.inorder /\ i.precise
  BY <1>1 DEF Agree
<1>3. ASSUME s.type = "wb", ~ Valid(s.exdc) PROVE s.cp0.epc = i.epc /\ s.cp0.bd = i.bd
  BY <1>3 DEF AtCycle, AtWb, Sound, Agree, Ahead
<1> QED BY <1>2, <1>3

\* First an instruction, when one is committed; then what stopped the program.
LEMMA EndsAfter ==
  ASSUME vrprog \in VrPrograms, NEW i \in IsaStates, NEW t, Ends(vrprog, i, t), NEW k,
         k = CASE t.raised = "none" -> i
               [] t.raised = "ERET" -> [IsaReturn(i) EXCEPT
                                          !.inorder = @ /\ t.exdc.pc = i.pc /\ IsaOp(i) = "eret"]
               [] OTHER -> [IsaException(i, t.raised, t.vector) EXCEPT
                              !.precise = @ /\ t.cp0.exl
                                            /\ t.cp0.epc = IsaException(i, t.raised, t.vector).epc
                                            /\ t.cp0.bd = IsaException(i, t.raised, t.vector).bd]
  PROVE  k = AfterOf(i, t)
<1>1. /\ t.type \in Slow /\ Exact(vrprog, i, t) /\ AfterOf(i, t) \in IsaStates
      /\ AtCycle(vrprog, t, AfterOf(i, t))
  BY DEF Ends
<1>2. AfterOf(i, t).inorder /\ AfterOf(i, t).precise
  BY <1>1, AgreesAlways
<1>3. CASE t.raised = "none"
  BY <1>3 DEF AfterOf
<1>4. CASE t.raised = "ERET" /\ t.exdc.pc = i.pc /\ OpOf(vrprog, i) = "eret"
  <2> DEFINE m == IsaReturn(i)
             b == m.inorder /\ t.exdc.pc = i.pc /\ IsaOp(i) = "eret"
  <2>1. k = [m EXCEPT !.inorder = b]
    BY <1>4
  <2>2. m = AfterOf(i, t) /\ m \in IsaStates
    BY <1>1, <1>4 DEF AfterOf
  <2>3. IsaOp(i) = "eret"
    BY <1>4, WordRight DEF IsaOp, OpOf
  <2> HIDE DEF m
  <2>4. b = m.inorder
    BY <1>2, <1>4, <2>2, <2>3 DEF IsaStates
  <2> HIDE DEF b
  <2> QED BY <2>1, <2>2, <2>4, SameState
<1>5. CASE /\ t.raised \in Codes \ {"none", "ERET"} /\ t.vector \in Vectors
           /\ t.cp0.exl /\ ~ Valid(t.exdc) /\ t.type = "wb"
  <2> DEFINE m == IsaException(i, t.raised, t.vector)
             b == m.precise /\ t.cp0.exl /\ t.cp0.epc = m.epc /\ t.cp0.bd = m.bd
  <2>1. k = [m EXCEPT !.precise = b]
    BY <1>5
  <2>2. m = AfterOf(i, t) /\ m \in IsaStates
    BY <1>1, <1>5 DEF AfterOf
  <2> HIDE DEF m
  <2>3. t.cp0.epc = m.epc /\ t.cp0.bd = m.bd
    BY <1>1, <1>5, <2>2, AgreesAlways
  <2>4. b = m.precise
    BY <1>2, <1>5, <2>2, <2>3 DEF IsaStates
  <2> HIDE DEF b
  <2> QED BY <2>1, <2>2, <2>4, SameState
<1> QED BY <1>1, <1>3, <1>4, <1>5 DEF Exact

\* The reference follows the cycle, and finds nothing out of order.
LEMMA TurnsAfter ==
  ASSUME vrprog \in VrPrograms, NEW i \in IsaStates, NEW s, NEW rank, NEW t, Turns(vrprog, i, s, rank, t),
         i.inorder
  PROVE  LET k == IsaAfter(i, t) IN
         /\ t \in Machines /\ t.type \in Slow \cup {"busywait"}
         /\ k \in IsaStates /\ AtCycle(vrprog, t, k)
<1> DEFINE op == OpOf(vrprog, i)
           m == IsaExecute(i, op)
           b == m.inorder /\ t.dcwb.pc = i.pc /\ t.commit = IsaOp(i)
           first == IF ~ Committed(t) THEN i
                    ELSE [IsaExecute(i, IsaOp(i)) EXCEPT
                            !.inorder = @ /\ t.dcwb.pc = i.pc /\ t.commit = IsaOp(i)]
           after == CASE t.raised = "none" -> first
               [] t.raised = "ERET" -> [IsaReturn(first) EXCEPT
                                          !.inorder = @ /\ t.exdc.pc = first.pc /\ IsaOp(first) = "eret"]
               [] OTHER -> [IsaException(first, t.raised, t.vector) EXCEPT
                              !.precise = @ /\ t.cp0.exl
                                            /\ t.cp0.epc = IsaException(first, t.raised, t.vector).epc
                                            /\ t.cp0.bd = IsaException(first, t.raised, t.vector).bd]
<1>1. IsaAfter(i, t) = after
  BY Zenon DEF IsaAfter
<1>2. IsaOp(i) = op
  BY WordRight DEF IsaOp, OpOf
<1>3. m \in IsaStates /\ m.inorder = i.inorder
  BY IsaExecuteTyped
<1>4. ASSUME NEW x \in IsaStates, first = x, Ends(vrprog, x, t)
      PROVE  /\ t \in Machines /\ t.type \in Slow \cup {"busywait"}
             /\ after \in IsaStates /\ AtCycle(vrprog, t, after)
  <2>1. after = AfterOf(x, t)
    <3>1. after = CASE t.raised = "none" -> x
               [] t.raised = "ERET" -> [IsaReturn(x) EXCEPT
                                          !.inorder = @ /\ t.exdc.pc = x.pc /\ IsaOp(x) = "eret"]
               [] OTHER -> [IsaException(x, t.raised, t.vector) EXCEPT
                              !.precise = @ /\ t.cp0.exl
                                            /\ t.cp0.epc = IsaException(x, t.raised, t.vector).epc
                                            /\ t.cp0.bd = IsaException(x, t.raised, t.vector).bd]
      <4> HIDE DEF first
      <4> QED BY <1>4, Zenon
    <3> HIDE DEF after
    <3> QED BY <1>4, <3>1, EndsAfter
  <2> HIDE DEF after
  <2> QED BY <1>4, <2>1 DEF Ends
<1>5. CASE Ends(vrprog, i, t) /\ t.commit = "none"
  <2>1. first = i
    BY <1>5 DEF Committed
  <2> HIDE DEF first, after
  <2> QED BY <1>1, <1>4, <1>5, <2>1
<1>6. CASE t.commit = op /\ op # "none" /\ t.dcwb.pc = i.pc /\ Ends(vrprog, m, t)
  <2>1. Committed(t)
    <3> HIDE DEF op, m
    <3> QED BY <1>6 DEF Committed, Ends, Slow
  <2>2. first = [m EXCEPT !.inorder = b]
    <3> HIDE DEF op
    <3> QED BY <1>2, <2>1
  <2>3. b = m.inorder
    <3> HIDE DEF op, m
    <3> QED BY <1>2, <1>3, <1>6
  <2> HIDE DEF op, b
  <2>4. first = m
    <3> HIDE DEF m, first
    <3> QED BY <1>3, <2>2, <2>3, SameState
  <2> HIDE DEF m, first, after
  <2> QED BY <1>1, <1>3, <1>4, <1>6, <2>4
<1>7. CASE t \in Machines /\ t.type = "busywait" /\ t.raised = "none" /\ AtWait(vrprog, t, i)
  <2>1. first = i
    BY <1>7 DEF Committed
  <2> HIDE DEF first
  <2>2. after = i
    BY <1>7, <2>1
  <2>3. AtCycle(vrprog, t, i)
    BY <1>7 DEF AtCycle
  <2> HIDE DEF after
  <2> QED BY <1>1, <1>7, <2>2, <2>3
<1> QED BY <1>5, <1>6, <1>7 DEF Turns

\* The count itself.
LEMMA WaitedAlike ==
  ASSUME NEW i \in IsaStates, NEW w \in Nat
  PROVE  LET j == [i EXCEPT !.waited = w] IN Alike(i, j) /\ j.waited = w
BY DEF Alike, IsaStates

\* Every step of the machine.
LEMMA CycleInv ==
  ASSUME VrPipeInv, ~ FetchFaults, vr4300_cycle
  PROVE  VrPipeInv'
<1>1. PICK dmiss \in BOOLEAN, imiss \in BOOLEAN, ifault \in BOOLEAN :
        /\ ifault => FetchFaults
        /\ vr' = vr4300_cycle_(vr, dmiss, imiss, ifault)
        /\ vrisa' = [IsaAfter(vrisa, vr') EXCEPT
                       !.waited = IF Pending(vr') THEN vrisa.waited + 1 ELSE 0]
        /\ UNCHANGED vrprog
  BY DEF vr4300_cycle
<1>2. /\ vrprog \in VrPrograms /\ vr \in Machines /\ vrisa \in IsaStates
      /\ vr.type \in Slow \cup {"busywait"}
      /\ AtCycle(vrprog, vr, vrisa) /\ Prompt(vr, vrisa)
  BY DEF VrPipeInv, Slow
<1>3. vr' = Cycle(vr, dmiss, imiss)
  <2>1. ifault = FALSE
    BY <1>1
  <2> QED BY <1>1, <2>1, Zenon DEF Cycle
<1>4. Turns(vrprog, vrisa, vr, Rank(vr), vr')
  BY <1>2, <1>3, CycleTurns
<1> DEFINE k == IsaAfter(vrisa, vr')
           w == IF Pending(vr') THEN vrisa.waited + 1 ELSE 0
<1>5. /\ vr' \in Machines /\ vr'.type \in Slow \cup {"busywait"}
      /\ k \in IsaStates /\ AtCycle(vrprog, vr', k)
  <2>1. vrisa.inorder
    BY <1>2, AgreesAlways
  <2> QED BY <1>2, <1>4, <2>1, TurnsAfter
<1>6. vrisa.waited \in Nat /\ w \in Nat
  BY <1>2 DEF IsaStates
<1> HIDE DEF k, w
<1>7. vrisa' = [k EXCEPT !.waited = w]
  BY <1>1 DEF k, w
<1>8. Alike(k, vrisa') /\ vrisa'.waited = w
  BY <1>5, <1>6, <1>7, WaitedAlike
<1>9. AtCycle(vrprog, vr', vrisa')
  BY <1>2, <1>5, <1>8, AlikeCycle
<1>10. Prompt(vr', vrisa')
  <2>1. Rank(vr) \in 0 .. 6 /\ Rank(vr') \in 0 .. 6
    BY RanksTyped
  <2>2. Sooner(vr, Rank(vr), vr')
    BY <1>4 DEF Turns
  <2>3. CASE Pending(vr') /\ Pending(vr)
    <3>1. Rank(vr') < Rank(vr) /\ vrisa.waited + Rank(vr) <= 7
      BY <1>2, <2>2, <2>3 DEF Sooner, Prompt
    <3>2. vrisa'.waited = vrisa.waited + 1
      BY <1>8, <2>3 DEF w
    <3>3. vrisa'.waited + Rank(vr') <= 7
      BY <1>6, <2>1, <3>1, <3>2
    <3> QED BY <2>3, <3>3 DEF Prompt
  <2>4. CASE Pending(vr') /\ ~ Pending(vr)
    <3>1. vrisa.waited = 0
      BY <1>2, <2>4 DEF Prompt
    <3>2. vrisa'.waited = 1
      BY <1>8, <2>4, <3>1 DEF w
    <3>3. vrisa'.waited + Rank(vr') <= 7
      BY <2>1, <3>2
    <3> QED BY <2>4, <3>3 DEF Prompt
  <2>5. CASE ~ Pending(vr')
    BY <1>8, <2>5 DEF Prompt, w
  <2> QED BY <2>3, <2>4, <2>5
<1>11. vrprog' = vrprog /\ vrisa' \in IsaStates
  BY <1>1, <1>8 DEF Alike
<1> QED BY <1>2, <1>5, <1>9, <1>10, <1>11 DEF VrPipeInv, Slow

\* A device raises its interrupt: only what is pending changes.
LEMMA DeviceInv ==
  ASSUME VrPipeInv, DeviceInterrupts
  PROVE  VrPipeInv'
<1> DEFINE yes == TRUE
<1>1. ~ vr.pend /\ vr' = [vr EXCEPT !.pend = yes] /\ vrprog' = vrprog /\ vrisa' = vrisa
  BY DEF DeviceInterrupts
<1>2. yes \in BOOLEAN
  OBVIOUS
<1> HIDE DEF yes
<1> DEFINE p == vrprog
           i == vrisa
           s == vr
           t == vr'
<1>3. p \in VrPrograms /\ s \in Machines /\ i \in IsaStates /\ AtCycle(p, s, i) /\ Prompt(s, i)
      /\ s.type \in Slow \cup {"busywait"}
  BY DEF VrPipeInv, Slow
<1>4. /\ t \in Machines
      /\ t.icrf = s.icrf /\ t.rfex = s.rfex /\ t.exdc = s.exdc /\ t.dcwb = s.dcwb
      /\ t.regs = s.regs /\ t.mem = s.mem /\ t.lo = s.lo /\ t.cp0 = s.cp0
      /\ t.type = s.type /\ t.history = s.history /\ t.fault_present = s.fault_present
  BY <1>1, <1>2, <1>3 DEF Machines
<1> HIDE DEF p, i, s, t
<1>5. Ahead(p, t, i) = Ahead(p, s, i)
  BY <1>4 DEF Ahead
<1>6. (Sound(p, s, i) => Sound(p, t, i)) /\ \A x : Agree(p, s, i, x) => Agree(p, t, i, x)
  BY <1>4, <1>5 DEF Sound, Agree
<1>7. (Written(p, s, i) => Written(p, t, i)) /\ (Held(p, s, i) => Held(p, t, i))
  BY <1>4 DEF Written, Held
<1>8. \A x : Follows(p, s, x) => Follows(p, t, x)
  BY <1>4 DEF Follows, Decoded, Fetched, Empty
<1>9. \A latch, age : Young(s, latch, age) => Young(t, latch, age)
  BY <1>4 DEF Young
<1>10. AtWb(p, s, i) => AtWb(p, t, i)
  BY <1>4, <1>5, <1>6, <1>7, <1>8, <1>9 DEF AtWb
<1>11. AtDc(p, s, i) => AtDc(p, t, i)
  BY <1>4, <1>5, <1>6, <1>8, <1>9 DEF AtDc
<1>12. AtEx(p, s, i) => AtEx(p, t, i)
  BY <1>4, <1>6, <1>7, <1>8, <1>9 DEF AtEx
<1>13. AtRf(p, s, i) => AtRf(p, t, i)
  BY <1>4, <1>5, <1>6, <1>7, <1>9 DEF AtRf
<1>14. AtIc(p, s, i) => AtIc(p, t, i)
  BY <1>4, <1>5, <1>6, <1>7, <1>9 DEF AtIc
<1>15. AtWait(p, s, i) => AtWait(p, t, i)
  BY <1>4, <1>6 DEF AtWait
<1>16. AtCycle(p, t, i)
  BY <1>3, <1>4, <1>10, <1>11, <1>12, <1>13, <1>14, <1>15 DEF AtCycle
<1>17. Prompt(t, i)
  <2>1. i.waited = 0
    BY <1>1, <1>3 DEF Prompt, Pending, s
  <2> QED BY <2>1, RanksTyped DEF Prompt
<1> QED BY <1>1, <1>3, <1>4, <1>16, <1>17 DEF VrPipeInv, Slow, p, i, s, t

\* The programs of the model, without the instructions that section 5 of the README is about.
LEMMA ProgramsTyped ==
  ASSUME VrOpcodes \cap {"lwa", "trap", "bad"} = {}
  PROVE  Programs \subseteq VrPrograms
<1>1. VrOpcodes \subseteq Opcodes
  BY VrPipelineAssumption DEF Opcodes
<1>2. SUFFICES ASSUME NEW p \in Programs PROVE p \in VrPrograms
  OBVIOUS
<1>3. PICK q \in [0 .. 2 -> VrOpcodes] :
        p = [n \in 0 .. 4 |-> CASE n < 3 -> q[n] [] n = 3 -> "j" [] n = 4 -> "nop"]
  BY DEF Programs
<1>4. p[3] = "j" /\ p[4] = "nop"
  BY <1>3
<1>5. \A n \in 0 .. 2 : p[n] = q[n]
  BY <1>3
<1>6. \A n \in 0 .. 4 : p[n] \in Opcodes
  <2>1. "j" \in Opcodes /\ "nop" \in Opcodes
    BY DEF Opcodes, VrAllOpcodes
  <2>2. SUFFICES ASSUME NEW n \in 0 .. 4 PROVE p[n] \in Opcodes
    OBVIOUS
  <2>3. n \in 0 .. 2 \/ n = 3 \/ n = 4
    OBVIOUS
  <2> QED BY <1>1, <1>4, <1>5, <2>1, <2>3
<1>7. p \in [0 .. 4 -> Opcodes]
  BY <1>3, <1>6
<1>8. \A n \in 0 .. 3 : /\ p[n] \in Branches => p[n + 1] \notin Branches
                        /\ p[n] = "spin" => p[n + 1] = "nop"
  BY DEF Programs
<1> QED BY <1>4, <1>7, <1>8 DEF VrPrograms

\* After the reset all latches are marked.
LEMMA PipeInit ==
  ASSUME VrPipeInit, VrOpcodes \cap {"lwa", "trap", "bad"} = {}
  PROVE  VrPipeInv
<1>1. PICK tlb \in {"miss", "invalid", "clean", "ok"} : vr = [VrReset EXCEPT !.tlb = tlb]
  BY DEF VrPipeInit
<1>2. vrprog \in VrPrograms
  BY ProgramsTyped DEF VrPipeInit
<1>3. 0 \in Data /\ [r \in 1 .. 2 |-> 0] \in [1 .. 2 -> Data]
  BY DataTypes
<1>4. {"RST", "nop", "none", "wb"} \cup {"miss", "invalid", "clean", "ok"} \subseteq Texts
  BY TextFacts DEF Texts, Codes
<1>5. VrReset \in Machines
  BY <1>3, <1>4 DEF VrReset, Machines, Fetch, Decode, Execute, WriteBack, Control
<1>6. /\ vr.icrf = VrReset.icrf /\ vr.rfex = VrReset.rfex /\ vr.exdc = VrReset.exdc
      /\ vr.dcwb = VrReset.dcwb /\ vr.regs = VrReset.regs /\ vr.mem = VrReset.mem /\ vr.lo = VrReset.lo
      /\ vr.cp0 = VrReset.cp0 /\ vr.type = VrReset.type /\ vr.history = VrReset.history
      /\ vr.fault_present = VrReset.fault_present /\ vr.pend = VrReset.pend
      /\ vr \in Machines
  BY <1>1, <1>4, <1>5 DEF Machines
<1>7. /\ vr.icrf.fault = "RST" /\ vr.rfex.fault = "RST" /\ vr.exdc.fault = "RST"
      /\ vr.dcwb.fault = "RST" /\ vr.icrf.next = 0 /\ vr.rfex.op = "nop" /\ ~ vr.rfex.kill
      /\ vr.regs = [r \in 1 .. 2 |-> 0] /\ vr.mem = 0 /\ vr.lo = 0
      /\ ~ vr.cp0.exl /\ ~ vr.cp0.erl /\ vr.cp0.epc = 0 /\ ~ vr.cp0.bd /\ vr.cp0.code = "none"
      /\ vr.type = "wb" /\ vr.history = 0 /\ vr.fault_present /\ ~ vr.pend
  BY <1>6 DEF VrReset
<1>8. vrisa = [pc |-> 0, next |-> 1, slot |-> FALSE, void |-> FALSE, regs |-> vr.regs,
              mem |-> 0, lo |-> 0, epc |-> 0, bd |-> FALSE, code |-> "none",
               inorder |-> TRUE, precise |-> TRUE,
              waited |-> 0]
  BY DEF VrPipeInit
<1>9. vrisa \in IsaStates
  BY <1>3, <1>4, <1>7, <1>8 DEF IsaStates
<1>10. /\ vrisa.pc = 0 /\ vrisa.next = 1 /\ ~ vrisa.slot /\ ~ vrisa.void /\ vrisa.regs = vr.regs
       /\ vrisa.mem = 0 /\ vrisa.lo = 0 /\ vrisa.epc = 0 /\ ~ vrisa.bd /\ vrisa.code = "none"
       /\ vrisa.inorder /\ vrisa.precise /\ vrisa.waited = 0
  BY <1>8
<1>11. ~ Valid(vr.icrf) /\ ~ Valid(vr.rfex) /\ ~ Valid(vr.exdc) /\ ~ Valid(vr.dcwb)
  BY <1>7 DEF Valid
<1>12. Plain(vrisa)
  BY <1>10 DEF Plain
<1>13. Agree(vrprog, vr, vrisa, vrisa)
  <2>1. Placed(vrprog, vrisa, vr.cp0.exl)
    BY <1>7, <1>10, <1>12 DEF Placed, InProgram
  <2> HIDE DEF Agree
  <2>2. vr.mem = vrisa.mem /\ vr.cp0.epc = vrisa.epc /\ vr.cp0.bd = vrisa.bd
        /\ vr.cp0.code = vrisa.code /\ ~ vr.cp0.erl /\ vr.lo = vrisa.lo
    <3>1. vr.cp0.bd \in BOOLEAN /\ vrisa.bd \in BOOLEAN
      BY <1>6, <1>9 DEF Machines, Control, IsaStates
    <3> QED BY <1>7, <1>10, <3>1
  <2> QED BY <1>10, <2>1, <2>2 DEF Agree
<1>14. AtWb(vrprog, vr, vrisa)
  <2>1. Ahead(vrprog, vr, vrisa) = vrisa
    BY <1>11 DEF Ahead
  <2>2. Sound(vrprog, vr, vrisa)
    BY <1>11, <1>13, <2>1 DEF Sound
  <2>3. Written(vrprog, vr, vrisa)
    BY <1>10, <1>11 DEF Written
  <2>4. Follows(vrprog, vr, vrisa)
    BY <1>7, <1>10, <1>11, <1>12 DEF Follows, Empty, Branches
  <2>5. Young(vr, vr.icrf, 0) /\ Young(vr, vr.rfex, 1) /\ Young(vr, vr.exdc, 2) /\ Young(vr, vr.dcwb, 3)
    BY <1>7 DEF Young
  <2> QED BY <1>11, <2>1, <2>2, <2>3, <2>4, <2>5 DEF AtWb
<1>15. AtCycle(vrprog, vr, vrisa)
  BY <1>7, <1>14 DEF AtCycle
<1>16. Prompt(vr, vrisa)
  BY <1>7, <1>10 DEF Prompt, Pending
<1> QED BY <1>2, <1>6, <1>7, <1>9, <1>15, <1>16 DEF VrPipeInv

\* The invariant says all that the property asks for.
LEMMA InvRunsRight ==
  ASSUME VrPipeInv
  PROVE  VrRunsRight
<1>1. /\ vr \in Machines /\ vrisa \in IsaStates
      /\ vr.type \in {"wb", "dc", "ex", "rf", "ic", "busywait", "dcm"}
      /\ AtCycle(vrprog, vr, vrisa) /\ Prompt(vr, vrisa)
  BY DEF VrPipeInv
<1>2. VrPipeTypeOK
  BY <1>1 DEF VrPipeTypeOK, Machines, Data, HistoryLimit
<1>3. VrInOrder /\ Precise
  <2>1. vr.type \in Slow \cup {"busywait"}
    BY <1>1 DEF Slow
  <2> QED BY <1>1, <2>1, AgreesAlways DEF VrInOrder, Precise
<1>4. VrNothingLost
  <2> DEFINE written == vr4300_wb_stage(vr).regs
             drained == IF vr.type \in {"wb", "ex", "rf", "ic"} /\ vr.dcwb.fault = "NONE"
                        THEN written ELSE vr.regs
  <2>1. SUFFICES ASSUME vr.type # "busywait" PROVE drained = vrisa.regs /\ vr.mem = vrisa.mem
    BY Zenon DEF VrNothingLost
  <2>2. written \in [1 .. 2 -> Data] /\ \A n \in 1 .. 2 : written[n] = Drained(vr.dcwb, vr.regs, n)
    BY <1>1, WbFields DEF WbStep, Machines
  <2>3. vr.regs \in [1 .. 2 -> Data] /\ vrisa.regs \in [1 .. 2 -> Data]
    BY <1>1 DEF Machines, IsaStates
  <2> HIDE DEF written
  <2>4. CASE vr.type = "wb"
    <3>1. AtWb(vrprog, vr, vrisa)
      BY <1>1, <2>4 DEF AtCycle
    <3>2. vr.mem = vrisa.mem
      BY <3>1 DEF AtWb, Sound, Agree
    <3>3. \A n \in 1 .. 2 : drained[n] = vrisa.regs[n]
      BY <2>2, <2>4, <3>1 DEF AtWb, Written, Valid
    <3>4. drained \in [1 .. 2 -> Data]
      BY <2>2, <2>3
    <3> HIDE DEF drained
    <3> QED BY <2>3, <3>2, <3>3, <3>4
  <2>5. CASE vr.type \in {"ex", "rf", "ic"}
    <3>1. Held(vrprog, vr, vrisa) /\ vr.mem = vrisa.mem
      BY <1>1, <2>5 DEF AtCycle, AtEx, AtRf, AtIc, Sound, Agree
    <3>2. \A n \in 1 .. 2 : drained[n] = vrisa.regs[n]
      BY <2>2, <2>5, <3>1 DEF Held, Valid, Drained
    <3>3. drained \in [1 .. 2 -> Data]
      BY <2>2, <2>3
    <3> HIDE DEF drained
    <3> QED BY <2>3, <3>1, <3>2, <3>3
  <2>6. CASE vr.type \in {"dc", "dcm"}
    <3>1. AtDc(vrprog, vr, vrisa)
      BY <1>1, <2>6 DEF AtCycle
    <3>2. drained = vr.regs
      BY <2>6
    <3> HIDE DEF drained
    <3> QED BY <3>1, <3>2 DEF AtDc, Sound, Agree
  <2> QED BY <1>1, <2>1, <2>4, <2>5, <2>6
<1>5. FastModeSafe
  <2>1. SUFFICES ASSUME Fast(vr)
                 PROVE  Valid(vr.icrf) /\ Valid(vr.rfex) /\ Valid(vr.exdc) /\ Valid(vr.dcwb)
    BY DEF FastModeSafe, Valid
  <2> QED BY <1>1, <2>1 DEF Fast, AtCycle, AtWb, Young
<1>6. InterruptPrompt
  <2>1. vrisa.waited \in Nat
    BY <1>1 DEF IsaStates
  <2> QED BY <1>1, <2>1, RanksTyped DEF Prompt, InterruptPrompt
<1> QED BY <1>2, <1>3, <1>4, <1>5, <1>6 DEF VrRunsRight

\* VrRunsRight, always, for every program and any sequence of cache misses and
\* interrupts: DC accepts the program's instructions in order, each once;
\* exceptions are precise; what the last latch holds on top of the registers is
\* what the program computed; the fast mode meets no marked latch; and an
\* interrupt is taken within seven cycles that do not stall (pipeline.c,
\* fault.c). Left out are a fetch that misses in the TLB, and the instructions
\* that access an address which is not aligned, trap or are reserved: with them
\* the code does something else, which other runs show.
THEOREM VrAlwaysRunsRight ==
  ASSUME ~ FetchFaults, VrOpcodes \cap {"lwa", "trap", "bad"} = {}
  PROVE  VrPipeSpec => []VrRunsRight
<1>1. VrPipeInit => VrPipeInv
  BY PipeInit
<1>2. VrPipeInv /\ [VrPipeNext]_pipeVars => VrPipeInv'
  <2>1. SUFFICES ASSUME VrPipeInv, [VrPipeNext]_pipeVars PROVE VrPipeInv'
    OBVIOUS
  <2>2. CASE vr4300_cycle
    BY <2>1, <2>2, CycleInv
  <2>3. CASE DeviceInterrupts
    BY <2>1, <2>3, DeviceInv
  <2>4. CASE UNCHANGED pipeVars
    BY <2>1, <2>4 DEF pipeVars, VrPipeInv
  <2> QED BY <2>1, <2>2, <2>3, <2>4 DEF VrPipeNext
<1>3. VrPipeInv => VrRunsRight
  BY InvRunsRight
<1> QED BY <1>1, <1>2, <1>3, PTL DEF VrPipeSpec
=============================================================================
