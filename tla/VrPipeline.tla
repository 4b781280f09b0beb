----------------------------- MODULE VrPipeline ------------------------------
(***************************************************************************)
(* The pipeline of the VR4300, its interlocks and its exceptions:          *)
(* vr4300/pipeline.c and vr4300/fault.c, with the branches, traps and      *)
(* multiplications of vr4300/functions.c and ERET of vr4300/cp0.c.         *)
(*                                                                         *)
(* An instruction is a member of VrOpcodes: what it reads, writes, asks of *)
(* the memory and raises is all the pipeline tells apart. The pc counts    *)
(* words. cycles_to_stall is left out: while it counts, nothing of this    *)
(* module changes. The program is three words of any kind and a loop; the  *)
(* exception handlers are HANDLE, the body of a guest's handler in one     *)
(* instruction, and ERET. vrisa executes the same one instruction at a     *)
(* time: an instruction counts when DC has accepted it, after which        *)
(* nothing can stop it, or when EX raises its exception.                   *)
(***************************************************************************)
EXTENDS Naturals, Sequences

CONSTANTS
  VrOpcodes,    \* what programs are made of
  VrModulus,    \* registers hold 0 .. VrModulus - 1
  FetchFaults   \* may a fetch of the program miss in the TLB

VrAllOpcodes ==
  {"nop", "add", "use", "lw", "sw", "lwio", "swio", "lwm", "swm", "lwa", "lww", "mult", "dmult", "mflo",
   "beq", "beql", "j", "jal", "spin", "syscall", "fpu", "trap", "bad"}

ASSUME VrPipelineAssumption ==
  /\ VrModulus \in Nat \ {0}
  /\ VrOpcodes \subseteq VrAllOpcodes
  /\ FetchFaults \in BOOLEAN

VARIABLES
  vr,        \* struct vr4300
  vrprog,    \* the program
  vrisa      \* history: the same program, without a pipeline

pipeVars == <<vr, vrprog, vrisa>>

\* The program's own words, and the two exception vectors.
RefillVector == 10
GeneralVector == 14
Vectors == {RefillVector, GeneralVector}

VrWord(pc) ==
  CASE pc \in DOMAIN vrprog -> vrprog[pc]
    [] pc \in Vectors -> "handle"
    [] pc - 1 \in Vectors -> "eret"
    [] OTHER -> "nop"

Branches == {"beq", "beql", "j", "jal", "spin"}
Loads == {"lw", "lwio", "lwm", "lwa", "lww"}
VrStores == {"sw", "swio", "swm"}
Mapped == {"lwm", "swm"}
\* They write LO in EX: MULT and MULTU return at once, the others (DMULT, DIV, ...)
\* stall the pipeline.
Multiplications == {"mult", "dmult"}

VrNeeds(op, r) ==
  \/ r = 1 /\ op \in {"add", "use", "beq", "beql"} \cup Multiplications \cup VrStores
  \/ r = 2 /\ op \in {"add", "beq", "beql"} \cup Multiplications
VrDest(op) ==
  CASE op \in {"add", "mflo"} \cup Loads -> 1 [] op \in {"use", "jal"} -> 2 [] OTHER -> 0

VrResult(op, pc, r1, r2, lo) ==
  CASE op = "add" -> (r1 + r2 + 1) % VrModulus
    [] op = "use" -> r1
    [] op = "mflo" -> lo
    [] op = "jal" -> (pc + 2) % VrModulus
    [] OTHER -> 0
VrTaken(op, r1, r2) == op \in {"j", "jal", "spin"} \/ (op \in {"beq", "beql"} /\ r1 = r2)
VrTarget(op, pc) == CASE op = "spin" -> pc [] op = "jal" -> 2 [] OTHER -> 0
VrProduct(r1, r2) == (r1 + 2 * r2) % VrModulus

\* What BEQ and J write for a loop of one instruction instead of a register.
CYCLE_TYPE == 3

-----------------------------------------------------------------------------
(***************************************************************************)
(* Exceptions. NONE is no fault.                                           *)
(***************************************************************************)
Mark(s, latches, fault) ==
  [s EXCEPT !.icrf.fault = fault, !.rfex.fault = fault,
            !.exdc.fault = IF "exdc" \in latches THEN fault ELSE @,
            !.dcwb.fault = IF "dcwb" \in latches THEN fault ELSE @]
vr4300_dc_fault(s, fault) == Mark(s, {"exdc", "dcwb"}, fault)
vr4300_ex_fault(s, fault) == Mark(s, {"exdc"}, fault)
vr4300_rf_fault(s, fault) == Mark(s, {}, fault)

\* Mutant of ExceptionPc: the delay slot is where the program goes on.
ExceptionPcNoSlot(latch) == latch.pc

ExceptionPc(latch) == IF latch.bd THEN latch.pc - 1 ELSE latch.pc

\* The prolog and the epilogue of every exception.
Exception(s, latch, code, vector) ==
  [s EXCEPT
     !.cp0 =
       IF @.exl THEN [@ EXCEPT !.erl = TRUE, !.errorepc = s.cp0.epc, !.code = code]
       ELSE [@ EXCEPT !.exl = TRUE, !.epc = ExceptionPc(latch), !.bd = latch.bd, !.code = code],
     !.type = "wb", !.history = 0, !.fault_present = TRUE,
     !.icrf.next = vector,
     !.raised = code, !.vector = vector, !.stop = TRUE]

Refill(s) == IF s.cp0.exl THEN GeneralVector ELSE RefillVector

\* The offset that DTLB keeps: all but invalid entries that are read.
DtlbVector(s, miss, mod) == IF ~ miss /\ ~ mod THEN GeneralVector ELSE Refill(s)

VR4300_DTLB(s) ==
  LET miss == s.tlb = "miss"
      inv == s.tlb \in {"miss", "invalid"}
      mod == s.tlb # "ok" /\ s.exdc.request = "write"
  IN Exception(vr4300_dc_fault(s, "DTLB"), s.exdc, IF inv THEN "TLBx" ELSE "Mod",
               DtlbVector(s, miss, mod))
VR4300_INTR(s) == vr4300_dc_fault(Exception(s, s.dcwb, "Int", GeneralVector), "INTR")
VR4300_WAT(s) == vr4300_dc_fault(Exception(s, s.dcwb, "WATCH", GeneralVector), "WAT")
VR4300_DADE(s) == Exception(vr4300_ex_fault(s, "CPU"), s.exdc, "AdEL", GeneralVector)
VR4300_SYSC(s) == Exception(vr4300_ex_fault(s, "SYSC"), s.exdc, "Sys", GeneralVector)
VR4300_CPU(s) == Exception(vr4300_ex_fault(s, "CPU"), s.exdc, "CpU", GeneralVector)
\* TRAP and RI do not end the cycle: the functions that raise them return 0.
VR4300_TRAP(s) ==
  [Exception(vr4300_ex_fault(s, "TRAP"), s.exdc, "Tr", GeneralVector) EXCEPT !.stop = FALSE]
VR4300_RI(s) ==
  [Exception(vr4300_ex_fault(s, "RI"), s.exdc, "RI", GeneralVector) EXCEPT !.stop = FALSE]
VR4300_ITLB(s) == Exception(vr4300_rf_fault(s, "ITLB"), s.icrf, "TLBI", Refill(s))

Pending(s) == s.pend /\ ~ s.cp0.exl /\ ~ s.cp0.erl

Stall(s, type) == [s EXCEPT !.type = type, !.stop = TRUE]

-----------------------------------------------------------------------------
(***************************************************************************)
(* The stages: each maps the machine to the machine, and sets stop when it *)
(* ends the cycle. dmiss and imiss say whether the caches miss; ifault     *)
(* whether the TLB has no page for the program.                            *)
(***************************************************************************)
vr4300_wb_stage(s) ==
  CASE s.dcwb.dest = CYCLE_TYPE -> [s EXCEPT !.type = "busywait"]
    [] s.dcwb.dest \in 1 .. 2 -> [s EXCEPT !.regs[s.dcwb.dest] = s.dcwb.result]
    [] OTHER -> s

\* The access itself: the load's value, or the store.
Access(s) ==
  IF s.exdc.request = "read" THEN [s EXCEPT !.dcwb.result = s.mem]
  ELSE [s EXCEPT !.mem = s.exdc.data]
Commit(s) == [s EXCEPT !.commit = s.exdc.op]

CachedAccess(s, dmiss) ==
  LET busy == s.dcwb.store
      noted == [s EXCEPT !.dcwb.store = s.exdc.request = "write"]
  IN IF dmiss THEN Stall(noted, "dcm")
     ELSE IF busy THEN Stall([noted EXCEPT !.dcwb.store = FALSE], "dc")
     ELSE Commit(Access(noted))
UncachedAccess(s) == Commit(Stall(Access([s EXCEPT !.dcwb.store = FALSE]), "ex"))

LatchDc(s) ==
  [s EXCEPT !.dcwb = [@ EXCEPT !.pc = s.exdc.pc, !.fault = s.exdc.fault, !.bd = s.exdc.bd,
                               !.dest = s.exdc.dest, !.result = s.exdc.result]]

TlbFaults(s) ==
  s.exdc.op \in Mapped /\ \/ s.tlb \in {"miss", "invalid"}
                          \/ s.tlb = "clean" /\ s.exdc.request = "write"

vr4300_dc_stage(old, dmiss) ==
  LET s == LatchDc(old) IN
  IF Pending(s) THEN VR4300_INTR(s)
  ELSE IF s.exdc.request = "none" THEN Commit(s)
  ELSE IF s.exdc.op = "lwa" THEN VR4300_DADE(s)
  ELSE IF TlbFaults(s) THEN VR4300_DTLB(s)
  ELSE IF s.exdc.op = "lww" THEN VR4300_WAT(s)
  ELSE IF s.exdc.op \in {"lwio", "swio"} THEN UncachedAccess(s)
  ELSE CachedAccess(s, dmiss)

VrForwarded(s, r) == IF s.dcwb.dest = r THEN s.dcwb.result ELSE s.regs[r]

Branch(s, op, r1, r2) ==
  [s EXCEPT !.icrf.next = IF VrTaken(op, r1, r2) THEN VrTarget(op, s.rfex.pc) ELSE @,
            !.rfex.kill = op = "beql" /\ ~ VrTaken(op, r1, r2)]

\* A guest's handler: acknowledge, refill or change the map, or step over.
SteppedOver == {"Sys", "CpU", "Tr", "RI", "AdEL", "WATCH"}
HANDLE(s) ==
  [s EXCEPT !.pend = IF s.cp0.code = "Int" THEN FALSE ELSE @,
            !.tlb = CASE s.cp0.code \in {"TLBx", "Mod"} -> "ok" [] s.cp0.code = "Int" -> "miss"
                      [] OTHER -> @,
            !.ifetch = @ \/ s.cp0.code = "TLBI",
            !.cp0.epc = IF s.cp0.code \in SteppedOver /\ ~ s.cp0.bd THEN @ + 1 ELSE @]

VR4300_ERET(s) ==
  [s EXCEPT !.icrf.next = IF s.cp0.erl THEN s.cp0.errorepc ELSE s.cp0.epc,
            !.cp0 = IF @.erl THEN [@ EXCEPT !.erl = FALSE] ELSE [@ EXCEPT !.exl = FALSE],
            !.exdc.fault = "ERET", !.rfex.fault = "ERET",
            !.type = "ic", !.history = 0, !.fault_present = TRUE,
            !.raised = "ERET", !.stop = TRUE]

LatchEx(s) ==
  [s EXCEPT !.exdc = [@ EXCEPT !.pc = s.rfex.pc, !.fault = s.rfex.fault, !.bd = s.rfex.bd]]

\* The function of the opcode, from its sources.
Executed(s, op, r1, r2) ==
  LET done == [s EXCEPT !.exdc =
        [@ EXCEPT !.op = op,
                  !.dest = IF op = "spin" THEN CYCLE_TYPE ELSE VrDest(op),
                  !.result = VrResult(op, s.rfex.pc, r1, r2, s.lo),
                  !.request = CASE op \in Loads -> "read" [] op \in VrStores -> "write"
                                [] OTHER -> "none",
                  !.data = r1]]
  IN CASE op = "syscall" -> VR4300_SYSC(done)
       [] op = "trap" -> VR4300_TRAP(done)
       [] op = "bad" -> VR4300_RI(done)
       [] op = "eret" -> VR4300_ERET(done)
       [] op = "handle" -> HANDLE(done)
       [] op = "mult" -> [done EXCEPT !.lo = VrProduct(r1, r2)]
       [] op = "dmult" -> Stall([done EXCEPT !.lo = VrProduct(r1, r2)], "rf")
       [] op \in Branches -> Branch(done, op, r1, r2)
       [] OTHER -> done

LoadDelay(s) == Stall([s EXCEPT !.exdc.request = "none"], "ex")

vr4300_ex_stage(old) ==
  LET s == LatchEx(old)
      op == s.rfex.op
  IN IF op = "fpu" THEN VR4300_CPU(s)
     ELSE IF s.exdc.request = "read" /\ VrNeeds(op, s.exdc.dest) THEN LoadDelay(s)
     ELSE Executed(s, op, VrForwarded(s, 1), VrForwarded(s, 2))

LatchRf(s) ==
  [s EXCEPT !.rfex = [@ EXCEPT !.pc = s.icrf.pc, !.fault = s.icrf.fault, !.bd = s.icrf.bd]]

vr4300_rf_stage(old, imiss, ifault) ==
  LET s == LatchRf(old)
      fetched == [s EXCEPT !.rfex.op = VrWord(s.icrf.pc)]
  IN IF ifault THEN VR4300_ITLB(s) ELSE IF imiss THEN Stall(fetched, "ic") ELSE fetched

vr4300_ic_stage(s) ==
  LET op == IF s.rfex.kill THEN "nop" ELSE s.rfex.op IN
  [s EXCEPT !.rfex.op = op, !.rfex.kill = FALSE,
            !.icrf = [@ EXCEPT !.pc = s.icrf.next, !.next = s.icrf.next + 1,
                               !.bd = op \in Branches]]

-----------------------------------------------------------------------------
(***************************************************************************)
(* A cycle: in fast mode all stages; in slow mode those the fault marks do *)
(* not skip, from the stage the last interlock asks for.                   *)
(***************************************************************************)
Unless(s, then) == IF s.stop THEN s ELSE then

vr4300_cycle_slow_ic(s) ==
  vr4300_ic_stage([s EXCEPT !.icrf.fault = "NONE", !.type = "wb"])

vr4300_cycle_slow_rf(s, imiss, ifault) ==
  LET t == IF s.icrf.fault = "NONE" THEN vr4300_rf_stage(s, imiss, ifault) ELSE LatchRf(s)
  IN Unless(t, vr4300_cycle_slow_ic(t))

vr4300_cycle_slow_ex(s, imiss, ifault) ==
  LET t == IF s.rfex.fault = "NONE" THEN vr4300_ex_stage(s)
           ELSE [LatchEx(s) EXCEPT !.exdc.dest = 0]
  IN Unless(t, vr4300_cycle_slow_rf(t, imiss, ifault))

vr4300_cycle_slow_dc(s, dmiss, imiss, ifault) ==
  LET t == IF s.exdc.fault = "NONE" THEN vr4300_dc_stage(s, dmiss)
           ELSE [s EXCEPT !.dcwb = [@ EXCEPT !.pc = s.exdc.pc, !.fault = s.exdc.fault,
                                             !.bd = s.exdc.bd, !.dest = 0]]
  IN Unless(t, vr4300_cycle_slow_ex(t, imiss, ifault))

HistoryLimit == 3

vr4300_cycle_slow_wb(s, dmiss, imiss, ifault) ==
  LET t == [s EXCEPT !.fault_present = @ /\ s.history <= HistoryLimit,
                     !.history = IF @ > HistoryLimit THEN @ ELSE @ + 1]
  IN vr4300_cycle_slow_dc(IF t.dcwb.fault = "NONE" THEN vr4300_wb_stage(t) ELSE t,
                          dmiss, imiss, ifault)

FastCycle(s, dmiss, imiss, ifault) ==
  LET dc == vr4300_dc_stage(vr4300_wb_stage(s), dmiss)
      ex == Unless(dc, vr4300_ex_stage(dc))
      rf == Unless(ex, vr4300_rf_stage(ex, imiss, ifault))
  IN Unless(rf, vr4300_ic_stage(rf))

vr4300_cycle_busywait(s) == IF Pending(s) THEN VR4300_INTR(s) ELSE s

\* The line is filled: DC tries again.
VR4300_DCM(s) == [s EXCEPT !.type = "dc"]

Fast(s) == ~ s.fault_present /\ s.type = "wb"

vr4300_cycle_(old, dmiss, imiss, ifault) ==
  LET s == [old EXCEPT !.commit = "none", !.raised = "none", !.stop = FALSE] IN
  CASE Fast(s) -> FastCycle(s, dmiss, imiss, ifault)
    [] s.type = "wb" /\ s.fault_present -> vr4300_cycle_slow_wb(s, dmiss, imiss, ifault)
    [] s.type = "dc" -> vr4300_cycle_slow_dc(s, dmiss, imiss, ifault)
    [] s.type = "ex" -> vr4300_cycle_slow_ex(s, imiss, ifault)
    [] s.type = "rf" -> vr4300_cycle_slow_rf(s, imiss, ifault)
    [] s.type = "ic" -> vr4300_cycle_slow_ic(s)
    [] s.type = "busywait" -> vr4300_cycle_busywait(s)
    [] s.type = "dcm" -> VR4300_DCM(s)

-----------------------------------------------------------------------------
(***************************************************************************)
(* The reference: one instruction, or one exception.                       *)
(***************************************************************************)
IsaExecute(i, op) ==
  LET r1 == i.regs[1]
      r2 == i.regs[2]
      skip == op = "beql" /\ ~ VrTaken(op, r1, r2)
      value == IF op \in Loads THEN i.mem ELSE VrResult(op, i.pc, r1, r2, i.lo)
  IN [i EXCEPT
        !.pc = i.next,
        !.next = IF VrTaken(op, r1, r2) THEN VrTarget(op, i.pc) ELSE i.next + 1,
        !.slot = op \in Branches, !.void = skip,
        !.regs = IF VrDest(op) = 0 THEN @ ELSE [@ EXCEPT ![VrDest(op)] = value],
        !.mem = IF op \in VrStores THEN r1 ELSE @,
        !.lo = IF op \in Multiplications THEN VrProduct(r1, r2) ELSE @,
        !.epc = IF op = "handle" /\ i.code \in SteppedOver /\ ~ i.bd THEN @ + 1 ELSE @]

IsaOp(i) == IF i.void THEN "nop" ELSE VrWord(i.pc)

IsaException(i, code, vector) ==
  [i EXCEPT !.pc = vector, !.next = vector + 1, !.slot = FALSE, !.void = FALSE,
            !.epc = IF i.slot THEN i.pc - 1 ELSE i.pc, !.bd = i.slot, !.code = code]

IsaReturn(i) ==
  [i EXCEPT !.pc = i.epc, !.next = i.epc + 1, !.slot = FALSE, !.void = FALSE]

\* What DC accepted in the cycle that enters a busy wait is not final: the
\* interrupt that ends the wait takes it back.
Committed(s) == s.commit # "none" /\ s.type # "busywait"

IsaAfter(i, s) ==
  LET first == IF ~ Committed(s) THEN i
               ELSE [IsaExecute(i, IsaOp(i)) EXCEPT
                       !.inorder = @ /\ s.dcwb.pc = i.pc /\ s.commit = IsaOp(i)]
      stopped == IsaException(first, s.raised, s.vector)
  IN CASE s.raised = "none" -> first
       [] s.raised = "ERET" -> [IsaReturn(first) EXCEPT
                                  !.inorder = @ /\ s.exdc.pc = first.pc /\ IsaOp(first) = "eret"]
       [] OTHER -> [stopped EXCEPT
                      !.precise = @ /\ s.cp0.exl /\ s.cp0.epc = stopped.epc /\ s.cp0.bd = stopped.bd]

-----------------------------------------------------------------------------
\* What VR4300_RST leaves in the latches. It also sets Status.ERL, which the
\* boot code clears before the program runs: the program starts after that.
VrReset ==
  [icrf |-> [pc |-> 9, next |-> 0, fault |-> "RST", bd |-> FALSE],
   rfex |-> [pc |-> 9, fault |-> "RST", bd |-> FALSE, op |-> "nop", kill |-> FALSE],
   exdc |-> [pc |-> 9, fault |-> "RST", bd |-> FALSE, op |-> "nop", dest |-> 0,
             result |-> 0, request |-> "none", data |-> 0],
   dcwb |-> [pc |-> 9, fault |-> "RST", bd |-> FALSE, dest |-> 0, result |-> 0, store |-> FALSE],
   regs |-> [r \in 1 .. 2 |-> 0], mem |-> 0, lo |-> 0,
   cp0 |-> [exl |-> FALSE, erl |-> FALSE, epc |-> 0, errorepc |-> 0, bd |-> FALSE, code |-> "none"],
   type |-> "wb", history |-> 0, fault_present |-> TRUE,
   pend |-> FALSE, tlb |-> "miss", ifetch |-> FALSE,
   commit |-> "none", raised |-> "none", vector |-> 0, stop |-> FALSE]

\* The loop at the end of every program; no branch in a delay slot, which the
\* instruction set leaves open; and nothing in the delay slot of a busy wait,
\* as the comment at vr4300/functions.c asks of programs.
Programs ==
  {p \in {[n \in 0 .. 4 |-> CASE n < 3 -> q[n] [] n = 3 -> "j" [] n = 4 -> "nop"] :
           q \in [0 .. 2 -> VrOpcodes]} :
     \A n \in 0 .. 3 : /\ p[n] \in Branches => p[n + 1] \notin Branches
                       /\ p[n] = "spin" => p[n + 1] = "nop"}

\* The state of the page matters to the programs that access it.
VrPipeInit ==
  /\ vrprog \in Programs
  /\ \E tlb \in {"miss", "invalid", "clean", "ok"} :
       /\ vr = [VrReset EXCEPT !.tlb = tlb]
       /\ (\A n \in DOMAIN vrprog : vrprog[n] \notin Mapped) => tlb = "ok"
  /\ vrisa = [pc |-> 0, next |-> 1, slot |-> FALSE, void |-> FALSE, regs |-> vr.regs,
              mem |-> 0, lo |-> 0, epc |-> 0, bd |-> FALSE, code |-> "none", inorder |-> TRUE, precise |-> TRUE,
              waited |-> 0]

vr4300_cycle ==
  \E dmiss, imiss, ifault \in BOOLEAN :
    /\ ifault => FetchFaults /\ ~ vr.ifetch /\ vr.icrf.pc \in DOMAIN vrprog
    /\ dmiss => vr.type # "dc"
    /\ vr' = vr4300_cycle_(vr, dmiss, imiss, ifault)
    /\ vrisa' = [IsaAfter(vrisa, vr') EXCEPT !.waited = IF Pending(vr') THEN vrisa.waited + 1 ELSE 0]
    /\ UNCHANGED vrprog

\* A device raises its interrupt.
DeviceInterrupts ==
  /\ ~ vr.pend
  /\ vr' = [vr EXCEPT !.pend = TRUE]
  /\ UNCHANGED <<vrprog, vrisa>>

VrPipeNext == vr4300_cycle \/ DeviceInterrupts

VrPipeSpec == VrPipeInit /\ [][VrPipeNext]_pipeVars

-----------------------------------------------------------------------------
VrPipeTypeOK ==
  /\ vr.regs \in [1 .. 2 -> 0 .. VrModulus - 1] /\ vr.mem \in 0 .. VrModulus - 1
  /\ vr.type \in {"wb", "dc", "ex", "rf", "ic", "busywait", "dcm"}
  /\ vr.history \in 0 .. HistoryLimit + 1

\* What DC accepts is always the next instruction of the program: no interlock,
\* taken, likely or untaken branch, delay slot, exception or return makes the
\* pipeline lose one, or run one twice.
VrInOrder == vrisa.inorder

\* Every exception is precise: EPC and the bit BD point to the instruction
\* before which the program stopped, or to the branch of its delay slot.
Precise == vrisa.precise

\* What the last latch still holds, put on top of the registers, is what the
\* program has computed, and so is the memory: a killed instruction leaves no
\* trace, and forwarding never gives an old value.
VrNothingLost ==
  LET drained == IF vr.type \in {"wb", "ex", "rf", "ic"} /\ vr.dcwb.fault = "NONE"
                 THEN vr4300_wb_stage(vr).regs ELSE vr.regs
  IN vr.type # "busywait" => drained = vrisa.regs /\ vr.mem = vrisa.mem

\* The comment at vr4300/pipeline.c: stages are checked for aborts only when
\* faults can be present. In fast mode no latch is marked.
FastModeSafe ==
  Fast(vr) => \A fault \in {vr.icrf.fault, vr.rfex.fault, vr.exdc.fault, vr.dcwb.fault} : fault = "NONE"

\* The comment at vr4300/fault.c: TLB invalid and modification exceptions always
\* use the general vector.
ModToGeneral == vr.raised = "Mod" => vr.vector = GeneralVector

\* An interrupt that is not masked is taken within a few cycles that do not
\* stall, whatever the program does: also from a busy wait.
InterruptPrompt == vrisa.waited <= 7

\* The comment at vr4300/fault.c: TLB misses of the program are exceptions like
\* others; none is raised while another is entered.
NotNested == ~ vr.cp0.erl

\* The pipeline as a whole: it runs a program as the instruction set would, with
\* exact exceptions, in fast and slow mode, and takes interrupts in time.
VrRunsRight ==
  /\ VrPipeTypeOK /\ VrInOrder /\ Precise /\ VrNothingLost
  /\ FastModeSafe /\ InterruptPrompt
=============================================================================
