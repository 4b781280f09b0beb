----------------------------- MODULE RspPipeline -----------------------------
(***************************************************************************)
(* The scalar pipeline of the RSP: rsp/pipeline.c, with the branches, the  *)
(* loads and stores and BREAK of rsp/functions.c, and the CPU that halts,  *)
(* restarts and points it, rsp/cp0.c and rsp/interface.c. One cycle is one *)
(* step, as in the mode with one thread; RspThreads has the other mode.    *)
(*                                                                         *)
(* An instruction is a member of Opcodes: what it reads and writes is all  *)
(* that the pipeline tells apart. The pc counts instructions. The program  *)
(* is any; isa executes the same program one instruction at a time.        *)
(***************************************************************************)
EXTENDS Integers, FiniteSets

-----------------------------------------------------------------------------
(***************************************************************************)
(* SP_STATUS of rsp/cp0.c, as the set of its bits that are on. A word      *)
(* written to it is a set of <<"clr", bit>> and <<"set", bit>>, where the  *)
(* bit is one of SP_STATUS, or "INTR" for the interrupt in the MI.         *)
(***************************************************************************)

StatusBits ==
  {"HALT", "BROKE", "SSTEP", "INTR_BREAK",
   "SIG0", "SIG1", "SIG2", "SIG3", "SIG4", "SIG5", "SIG6", "SIG7"}

Clr(bits) == {"clr"} \X bits
Set(bits) == {"set"} \X bits

\* A bit that is to be cleared is cleared, whatever is to be set. HALT differs:
\* the code asks for the clear only of an RSP that is halted.
StatusAfter(status, rt) ==
  LET clears(b) == <<"clr", b>> \in rt /\ (b = "HALT" => "HALT" \in status)
  IN {b \in StatusBits :
        /\ ~ clears(b)
        /\ b \in status \/ <<"set", b>> \in rt}

\* The pipeline starts again.
Restarts(status, rt) == <<"clr", "HALT">> \in rt /\ "HALT" \in status

\* The line MI_INTR_SP after a write that found it as intr.
IntrAfter(intr, rt) ==
  <<"clr", "INTR">> \notin rt /\ (intr \/ <<"set", "INTR">> \in rt)

\* What a guest or the CPU writes never sets BROKE.
Masked(rt) == rt \ Set({"BROKE"})

-----------------------------------------------------------------------------

CONSTANTS
  ImemWords,    \* 1024: words of IMEM
  Opcodes,      \* the opcodes programs are made of
  StartPcs      \* what the CPU writes to SP_PC

AllOpcodes == {"nop", "add", "use0", "lw", "sw", "beq", "jal", "j", "break", "halt"}

ASSUME RspPipelineAssumption ==
  /\ ImemWords \in Nat \ {0, 1}
  /\ Opcodes \subseteq AllOpcodes
  /\ StartPcs \subseteq 0 .. ImemWords - 1

VARIABLES
  rsp,        \* struct rsp: pipeline latches, registers, DMEM, SP_STATUS
  imem,       \* the program
  isa         \* history: the same program, without a pipeline

rspVars == <<rsp, imem, isa>>

Pcs == 0 .. ImemWords - 1

Plus(pc, n) == (pc + n) % ImemWords

NoRequest == "none"

\* Registers 0, 1 and 2; one word of DMEM; values as wide as a pc.
Rs(op) == IF op \in {"add", "beq"} THEN 1 ELSE 0
Rt(op) == IF op \in {"add", "beq"} THEN 2 ELSE IF op \in {"use0", "sw"} THEN 1 ELSE 0
Dest(op) == IF op \in {"add", "lw"} THEN 1 ELSE IF op \in {"use0", "jal"} THEN 2 ELSE 0
Request(op) == IF op = "lw" THEN "load" ELSE IF op = "sw" THEN "store" ELSE NoRequest
Result(op, pc, rs, rt) ==
  IF op = "add" THEN Plus(rs, rt + 1) ELSE IF op = "use0" THEN Plus(rs, rt)
  ELSE IF op \in {"j", "jal"} THEN Plus(pc, 2) ELSE 0
Needs(op, r) ==
  r # 0 /\ \/ op \in {"add", "use0", "beq", "sw"} /\ r = Rt(op)
           \/ op \in {"add", "beq"} /\ r = Rs(op)
Taken(op, rs, rt) == op \in {"j", "jal"} \/ (op = "beq" /\ rs = rt)
Target(op, pc) == IF op = "beq" THEN Plus(pc, 3) ELSE 1

-----------------------------------------------------------------------------
(***************************************************************************)
(* The latches. An opcode "none" is the zeroed latch of rsp_pipeline_init, *)
(* and "kill" the instruction a stall puts in its place.                   *)
(***************************************************************************)
rsp_pipeline_init ==
  [pc   |-> 0,
   ifrd |-> [pc |-> 0, op |-> "none"],
   rdex |-> [pc |-> 0, op |-> "none"],
   exdf |-> [dest |-> 0, result |-> 0, request |-> NoRequest, data |-> 0],
   dfwb |-> [dest |-> 0, result |-> 0, status |-> {}]]

\* rsp_status_write, when nobody else writes SP_STATUS.
StatusWrite(r, rt) ==
  [r EXCEPT !.status = StatusAfter(r.status, rt),
            !.intr = IntrAfter(r.intr, rt),
            !.pipeline = IF Restarts(r.status, rt)
                         THEN [rsp_pipeline_init EXCEPT !.pc = r.pipeline.rdex.pc]
                         ELSE @]

\* What BREAK asks of the next write-back.
HaltAndBroke == Set({"HALT", "BROKE"})

WbStage(r) ==
  IF r.pipeline.dfwb.status # {} THEN StatusWrite(r, r.pipeline.dfwb.status)
  ELSE [r EXCEPT !.regs[r.pipeline.dfwb.dest] = r.pipeline.dfwb.result]

\* The write-back that ends a cycle early.
WbHalts(r) == r.pipeline.dfwb.status # {} /\ "HALT" \in StatusAfter(r.status, r.pipeline.dfwb.status)

DfStage(r) ==
  LET exdf == r.pipeline.exdf
      loaded == IF exdf.request = "load" THEN r.mem ELSE exdf.result
  IN [r EXCEPT !.pipeline.dfwb = [dest |-> exdf.dest, result |-> loaded, status |-> {}],
               !.mem = IF exdf.request = "store" THEN exdf.data ELSE @,
               !.pipeline.exdf = rsp_pipeline_init.exdf]

\* The register file as EX sees it: with the result that is to be written back.
Forwarded(r, reg) ==
  IF reg = 0 THEN 0
  ELSE IF reg = r.pipeline.dfwb.dest THEN r.pipeline.dfwb.result ELSE r.regs[reg]

\* Forwarding zeroes register 0, unless the result itself was for register 0:
\* then it puts back what was there.
ForwardKeeps(r) == IF r.pipeline.dfwb.dest = 0 THEN r.regs ELSE [r.regs EXCEPT ![0] = 0]

RSP_BREAK(r) ==
  [r EXCEPT !.intr = @ \/ "INTR_BREAK" \in r.status,
            !.pipeline.dfwb.dest = 0, !.pipeline.dfwb.result = 0,
            !.pipeline.dfwb.status = HaltAndBroke]

ExStage(r) ==
  LET op == r.pipeline.rdex.op
      pc == r.pipeline.rdex.pc
      rs == Forwarded(r, Rs(op))
      rt == Forwarded(r, Rt(op))
      seen == [r EXCEPT !.regs = ForwardKeeps(r)]
  IN IF op = "break" THEN RSP_BREAK(seen)
     ELSE IF op = "halt" THEN StatusWrite(seen, Set({"HALT"}))
     ELSE [seen EXCEPT
            !.pipeline.pc = IF Taken(op, rs, rt) THEN Target(op, pc) ELSE @,
            !.pipeline.exdf = [dest |-> Dest(op), result |-> Result(op, pc, rs, rt),
                               request |-> Request(op), data |-> rt]]

\* The instruction waits one cycle for the load before it.
Stalls(r) ==
  /\ r.pipeline.rdex.op = "lw"
  /\ Needs(r.pipeline.ifrd.op, r.pipeline.exdf.dest)

RdStage(r) ==
  [r EXCEPT !.pipeline.rdex =
     IF Stalls(r) THEN [pc |-> r.pipeline.ifrd.pc, op |-> "kill"] ELSE r.pipeline.ifrd]

IfStage(r) ==
  [r EXCEPT !.pipeline.ifrd = [pc |-> r.pipeline.pc, op |-> imem[r.pipeline.pc]],
            !.pipeline.pc = Plus(@, 1)]

\* Mutant of RdIfStages: a stall does not keep IF from fetching.
RdIfStagesNoStall(r) == IfStage(RdStage(r))

RdIfStages(r) == IF Stalls(r) THEN RdStage(r) ELSE IfStage(RdStage(r))

rsp_cycle_(r) ==
  IF WbHalts(r) THEN WbStage(r) ELSE RdIfStages(ExStage(DfStage(WbStage(r))))

-----------------------------------------------------------------------------
(***************************************************************************)
(* The reference: one instruction, all of it, with its delay slot.         *)
(***************************************************************************)
IsaStep(s, op) ==
  LET rs == s.regs[Rs(op)]
      rt == s.regs[Rt(op)]
      value == IF op = "lw" THEN s.mem ELSE Result(op, s.pc, rs, rt)
  IN [pc   |-> s.next,
      next |-> IF Taken(op, rs, rt) THEN Target(op, s.pc) ELSE Plus(s.next, 1),
      regs |-> IF Dest(op) = 0 THEN s.regs ELSE [s.regs EXCEPT ![Dest(op)] = value],
      mem  |-> IF op = "sw" THEN rt ELSE s.mem,
      late |-> IF op \in {"break", "halt"} THEN s.last ELSE 0,
      last |-> Dest(op),
      ended |-> op \in {"break", "halt"}]

\* The program goes on from a pc with the registers and the memory that are there.
IsaFrom(pc, r) ==
  [pc |-> pc, next |-> Plus(pc, 1), regs |-> [r.regs EXCEPT ![0] = 0],
   mem |-> r.mem, late |-> 0, last |-> 0, ended |-> FALSE]

RspInit ==
  /\ rsp = [pipeline |-> rsp_pipeline_init, regs |-> [n \in 0 .. 2 |-> 0], mem |-> 0,
            status |-> {"HALT"}, intr |-> FALSE]
  /\ imem \in [Pcs -> Opcodes]
  /\ isa = IsaFrom(0, rsp)

Executes == rsp.pipeline.rdex.op \in AllOpcodes /\ ~ WbHalts(rsp)

rsp_cycle ==
  /\ "HALT" \notin rsp.status
  /\ rsp' = rsp_cycle_(rsp)
  /\ isa' = IF Executes THEN IsaStep(isa, imem[isa.pc]) ELSE isa
  /\ UNCHANGED imem

\* The CPU clears HALT; or, in passing, also turns the interrupt of BREAK on.
CpuRestarts ==
  /\ "HALT" \in rsp.status
  /\ \E rt \in {Clr({"HALT", "BROKE", "INTR"}), Clr({"HALT", "INTR"}) \cup Set({"INTR_BREAK"})} :
       rsp' = StatusWrite(rsp, Masked(rt))
  /\ isa' = IsaFrom(isa.pc, rsp)
  /\ UNCHANGED imem

\* The CPU sets HALT of an RSP that runs. The protocols of games never do it.
CpuHaltsRsp ==
  /\ "HALT" \notin rsp.status
  /\ rsp' = StatusWrite(rsp, Masked(Set({"HALT"})))
  /\ UNCHANGED <<imem, isa>>

\* write_sp_regs2: only of an RSP that is halted.
CpuWritesPc ==
  /\ "HALT" \in rsp.status
  /\ \E pc \in StartPcs :
       /\ rsp' = [rsp EXCEPT !.pipeline = [rsp_pipeline_init EXCEPT !.pc = pc]]
       /\ isa' = IsaFrom(pc, rsp)
  /\ UNCHANGED imem

RspNext == rsp_cycle \/ CpuRestarts \/ CpuWritesPc

RspSpec == RspInit /\ [][RspNext]_rspVars

RspHaltedSpec == RspInit /\ [][RspNext \/ CpuHaltsRsp]_rspVars

-----------------------------------------------------------------------------
RspTypeOK ==
  /\ rsp.status \subseteq StatusBits /\ rsp.intr \in BOOLEAN
  /\ rsp.regs \in [0 .. 2 -> Pcs] /\ rsp.mem \in Pcs
  /\ rsp.pipeline.pc \in Pcs /\ isa.pc \in Pcs

\* The instruction in EX is always the next one of the program: no stall, taken
\* branch, delay slot or restart makes the pipeline skip one, or run one twice.
InOrder ==
  Executes => /\ rsp.pipeline.rdex.pc = isa.pc
              /\ rsp.pipeline.rdex.op = imem[isa.pc]

\* What the two last latches still hold, put on top of the registers and of
\* DMEM, is what the program has computed: forwarding never gives an old value.
Pending(r) == DfStage(WbStage(r))

NothingLost ==
  LET drained == WbStage(Pending(rsp)) IN
  "HALT" \notin rsp.status /\ rsp.pipeline.dfwb.status = {} =>
    /\ \A n \in 1 .. 2 : drained.regs[n] = isa.regs[n]
    /\ drained.mem = isa.mem

\* A program that stops itself has stored all it stored, and computed all its
\* registers but the one of the instruction just before BREAK, or before the
\* write to SP_STATUS.
StopsAfterAll ==
  "HALT" \in rsp.status /\ isa.ended =>
    /\ rsp.mem = isa.mem
    /\ \A n \in 1 .. 2 : n # isa.late => rsp.regs[n] = isa.regs[n]

\* The comment at rsp/functions.c:279: "executing BREAK in a delay slot works
\* correctly", to resume at the branch's target: with all that ran before it.
BreakKeepsAll ==
  "BROKE" \in rsp.status /\ "HALT" \in rsp.status /\ isa.ended =>
    \A n \in 1 .. 2 : rsp.regs[n] = isa.regs[n]

\* The comment at rsp/interface.c:182: setting SP_PC forces the RSP to start
\* from there.
StartsWhereTold == InOrder

\* The pipeline as a whole: it runs a program as the instruction set would,
\* loses no result, and stops where the program or the CPU stops it.
RspRunsRight == RspTypeOK /\ InOrder /\ NothingLost /\ StopsAfterAll
==============================================================================
