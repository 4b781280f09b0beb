-------------------------------- MODULE MCVr ---------------------------------
(***************************************************************************)
(* The models of the parts of the VR4300 in one specification: a behaviour *)
(* is one of the part in cpupart, while all others stay as they are reset. *)
(***************************************************************************)
EXTENDS VrPipeline, VrCaches, VrTlb, VrScalar, VrFloat

CONSTANT ActiveParts    \* the parts to look at

VARIABLE cpupart

vrUnitVars == <<cpupart, pipeVars, cacheVars, tlbVars, vscalarVars, floatVars, cp0Vars>>

CpuParts == {"pipeline", "caches", "tlb", "scalar", "float", "cp0"}

ASSUME MCVrAssumption == ActiveParts \subseteq CpuParts

\* The parts that start in many states.
PipelineIdle ==
  /\ vrprog = [n \in 0 .. 4 |-> "nop"]
  /\ vr = VrReset
  /\ vrisa = [regs |-> vr.regs, mem |-> 0, inorder |-> TRUE, precise |-> TRUE, waited |-> 0]
TlbIdle ==
  /\ tlb = <<>> /\ status = CHOOSE s \in TlbStatus : TRUE
  /\ hi = [vpn2 |-> 0, asid |-> 1] /\ segment = default_segment
  /\ tries = [at |-> -1, write |-> FALSE, count |-> 0, why |-> "none"]
VScalarIdle == vin = VIn("ADDU", 0, 0, 0) /\ vout = Nothing

VrUnitsInit ==
  /\ cpupart \in ActiveParts
  /\ IF cpupart = "pipeline" THEN VrPipeInit ELSE PipelineIdle
  /\ VrCacheInit
  /\ IF cpupart = "tlb" THEN TlbInit ELSE TlbIdle
  /\ IF cpupart = "scalar" THEN VScalarInit ELSE VScalarIdle
  /\ FloatInit
  /\ cpupart # "float" \/ ~ fpu.hasRound => fpu.fr /\ fpu.regs[0] % FWord = 1
  /\ cpupart # "float" => fpu.hasRound
  /\ Cp0Init
  /\ cpupart # "cp0" => cp0ref.used = "COMPARE"

VrUnitsNext ==
  /\ UNCHANGED cpupart
  /\ \/ /\ cpupart = "pipeline" /\ VrPipeNext
        /\ UNCHANGED <<cacheVars, tlbVars, vscalarVars, floatVars, cp0Vars>>
     \/ /\ cpupart = "caches" /\ VrCacheNext
        /\ UNCHANGED <<pipeVars, tlbVars, vscalarVars, floatVars, cp0Vars>>
     \/ /\ cpupart = "tlb" /\ TlbNext
        /\ UNCHANGED <<pipeVars, cacheVars, vscalarVars, floatVars, cp0Vars>>
     \/ /\ cpupart = "scalar" /\ VScalarNext
        /\ UNCHANGED <<pipeVars, cacheVars, tlbVars, floatVars, cp0Vars>>
     \/ /\ cpupart = "float" /\ FloatNext
        /\ UNCHANGED <<pipeVars, cacheVars, tlbVars, vscalarVars, cp0Vars>>
     \/ /\ cpupart = "cp0" /\ Cp0Next
        /\ UNCHANGED <<pipeVars, cacheVars, tlbVars, vscalarVars, floatVars>>

VrUnitsSpec == VrUnitsInit /\ [][VrUnitsNext]_vrUnitVars

-----------------------------------------------------------------------------
\* What the instructions of the VR4300 compute: integers, loads and stores,
\* floating point with its flags and modes, and the registers of coprocessor 0.
VrComputesRight ==
  /\ VComputesRight /\ MultipliesRight /\ DecidesRight /\ LoadsRight /\ StoresRight
  /\ FpuRegistersRight /\ FpuMovesRight /\ FpuFlagsRight /\ HostModeKept
  /\ TimerExact /\ ReadsBack /\ RandomAboveWired

-----------------------------------------------------------------------------
(***************************************************************************)
(* Programs, addresses and instructions on a small scale.                  *)
(***************************************************************************)

\* Settings of STATUS: what a guest with 32-bit or with 64-bit addresses uses.
Kernel == [ksu |-> "kernel", exl |-> FALSE, erl |-> FALSE, kx |-> FALSE, sx |-> FALSE, ux |-> FALSE]
MCStatus ==
  {Kernel, [Kernel EXCEPT !.kx = TRUE, !.ux = TRUE, !.sx = TRUE],
   [Kernel EXCEPT !.ksu = "user"], [Kernel EXCEPT !.ksu = "user", !.ux = TRUE],
   [Kernel EXCEPT !.ksu = "supervisor", !.sx = TRUE, !.kx = TRUE, !.ux = TRUE]}
\* Settings that mix: 64-bit for the kernel, 32-bit for the program.
MCStatusMixed == {Kernel, [Kernel EXCEPT !.kx = TRUE]}

\* Two pages of a pair, the next pair, and one page of each other mapped segment.
MCAddresses == {1, 2, 7, V32 + 1, VSize - 8, V62 + 1}

\* Moves and memory accesses of both halves of a pair, and numbers in registers
\* that every mode has.
Instr(op, fmt, to, fs, ft, fd) ==
  [op |-> op, fmt |-> fmt, to |-> to, fs |-> fs, ft |-> ft, fd |-> fd]
Simple(op, n) == Instr(op, "S", "W", n, n, n)
MCFpuOpcodes ==
  {Simple(op, n) : op \in {"MTC1", "MFC1", "LWC1", "SWC1"}, n \in {2, 3}}
  \cup {Simple(op, n) : op \in {"DMTC1", "DMFC1", "LDC1", "SDC1"}, n \in {2, 3}}
  \cup {Instr("ADD", "S", "W", 2, 0, 2), Instr("ADD", "D", "W", 2, 0, 2), Instr("MOV", "S", "W", 2, 2, 0)}
  \cup {Instr(op, fmt, "W", 2, 0, 0) : op \in Predicates, fmt \in {"S", "D"}}
  \cup {Instr(op, "S", "W", 2, 2, 2) : op \in Conversions}
  \cup {Instr(op, "D", "L", 2, 2, 2) : op \in Conversions \ {"ROUND"}}
  \cup {Instr("CVT_D", fmt, "W", 2, 2, 2) : fmt \in {"S", "W", "L"}}
  \cup {Instr("CVT_S", fmt, "W", 2, 2, 2) : fmt \in {"D", "W", "L"}}
  \cup {Simple("BC1", 0), Simple("CFC1", FCR31), Simple("CFC1", FCR0), Simple("CTC1", 0), Simple("nop", 0)}
==============================================================================
