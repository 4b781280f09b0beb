------------------------------- MODULE VrFloat --------------------------------
(***************************************************************************)
(* The floating-point coprocessor of the VR4300: the functions of          *)
(* vr4300/cp1.c, the choice of the registers they read in vr4300_ex_stage  *)
(* of vr4300/pipeline.c, and the host's comparisons and conversions they   *)
(* call. An instruction enters EX in a cycle in which the one before it is *)
(* in DC and the one before that is written back, as in vr4300_cycle_;     *)
(* stalls only add time and are left out.                                  *)
(*                                                                         *)
(* A word holds 0 .. FWord - 1 and a register two words. A single is a     *)
(* number of halves around the middle of its word, a double around the     *)
(* middle of its register; the last value of each is NaN. The arithmetic   *)
(* itself is the host's, and stands as a sum that NaN absorbs.             *)
(*                                                                         *)
(* fisa executes the same program with the architecture's registers: 64    *)
(* bits each when Status.FR is set, words that pair up when it is not.     *)
(***************************************************************************)
EXTENDS Integers

CONSTANTS
  FWord,        \* 2^32
  FpuOpcodes,   \* what programs are made of
  FpuSteps,     \* bound: the instructions of a program
  FpuClose,     \* may FCR31 be used in EX while a write of it is in DC
  ComiNan,      \* does the host's comieq hold for NaN
  HasRound      \* hosts: those with CEN64_ARCH_HAS_ROUND, FLOOR, CEIL (TRUE) and without

FReg == FWord * FWord

ASSUME VrFloatAssumption ==
  /\ FWord \in Nat /\ FWord % 4 = 0 /\ FWord > 0
  /\ FpuSteps \in Nat
  /\ {FpuClose, ComiNan} \cup HasRound \subseteq BOOLEAN

VARIABLES
  fpu,     \* the registers, the latches behind EX, memory and the host's rounding
  fisa     \* history: the same program, an instruction at a time

floatVars == <<fpu, fisa>>

\* Registers: the first CP1 registers, a general one, FCR31, FCR0 and R0.
FprNumbers == 0 .. 3
GPR == 4
FCR31 == 5
FCR0 == 6
ZERO == 7

\* The revision in FCR0, 0xa00 in the code.
FpuRevision == 2

FLo(x) == x % FWord
FHi(x) == x \div FWord
FSex(w) == IF w >= FWord \div 2 THEN FReg - FWord + w ELSE w
FSigned(x, base) == IF x >= base \div 2 THEN x - base ELSE x

NaN(base) == base - 1
Halves(x, base) == x - (base \div 2)

\* The host's arithmetic.
HostSum(x, y, base) == IF NaN(base) \in {x, y} THEN NaN(base) ELSE (x + y) % NaN(base)

-----------------------------------------------------------------------------
(***************************************************************************)
(* The host's comparisons: comiss sets zf, pf and cf from its operands.    *)
(***************************************************************************)
comiss(x, y, base) ==
  LET un == NaN(base) \in {x, y} IN [zf |-> un \/ x = y, pf |-> un, cf |-> un \/ x < y]

fpu_cmp_f(fs, ft, base) == FALSE
fpu_cmp_eq(fs, ft, base) == LET f == comiss(ft, fs, base) IN f.zf /\ ~ f.pf
fpu_cmp_olt(fs, ft, base) == LET f == comiss(ft, fs, base) IN ~ f.cf /\ ~ f.zf /\ ~ f.pf
fpu_cmp_ole(fs, ft, base) == LET f == comiss(ft, fs, base) IN ~ f.cf /\ ~ f.pf
fpu_cmp_un(fs, ft, base) == comiss(ft, fs, base).pf

\* comieq, comilt and comile: the compiler's, with its own idea of NaN.
ComiAccepts(f) == ComiNan \/ ~ f.pf
fpu_cmp_ueq(fs, ft, base) == LET f == comiss(fs, ft, base) IN f.zf /\ ComiAccepts(f)
fpu_cmp_ult(fs, ft, base) == LET f == comiss(fs, ft, base) IN f.cf /\ ComiAccepts(f)
fpu_cmp_ule(fs, ft, base) == LET f == comiss(fs, ft, base) IN (f.cf \/ f.zf) /\ ComiAccepts(f)

FpuCompare(pred, fs, ft, base) ==
  CASE pred = "f" -> fpu_cmp_f(fs, ft, base)
    [] pred = "eq" -> fpu_cmp_eq(fs, ft, base)
    [] pred = "olt" -> fpu_cmp_olt(fs, ft, base)
    [] pred = "ole" -> fpu_cmp_ole(fs, ft, base)
    [] pred = "un" -> fpu_cmp_un(fs, ft, base)
    [] pred = "ueq" -> fpu_cmp_ueq(fs, ft, base)
    [] pred = "ult" -> fpu_cmp_ult(fs, ft, base)
    [] pred = "ule" -> fpu_cmp_ule(fs, ft, base)

Bit23(fcr, condition) == (fcr \div 2) * 2 + IF condition THEN 1 ELSE 0
Condition(fcr) == fcr % 2 = 1

(***************************************************************************)
(* Rounding n halves in the host's mode.                                   *)
(***************************************************************************)
HostRound(n, mode) ==
  LET below == n \div 2 IN
  CASE n % 2 = 0 -> below
    [] n % 2 = 1 /\ mode = "neginf" -> below
    [] n % 2 = 1 /\ mode = "posinf" -> below + 1
    [] n % 2 = 1 /\ mode = "tozero" -> IF n < 0 THEN below + 1 ELSE below
    [] n % 2 = 1 /\ mode = "nearest" -> IF below % 2 = 0 THEN below ELSE below + 1

\* Conversion in the mode that the host is in, and the instructions that round
\* to an integer first, in a mode of their own.
fpu_cvt(n, host) == HostRound(n, host)
fpu_ceil(n, host) == fpu_cvt(2 * HostRound(n, "posinf"), host)
fpu_floor(n, host) == fpu_cvt(2 * HostRound(n, "neginf"), host)
fpu_round(n, host) == fpu_cvt(2 * HostRound(n, "nearest"), host)
fpu_trunc(n, host) == HostRound(n, "tozero")

RoundModes == [ROUND |-> "nearest", FLOOR |-> "neginf", CEIL |-> "posinf"]

\* Without an instruction of the host's: set the mode, convert, put it back.
ConvertInMode(op, n, host) == [value |-> fpu_cvt(n, RoundModes[op]), host |-> host]

FpuConvert(op, n, host, hasRound) ==
  IF op \in DOMAIN RoundModes /\ ~ hasRound THEN ConvertInMode(op, n, host)
  ELSE [value |-> CASE op = "ROUND" -> fpu_round(n, host)
                    [] op = "FLOOR" -> fpu_floor(n, host)
                    [] op = "CEIL" -> fpu_ceil(n, host)
                    [] op = "TRUNC" -> fpu_trunc(n, host)
                    [] op = "CVT" -> fpu_cvt(n, host),
        host |-> host]

-----------------------------------------------------------------------------
(***************************************************************************)
(* EX. An instruction is a record: op, fmt, and the registers fs, ft, fd.  *)
(***************************************************************************)
FEven(n) == n - (n % 2)

\* Without Status.FR only even registers are read.
FpuSource(s, n) == IF s.fr THEN n ELSE FEven(n)

\* vr4300->regs with what DC has just latched.
FForwarded(s, r) == IF s.dcwb.dest = r THEN s.dcwb.result ELSE s.regs[r]

FSource(s, n) == FForwarded(s, FpuSource(s, n))

FResult(s, dest, result) == [s EXCEPT !.exdc = [@ EXCEPT !.dest = dest, !.result = result]]

Arithmetic(s, i) ==
  LET fs == FSource(s, i.fs)
      ft == FSource(s, i.ft)
  IN FResult(s, i.fd, IF i.fmt = "S" THEN HostSum(FLo(fs), FLo(ft), FWord) ELSE HostSum(fs, ft, FReg))

VR4300_CP1_MOV(s, i) == FResult(s, i.fd, FSource(s, i.fs))

\* The comparison takes the rest of FCR31 from the register file.
Compare(s, i) ==
  LET fs == FSource(s, i.fs)
      ft == FSource(s, i.ft)
  IN FResult(s, FCR31, Bit23(s.regs[FCR31],
       IF i.fmt = "S" THEN FpuCompare(i.op, FLo(fs), FLo(ft), FWord)
       ELSE FpuCompare(i.op, fs, ft, FReg)))

\* To words W or longs L: the number in s, a single or a double.
ToInteger(s, i) ==
  LET fs == FSource(s, i.fs)
      n == IF i.fmt = "S" THEN Halves(FLo(fs), FWord) ELSE Halves(fs, FReg)
      c == FpuConvert(i.op, n, s.host, s.hasRound)
  IN [FResult(s, i.fd, c.value % (IF i.to = "W" THEN FWord ELSE FReg)) EXCEPT !.host = c.host]

\* To singles or doubles, from each other, words or longs.
NumberOf(fs, fmt) ==
  CASE fmt = "S" -> Halves(FLo(fs), FWord) [] fmt = "D" -> Halves(fs, FReg)
    [] fmt = "W" -> 2 * FSigned(FLo(fs), FWord) [] fmt = "L" -> 2 * FSigned(fs, FReg)
VR4300_CP1_CVT_D(s, i) == FResult(s, i.fd, NumberOf(FSource(s, i.fs), i.fmt) + (FReg \div 2))
VR4300_CP1_CVT_S(s, i) == FResult(s, i.fd, NumberOf(FSource(s, i.fs), i.fmt) + (FWord \div 2))

VR4300_BC1(s) == [s EXCEPT !.taken = Condition(FForwarded(s, FCR31))]

\* What waits in DC is taken, whichever register is read. The word that reaches
\* the general register has its sign; CTC1 writes all of its register to FCR31.
VR4300_CFC1(s, i) ==
  FResult(s, GPR, FSex(FLo(IF s.dcwb.dest = FCR31 THEN s.dcwb.result ELSE s.regs[i.fs])))
VR4300_CTC1(s) == FResult(s, FCR31, FForwarded(s, GPR))

VR4300_DMFC1(s, i) == FResult(s, GPR, FSource(s, i.fs))
VR4300_DMTC1(s, i) == FResult(s, i.fs, FForwarded(s, GPR))

VR4300_MFC1(s, i) ==
  LET fs == FSource(s, i.fs)
  IN FResult(s, GPR, FSex(IF ~ s.fr /\ i.fs % 2 = 1 THEN FHi(fs) ELSE FLo(fs)))

\* A word beside the other word of the pair.
Merged(s, n, old, w) ==
  FResult(s, FEven(n), IF n % 2 = 1 THEN w * FWord + FLo(old) ELSE FHi(old) * FWord + w)

VR4300_MTC1(s, i) ==
  LET rt == FForwarded(s, GPR)
  IN IF s.fr THEN FResult(s, i.fs, FSex(FLo(rt))) ELSE Merged(s, i.fs, FSource(s, i.fs), FLo(rt))

\* The part of the register that stays is in the result, the word is added by
\* DC, shifted to its place.
VR4300_LWC1(s, i) ==
  LET ft == FSource(s, i.ft)
      loads == [s EXCEPT !.exdc.request = "read", !.exdc.size = 4]
  IN IF s.fr THEN FResult([loads EXCEPT !.exdc.postshift = 1], i.ft, 0)
     ELSE FResult([loads EXCEPT !.exdc.postshift = IF i.ft % 2 = 1 THEN FWord ELSE 1],
                  FEven(i.ft), IF i.ft % 2 = 1 THEN FLo(ft) ELSE ft - FLo(ft))
VR4300_LDC1(s, i) ==
  FResult([s EXCEPT !.exdc.request = "read", !.exdc.size = 8, !.exdc.postshift = 1], i.ft, 0)

FStored(s, size, data) ==
  [s EXCEPT !.exdc = [@ EXCEPT !.request = "write", !.size = size, !.data = data]]
VR4300_SWC1(s, i) ==
  LET ft == FSource(s, i.ft) IN FStored(s, 4, IF ~ s.fr /\ i.ft % 2 = 1 THEN FHi(ft) ELSE ft)
VR4300_SDC1(s, i) == FStored(s, 8, FSource(s, i.ft))

Predicates == {"f", "un", "eq", "ueq", "olt", "ult", "ole", "ule"}
Conversions == {"ROUND", "FLOOR", "CEIL", "TRUNC", "CVT"}

FpuExecute(old, i) ==
  LET s == [old EXCEPT !.exdc = [@ EXCEPT !.dest = ZERO, !.result = 0, !.request = "none"]] IN
  CASE i.op = "nop" -> s
    [] i.op = "ADD" -> Arithmetic(s, i)
    [] i.op = "MOV" -> VR4300_CP1_MOV(s, i)
    [] i.op \in Predicates -> Compare(s, i)
    [] i.op \in Conversions -> ToInteger(s, i)
    [] i.op = "CVT_D" -> VR4300_CP1_CVT_D(s, i)
    [] i.op = "CVT_S" -> VR4300_CP1_CVT_S(s, i)
    [] i.op = "BC1" -> VR4300_BC1(s)
    [] i.op = "CFC1" -> VR4300_CFC1(s, i)
    [] i.op = "CTC1" -> VR4300_CTC1(s)
    [] i.op = "DMFC1" -> VR4300_DMFC1(s, i)
    [] i.op = "DMTC1" -> VR4300_DMTC1(s, i)
    [] i.op = "MFC1" -> VR4300_MFC1(s, i)
    [] i.op = "MTC1" -> VR4300_MTC1(s, i)
    [] i.op = "LWC1" -> VR4300_LWC1(s, i)
    [] i.op = "LDC1" -> VR4300_LDC1(s, i)
    [] i.op = "SWC1" -> VR4300_SWC1(s, i)
    [] i.op = "SDC1" -> VR4300_SDC1(s, i)

-----------------------------------------------------------------------------
(***************************************************************************)
(* DC and WB. Memory is one doubleword; words are accessed in its first.   *)
(***************************************************************************)
FpuAccess(s) ==
  LET e == s.exdc
      read == IF e.size = 8 THEN s.mem ELSE FHi(s.mem)
  IN CASE e.request = "none" -> s
       [] e.request = "read" -> [s EXCEPT !.dcwb.result = @ + read * e.postshift]
       [] e.request = "write" ->
            [s EXCEPT !.mem = IF e.size = 8 THEN e.data ELSE FLo(e.data) * FWord + FLo(@)]

FpuDc(s) == FpuAccess([s EXCEPT !.dcwb = [dest |-> s.exdc.dest, result |-> s.exdc.result]])
FpuWb(s) == [s EXCEPT !.regs[s.dcwb.dest] = IF s.dcwb.dest = ZERO THEN 0 ELSE s.dcwb.result]

-----------------------------------------------------------------------------
(***************************************************************************)
(* The architecture.                                                       *)
(***************************************************************************)
RefReg(a, n) == IF a.fr THEN a.f[n] ELSE a.f[n + 1] * FWord + a.f[n]
RefWord(a, n) == IF a.fr THEN FLo(a.f[n]) ELSE a.f[n]
RefSetReg(a, n, x) ==
  IF a.fr THEN [a EXCEPT !.f[n] = x] ELSE [a EXCEPT !.f[n] = FLo(x), !.f[n + 1] = FHi(x)]
RefSetWord(a, n, w, high) == [a EXCEPT !.f[n] = IF a.fr THEN high * FWord + w ELSE w]

RefHolds(pred, x, y, base) ==
  LET un == NaN(base) \in {x, y} IN
  CASE pred \in {"f", "un"} -> pred = "un" /\ un
    [] pred \in {"eq", "olt", "ole"} -> ~ un /\ \/ x = y /\ pred # "olt"
                                                \/ x < y /\ pred # "eq"
    [] OTHER -> \/ un
                \/ x = y /\ pred # "ult"
                \/ x < y /\ pred # "ueq"

\* The integer that an instruction asks for: among those around n halves.
RefInteger(op, n) ==
  CHOOSE z \in (0 - FReg) .. FReg :
    CASE op = "FLOOR" -> 2 * z <= n /\ n < 2 * z + 2
      [] op = "CEIL" -> n <= 2 * z /\ 2 * z - 2 < n
      [] op = "TRUNC" -> IF n >= 0 THEN 2 * z <= n /\ n < 2 * z + 2 ELSE n <= 2 * z /\ 2 * z - 2 < n
      [] OTHER -> \/ 2 * z = n
                  \/ z % 2 = 0 /\ 2 * z - n \in {1, -1}

RefValue(a, i) == IF i.fmt \in {"S", "W"} THEN RefWord(a, i.fs) ELSE RefReg(a, i.fs)
RefBase(fmt) == IF fmt \in {"S", "W"} THEN FWord ELSE FReg
RefNumber(a, i) ==
  IF i.fmt \in {"S", "D"} THEN Halves(RefValue(a, i), RefBase(i.fmt))
  ELSE 2 * FSigned(RefValue(a, i), RefBase(i.fmt))
RefPair(a, i) == IF i.fmt = "S" THEN <<RefWord(a, i.fs), RefWord(a, i.ft)>>
                 ELSE <<RefReg(a, i.fs), RefReg(a, i.ft)>>

RefExecute(a, i) ==
  LET base == RefBase(i.fmt)
      pair == RefPair(a, i)
  IN CASE i.op = "nop" -> a
       [] i.op = "ADD" -> RefSetReg(a, i.fd, HostSum(pair[1], pair[2], base))
       [] i.op = "MOV" -> RefSetReg(a, i.fd, RefReg(a, i.fs))
       [] i.op \in Predicates -> [a EXCEPT !.cond = RefHolds(i.op, pair[1], pair[2], base)]
       [] i.op \in Conversions ->
            RefSetReg(a, i.fd, RefInteger(i.op, RefNumber(a, i)) % RefBase(i.to))
       [] i.op = "CVT_D" -> RefSetReg(a, i.fd, RefNumber(a, i) + (FReg \div 2))
       [] i.op = "CVT_S" -> RefSetReg(a, i.fd, RefNumber(a, i) + (FWord \div 2))
       [] i.op = "BC1" -> [a EXCEPT !.taken = a.cond]
       [] i.op = "CFC1" -> [a EXCEPT !.gpr = IF i.fs = FCR0 THEN FpuRevision
                                             ELSE FSex(2 * a.rm + IF a.cond THEN 1 ELSE 0)]
       [] i.op = "CTC1" -> [a EXCEPT !.rm = FLo(a.gpr) \div 2, !.cond = a.gpr % 2 = 1]
       [] i.op = "DMFC1" -> [a EXCEPT !.gpr = RefReg(a, i.fs)]
       [] i.op = "DMTC1" -> RefSetReg(a, i.fs, a.gpr)
       [] i.op = "MFC1" -> [a EXCEPT !.gpr = FSex(RefWord(a, i.fs))]
       [] i.op = "MTC1" -> RefSetWord(a, i.fs, FLo(a.gpr), FHi(FSex(FLo(a.gpr))))
       [] i.op = "LWC1" -> RefSetWord(a, i.ft, FHi(a.mem), 0)
       [] i.op = "LDC1" -> RefSetReg(a, i.ft, a.mem)
       [] i.op = "SWC1" -> [a EXCEPT !.mem = RefWord(a, i.ft) * FWord + FLo(@)]
       [] i.op = "SDC1" -> [a EXCEPT !.mem = RefReg(a, i.ft)]

\* What the architecture defines: even registers for numbers without Status.FR,
\* and numbers that the other format has.
FpuDefined(a, i) ==
  /\ ~ a.fr /\ i.op \notin {"MTC1", "MFC1", "LWC1", "SWC1", "CFC1"} =>
       \A n \in {i.fs, i.ft, i.fd} : n % 2 = 0
  /\ i.op \in Conversions =>
       /\ RefValue(a, i) # NaN(RefBase(i.fmt))
       /\ LET half == RefBase(i.to) \div 2 IN RefInteger(i.op, RefNumber(a, i)) \in (0 - half) .. (half - 1)
  /\ i.op \in {"CVT_D", "CVT_S"} =>
       LET to == IF i.op = "CVT_D" THEN FReg ELSE FWord IN
       /\ i.fmt \in {"S", "D"} => RefValue(a, i) # NaN(RefBase(i.fmt))
       /\ RefNumber(a, i) + (to \div 2) \in 0 .. NaN(to) - 1

-----------------------------------------------------------------------------
\* A write of FCR31 is in DC when the instruction is in EX, and the
\* instruction is not BC1.
FpuTooClose(s, i) ==
  /\ s.exdc.dest = FCR31
  /\ \/ i.op \in Predicates /\ s.last = "CTC1"
     \/ i.op = "CFC1" /\ i.fs = FCR0

FloatInit ==
  \E fr \in BOOLEAN, hasRound \in HasRound, low \in BOOLEAN :
    LET word(n) == (2 * n + IF low THEN 1 ELSE FWord - 1) % FWord
        mem == IF low THEN FWord + 2 ELSE FReg - 2
    IN
    /\ fpu = [regs |-> [r \in FprNumbers \cup {GPR, FCR31, FCR0, ZERO} |->
                 IF r \in {FCR31, ZERO} THEN 0
                 ELSE IF r = FCR0 THEN FpuRevision
                 ELSE IF r = GPR THEN 3
                 ELSE IF fr THEN (3 * r + 1) * FWord + word(r)
                 ELSE IF r % 2 = 0 THEN word(r + 1) * FWord + word(r) ELSE 0],
              exdc |-> [dest |-> ZERO, result |-> 0, request |-> "none", size |-> 4,
                        data |-> 0, postshift |-> 1],
              dcwb |-> [dest |-> ZERO, result |-> 0],
              fr |-> fr, mem |-> mem, host |-> "nearest", hasRound |-> hasRound, taken |-> FALSE, last |-> "nop", steps |-> 0]
    /\ fisa = [f |-> [n \in FprNumbers |-> IF fr THEN (3 * n + 1) * FWord + word(n) ELSE word(n)],
               fr |-> fr, gpr |-> 3, rm |-> 0, cond |-> FALSE, mem |-> mem, taken |-> FALSE]

FpuCycle(i) ==
  /\ fpu.steps < FpuSteps
  /\ FpuDefined(fisa, i)
  /\ FpuClose \/ ~ FpuTooClose(fpu, i)
  /\ fpu' = [FpuExecute(FpuDc(FpuWb(fpu)), i) EXCEPT !.last = i.op, !.steps = @ + 1]
  /\ fisa' = RefExecute(fisa, i)

FloatNext == \E i \in FpuOpcodes : FpuCycle(i)

FloatSpec == FloatInit /\ [][FloatNext]_floatVars

-----------------------------------------------------------------------------
FDrained == FpuWb(FpuDc(FpuWb(fpu)))

\* The registers that the program sees, once DC and WB have done their part,
\* are the architecture's: also words loaded or moved one after the other into
\* the halves of a pair, and numbers read right after they are written.
FpuRegistersRight ==
  \A n \in FprNumbers :
    IF fisa.fr THEN FDrained.regs[n] = fisa.f[n]
    ELSE n % 2 = 0 => FDrained.regs[n] = RefReg(fisa, n)

\* So are the general register and memory, which moves and stores give.
FpuMovesRight == FDrained.regs[GPR] = fisa.gpr /\ FDrained.mem = fisa.mem

\* The word of FCR31 keeps the bits that a comparison does not write, and a branch decides
\* on the last comparison, which may still be on its way.
FpuFlagsRight ==
  /\ FLo(FDrained.regs[FCR31]) = 2 * fisa.rm + IF fisa.cond THEN 1 ELSE 0
  /\ fpu.taken = fisa.taken

\* No instruction leaves the host in a rounding mode of its own, in which all
\* arithmetic after it would be done.
HostModeKept == fpu.host = "nearest"
=============================================================================
