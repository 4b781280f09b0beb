------------------------------ MODULE RspVector ------------------------------
(***************************************************************************)
(* One lane of the vector unit of the RSP: the SSE code of arch/x86_64/rsp *)
(* against the arithmetic that its instructions stand for. A lane is an    *)
(* integer of LaneBits bits; a lane that SSE uses as a mask, all ones or   *)
(* all zeroes, is a Boolean. The accumulator has three lanes, hi, md, lo.  *)
(*                                                                         *)
(* A behaviour runs one instruction, or two on the halves of a number, on   *)
(* one choice of operands.                                                 *)
(***************************************************************************)
EXTENDS Integers, Sequences

CONSTANT LaneBits       \* 16: bits in a lane

ASSUME RspVectorAssumption == LaneBits \in Nat \ {0, 1}

VARIABLES
  vec,      \* the instructions, their operands, the accumulator and the flags
  units     \* what each of them gave: result, accumulator, flags

vecVars == <<vec, units>>

M == 2 ^ LaneBits
Half == M \div 2
Lanes == 0 .. M - 1
Signed(x) == IF x >= Half THEN x - M ELSE x
Wrap(x) == x % M
SClamp(x) == IF x < - Half THEN - Half ELSE IF x >= Half THEN Half - 1 ELSE x

(***************************************************************************)
(* The instructions of SSE that the code uses.                             *)
(***************************************************************************)
adds(x, y) == Wrap(SClamp(Signed(x) + Signed(y)))
subs(x, y) == Wrap(SClamp(Signed(x) - Signed(y)))
addsu(x, y) == IF x + y >= M THEN M - 1 ELSE x + y
subsu(x, y) == IF x < y THEN 0 ELSE x - y
mullo(x, y) == Wrap(x * y)
mulhi(x, y) == Wrap((Signed(x) * Signed(y)) \div M)
mulhiu(x, y) == (x * y) \div M
min(x, y) == IF Signed(x) < Signed(y) THEN x ELSE y
max(x, y) == IF Signed(x) < Signed(y) THEN y ELSE x
Ones(mask) == IF mask THEN M - 1 ELSE 0
XorMask(x, mask) == IF mask THEN M - 1 - x ELSE x
Negative(x) == Signed(x) < 0
Minus(x, mask) == Wrap(x - Ones(mask))     \* subtracting a mask adds one

\* The sum went over: it differs from the one that saturates.
Over(sum, saturated) == sum # saturated

-----------------------------------------------------------------------------
(***************************************************************************)
(* Sums and differences. c is the carry of VCO.                            *)
(***************************************************************************)
rsp_vabs(vs, vt) ==
  LET x == XorMask(IF vs = 0 THEN 0 ELSE vt, Negative(vs))
  IN [vd |-> subs(x, Ones(Negative(vs))), lo |-> Minus(x, Negative(vs))]

rsp_vadd(vs, vt, c) ==
  [vd |-> adds(subs(min(vs, vt), Ones(c)), max(vs, vt)),
   lo |-> Minus(Wrap(vs + vt), c)]

rsp_vaddc(vs, vt) == [vd |-> Wrap(vs + vt), sn |-> Over(Wrap(vs + vt), addsu(vs, vt))]

rsp_vsub(vs, vt, c) ==
  LET unsat == Minus(vt, c)
      sat == subs(vt, Ones(c))
  IN [vd |-> adds(subs(vs, sat), Ones(Signed(sat) > Signed(unsat))),
      lo |-> Wrap(vs - unsat)]

rsp_vsubc(vs, vt) ==
  [vd |-> Wrap(vs - vt), eq |-> vs # vt, sn |-> vs # vt /\ subsu(vs, vt) = 0]

(***************************************************************************)
(* Comparisons. eq is VCO's high half, which is on for lanes that differ.  *)
(***************************************************************************)
Merge(le, vs, vt) == IF le THEN vs ELSE vt

rsp_vlt(vs, vt, eq, sign) ==
  LET le == Signed(vs) < Signed(vt) \/ (vs = vt /\ eq /\ sign)
  IN [vd |-> Merge(le, vs, vt), le |-> le]

rsp_vge(vs, vt, eq, sign) ==
  LET le == Signed(vs) > Signed(vt) \/ (vs = vt /\ ~ (eq /\ sign))
  IN [vd |-> Merge(le, vs, vt), le |-> le]

rsp_veq(vs, vt, eq) ==
  LET le == vs = vt /\ ~ eq IN [vd |-> Merge(le, vs, vt), le |-> le]

rsp_vne(vs, vt, eq) ==
  LET le == vs # vt \/ (vs = vt /\ eq) IN [vd |-> Merge(le, vs, vt), le |-> le]

rsp_vch(vs, vt) ==
  LET sign == Negative(vs) # Negative(vt)
      neg == Minus(XorMask(vt, sign), sign)
      diff == Wrap(vs - neg)
      lez == ~ (Signed(diff) > 0)
      gez == Signed(diff) > 0 \/ diff = 0
      ge == IF sign THEN Negative(vt) ELSE gez
      le == IF sign THEN lez ELSE Negative(vt)
      vce == sign /\ diff = M - 1
  IN [vd |-> IF (IF sign THEN le ELSE ge) THEN neg ELSE vs,
      ge |-> ge, le |-> le, eq |-> ~ (diff = 0 \/ vce), sign |-> sign, vce |-> vce]

\* Mutant of rsp_vcl: the comparison ignores VCE.
rsp_vclNoVce(vs, vt, f) ==
  LET neg == Minus(XorMask(vt, f.sign), f.sign)
      diff == Wrap(vs - neg)
      le == IF f.sign /\ ~ f.eq THEN diff = 0 /\ diff = addsu(vs, vt) ELSE f.le
      ge == IF ~ f.sign /\ ~ f.eq THEN subsu(vt, vs) = 0 ELSE f.ge
  IN [vd |-> IF (IF f.sign THEN le ELSE ge) THEN neg ELSE vs, ge |-> ge, le |-> le]

rsp_vcl(vs, vt, f) ==
  LET neg == Minus(XorMask(vt, f.sign), f.sign)
      diff == Wrap(vs - neg)
      ncarry == diff = addsu(vs, vt)
      zero == diff = 0
      leEq == IF f.vce THEN zero \/ ncarry ELSE zero /\ ncarry
      geEq == subsu(vt, vs) = 0
      le == IF f.sign /\ ~ f.eq THEN leEq ELSE f.le
      ge == IF ~ f.sign /\ ~ f.eq THEN geEq ELSE f.ge
  IN [vd |-> IF (IF f.sign THEN le ELSE ge) THEN neg ELSE vs, ge |-> ge, le |-> le]

rsp_vcr(vs, vt) ==
  LET sign == Negative(vs) # Negative(vt)
      le == Negative(Wrap((IF sign THEN vs ELSE 0) + vt))
      ge == min(IF sign THEN M - 1 ELSE vs, vt) = vt
  IN [vd |-> IF (IF sign THEN le ELSE ge) THEN XorMask(vt, sign) ELSE vs,
      ge |-> ge, le |-> le]

-----------------------------------------------------------------------------
(***************************************************************************)
(* Products. acc is [lo, md, hi].                                          *)
(***************************************************************************)
Acc(lo, md, hi) == [lo |-> lo, md |-> md, hi |-> hi]

\* The whole accumulator, and its two upper lanes, as signed numbers.
AccValue(a) == (Signed(a.hi) * M + a.md) * M + a.lo
Upper(a) == Signed(a.hi) * M + a.md

\* packs_epi32 of md and hi.
rsp_sclamp_acc_tomd(a) == Wrap(SClamp(Upper(a)))

rsp_uclamp_acc(val, a) ==
  LET fits == Ones(Negative(a.hi)) = a.hi /\ Negative(a.hi) = Negative(a.md)
  IN IF fits THEN val ELSE Ones(~ Negative(a.hi))

\* The lanes md and hi, when x with sign s is added to md, and a carry to hi.
AddUpper(a, lo, x, s) ==
  LET md == Wrap(a.md + x)
  IN Acc(lo, md, Minus(Wrap(a.hi + s), Over(md, addsu(a.md, x))))

rsp_vmulf_vmulu(unsigned, vs, vt) ==
  LET p == mullo(vs, vt)
      lo == Wrap(p + p)
      md == Wrap(Wrap(2 * mulhi(vs, vt)) + p \div Half + lo \div Half)
      neg == Negative(md)
      hi == Ones(neg /\ vs # vt)
      a == Acc(Wrap(Half + lo), md, hi)
  IN IF unsigned
     THEN [vd |-> IF hi # 0 THEN 0 ELSE IF neg THEN M - 1 ELSE md, acc |-> a]
     ELSE [vd |-> Wrap(md + Ones(vs = vt /\ neg)), acc |-> a]

rsp_vmacf_vmacu(unsigned, vs, vt, a) ==
  LET p == mullo(vs, vt)
      h == mulhi(vs, vt)
      lo == Wrap(a.lo + Wrap(2 * p))
      over == Over(lo, addsu(a.lo, Wrap(2 * p)))
      md == Minus(Wrap(2 * h) + p \div Half, over)
      hi == Minus(Ones(Negative(h)), md = 0 /\ over)
      b == AddUpper(a, lo, md, hi)
  IN IF unsigned
     THEN [vd |-> IF Negative(b.hi) THEN 0
                  ELSE IF Signed(b.hi) > 0 \/ Negative(b.md) THEN M - 1 ELSE b.md,
           acc |-> b]
     ELSE [vd |-> rsp_sclamp_acc_tomd(b), acc |-> b]

rsp_vmadh_vmudh(mac, vs, vt, a) ==
  LET lo == mullo(vs, vt)
      hi == mulhi(vs, vt)
      md == Wrap(a.md + lo)
      b == IF mac THEN Acc(a.lo, md, Wrap(a.hi + Minus(hi, Over(md, addsu(a.md, lo)))))
           ELSE Acc(0, lo, hi)
  IN [vd |-> rsp_sclamp_acc_tomd(b), acc |-> b]

rsp_vmadl_vmudl(mac, vs, vt, a) ==
  LET h == mulhiu(vs, vt)
      lo == Wrap(a.lo + h)
      b == AddUpper(a, lo, Minus(0, Over(lo, addsu(a.lo, h))), 0)
  IN IF mac THEN [vd |-> rsp_uclamp_acc(lo, b), acc |-> b]
     ELSE [vd |-> h, acc |-> Acc(h, 0, 0)]

\* A signed times an unsigned lane, from the product of the unsigned ones: the
\* signed one, if it is negative, takes the other away from the upper half.
Mixed(signed, unsigned) ==
  Wrap(mulhiu(signed, unsigned) - (IF Negative(signed) THEN unsigned ELSE 0))

MixedAccumulate(vs, vt, h, a) ==
  LET lo == Wrap(a.lo + mullo(vs, vt))
      hi == Minus(h, Over(lo, addsu(a.lo, mullo(vs, vt))))
  IN AddUpper(a, lo, hi, Ones(Negative(hi)))

rsp_vmadm_vmudm(mac, vs, vt, a) ==
  LET h == Mixed(vs, vt)
      b == MixedAccumulate(vs, vt, h, a)
  IN IF mac THEN [vd |-> rsp_sclamp_acc_tomd(b), acc |-> b]
     ELSE [vd |-> h, acc |-> Acc(mullo(vs, vt), h, Ones(Negative(h)))]

rsp_vmadn_vmudn(mac, vs, vt, a) ==
  LET h == Mixed(vt, vs)
      b == MixedAccumulate(vs, vt, h, a)
  IN IF mac THEN [vd |-> rsp_uclamp_acc(b.lo, b), acc |-> b]
     ELSE [vd |-> mullo(vs, vt), acc |-> Acc(mullo(vs, vt), h, Ones(Negative(h)))]

-----------------------------------------------------------------------------
(***************************************************************************)
(* The instructions of rsp/vfunctions.c, on the lane's accumulator and     *)
(* flags: VCO is co and ne, VCC is le and ge, VCE is ce.                   *)
(***************************************************************************)
Lo(u, lo, vd) == [u EXCEPT !.acc.lo = lo, !.vd = vd]
NoVco(u) == [u EXCEPT !.co = FALSE, !.ne = FALSE]

RSP_VABS(u, vs, vt) == LET r == rsp_vabs(vs, vt) IN Lo(u, r.lo, r.vd)

RSP_VADD(u, vs, vt) == LET r == rsp_vadd(vs, vt, u.co) IN NoVco(Lo(u, r.lo, r.vd))
RSP_VSUB(u, vs, vt) == LET r == rsp_vsub(vs, vt, u.co) IN NoVco(Lo(u, r.lo, r.vd))

RSP_VADDC(u, vs, vt) ==
  LET r == rsp_vaddc(vs, vt)
  IN [Lo(u, r.vd, r.vd) EXCEPT !.co = r.sn, !.ne = FALSE]

RSP_VSUBC(u, vs, vt) ==
  LET r == rsp_vsubc(vs, vt)
  IN [Lo(u, r.vd, r.vd) EXCEPT !.co = r.sn, !.ne = r.eq]

Compare(op, vs, vt, u) ==
  CASE op = "VLT" -> rsp_vlt(vs, vt, u.ne, u.co) [] op = "VGE" -> rsp_vge(vs, vt, u.ne, u.co)
    [] op = "VEQ" -> rsp_veq(vs, vt, u.ne)       [] op = "VNE" -> rsp_vne(vs, vt, u.ne)

RSP_VEQ_VGE_VLT_VNE(op, u, vs, vt) ==
  LET r == Compare(op, vs, vt, u)
  IN [NoVco(Lo(u, r.vd, r.vd)) EXCEPT !.ge = FALSE, !.le = r.le]

RSP_VCH(u, vs, vt) ==
  LET r == rsp_vch(vs, vt)
  IN [Lo(u, r.vd, r.vd) EXCEPT !.ge = r.ge, !.le = r.le, !.ne = r.eq, !.co = r.sign,
                               !.ce = r.vce]

RSP_VCL(u, vs, vt) ==
  LET r == rsp_vcl(vs, vt, [ge |-> u.ge, le |-> u.le, eq |-> u.ne, sign |-> u.co, vce |-> u.ce])
  IN [NoVco(Lo(u, r.vd, r.vd)) EXCEPT !.ge = r.ge, !.le = r.le, !.ce = FALSE]

RSP_VCR(u, vs, vt) ==
  LET r == rsp_vcr(vs, vt)
  IN [NoVco(Lo(u, r.vd, r.vd)) EXCEPT !.ge = r.ge, !.le = r.le, !.ce = FALSE]

RSP_VMRG(u, vs, vt) == LET vd == Merge(u.le, vs, vt) IN NoVco(Lo(u, vd, vd))

Multiply(op, vs, vt, a) ==
  CASE op \in {"VMULF", "VMULU"} -> rsp_vmulf_vmulu(op = "VMULU", vs, vt)
    [] op \in {"VMACF", "VMACU"} -> rsp_vmacf_vmacu(op = "VMACU", vs, vt, a)
    [] op \in {"VMUDH", "VMADH"} -> rsp_vmadh_vmudh(op = "VMADH", vs, vt, a)
    [] op \in {"VMUDL", "VMADL"} -> rsp_vmadl_vmudl(op = "VMADL", vs, vt, a)
    [] op \in {"VMUDM", "VMADM"} -> rsp_vmadm_vmudm(op = "VMADM", vs, vt, a)
    [] op \in {"VMUDN", "VMADN"} -> rsp_vmadn_vmudn(op = "VMADN", vs, vt, a)

RSP_VMUL_VMAC(op, u, vs, vt) ==
  LET r == Multiply(op, vs, vt, u.acc) IN [u EXCEPT !.acc = r.acc, !.vd = r.vd]

Products == {"VMULF", "VMULU", "VMUDH", "VMUDL", "VMUDM", "VMUDN"}
Accumulates == {"VMACF", "VMACU", "VMADH", "VMADL", "VMADM", "VMADN"}
Comparisons == {"VLT", "VGE", "VEQ", "VNE"}
Singles == {"VABS", "VADD", "VSUB", "VCR"}

Execute(op, u, vs, vt) ==
  CASE op \in Products \cup Accumulates -> RSP_VMUL_VMAC(op, u, vs, vt)
    [] op \in Comparisons -> RSP_VEQ_VGE_VLT_VNE(op, u, vs, vt)
    [] op = "VABS" -> RSP_VABS(u, vs, vt)   [] op = "VADD" -> RSP_VADD(u, vs, vt)
    [] op = "VADDC" -> RSP_VADDC(u, vs, vt) [] op = "VSUB" -> RSP_VSUB(u, vs, vt)
    [] op = "VSUBC" -> RSP_VSUBC(u, vs, vt) [] op = "VCH" -> RSP_VCH(u, vs, vt)
    [] op = "VCL" -> RSP_VCL(u, vs, vt)     [] op = "VCR" -> RSP_VCR(u, vs, vt)
    [] op = "VMRG" -> RSP_VMRG(u, vs, vt)

-----------------------------------------------------------------------------
(***************************************************************************)
(* The machine: one instruction; or a number of two lanes, by one on each  *)
(* of its halves, the low one first or, with VCH and VCL, last.            *)
(***************************************************************************)
LowHigh == {<<"VADDC", "VADD">>, <<"VSUBC", "VSUB">>} \cup ({"VSUBC"} \X Comparisons \X {"VMRG"})
Clips == <<"VCH", "VCL">>

Cleared == Acc(0, 0, 0)
Unit(a, flags) ==
  [acc |-> a, co |-> flags, ne |-> flags, le |-> flags, ge |-> flags, ce |-> flags, vd |-> 0]
Case(ops, vs, vt, u) == [ops |-> ops, vs |-> vs, vt |-> vt, unit |-> u]

\* Before a pair the flags are what any program left there.
VecInit ==
  /\ units = <<>>
  /\ \E vs, vt \in Lanes :
       \/ \E op \in Products : vec = Case(<<op>>, vs, vt, Unit(Cleared, FALSE))
       \/ \E op \in Accumulates, lo, md, hi \in Lanes :
            vec = Case(<<op>>, vs, vt, Unit(Acc(lo, md, hi), FALSE))
       \/ \E op \in Singles, c \in BOOLEAN : vec = Case(<<op>>, vs, vt, Unit(Cleared, c))
       \/ \E ops \in LowHigh \cup {Clips}, sl, tl \in Lanes, flags \in BOOLEAN :
            vec = Case(ops, vs * M + sl, vt * M + tl, Unit(Cleared, flags))

\* The half of x for the n-th instruction.
Lane(x, n) ==
  IF Len(vec.ops) = 1 THEN x
  ELSE IF (n = 1) = (vec.ops = Clips) THEN x \div M ELSE x % M

VecStep ==
  /\ Len(units) < Len(vec.ops)
  /\ LET n == Len(units) + 1
         u == IF n = 1 THEN vec.unit ELSE units[n - 1]
     IN units' = Append(units, Execute(vec.ops[n], u, Lane(vec.vs, n), Lane(vec.vt, n)))
  /\ UNCHANGED vec

VecSpec == VecInit /\ [][VecStep]_vecVars

-----------------------------------------------------------------------------
Done(ops) == Len(units) = Len(vec.ops) /\ vec.ops[1] \in ops
Op == vec.ops[1]
After == units[Len(units)]
S == Signed(vec.vs)
T == Signed(vec.vt)
WrapAcc(x) == ((x + M * M * Half) % (M * M * M)) - M * M * Half

\* What a product adds to the accumulator, with the rounding of VMULF and VMULU.
Addend ==
  CASE Op \in {"VMULF", "VMULU"} -> 2 * S * T + Half
    [] Op \in {"VMACF", "VMACU"} -> 2 * S * T
    [] Op \in {"VMUDH", "VMADH"} -> S * T * M
    [] Op \in {"VMUDL", "VMADL"} -> (vec.vs * vec.vt) \div M
    [] Op \in {"VMUDM", "VMADM"} -> S * vec.vt
    [] Op \in {"VMUDN", "VMADN"} -> vec.vs * T

\* The accumulator of 48 bits, put together from lanes of 16, holds the exact sum:
\* no carry from one lane to the next is lost, for any operands and any accumulator.
AccumulatorExact ==
  Done(Products \cup Accumulates) =>
    AccValue(After.acc) = WrapAcc(AccValue(vec.unit.acc) + Addend)

\* The result is what the instruction takes from the accumulator, clamped.
ResultClamped ==
  Done(Products \cup Accumulates) =>
    LET u == Upper(After.acc)
        fits == u \in - Half .. Half - 1
    IN After.vd =
         CASE Op \in {"VMULF", "VMACF", "VMUDH", "VMADH", "VMUDM", "VMADM"} -> Wrap(SClamp(u))
           [] Op \in {"VMULU", "VMACU"} ->
                IF u < 0 THEN 0 ELSE IF fits THEN After.acc.md ELSE M - 1
           [] OTHER -> IF fits THEN After.acc.lo ELSE IF u < 0 THEN 0 ELSE M - 1

\* Saturation by two saturating steps gives what saturating once would.
SumsSaturate ==
  Done({"VABS", "VADD", "VSUB"}) =>
    LET c == IF vec.unit.co THEN 1 ELSE 0
        x == CASE Op = "VADD" -> S + T + c
               [] Op = "VSUB" -> S - T - c
               [] Op = "VABS" -> IF S < 0 THEN - T ELSE IF S = 0 THEN 0 ELSE T
    IN After.vd = Wrap(SClamp(x)) /\ After.acc.lo = Wrap(x)

\* Numbers of two lanes.
Wide(x) == IF x >= M * Half THEN x - M * M ELSE x
WS == Wide(vec.vs)
WT == Wide(vec.vt)

\* The carry, borrow or difference that VADDC or VSUBC leaves in VCO makes the next
\* instruction work on the whole number, whatever the flags were before; then the
\* flags are spent, the next sum or comparison starts without any, and VMRG takes
\* what the comparison chose.
PairsExact ==
  Len(vec.ops) > 1 /\ Done({"VADDC", "VSUBC"}) =>
    /\ ~ After.co /\ ~ After.ne
    /\ CASE vec.ops[2] \in {"VADD", "VSUB"} ->
              LET x == IF Op = "VADDC" THEN WS + WT ELSE WS - WT
              IN units[1].vd = Wrap(x) /\ After.vd = Wrap(SClamp(x \div M))
         [] vec.ops[2] = "VLT" -> After.le = (WS < WT)
         [] vec.ops[2] = "VGE" -> After.le = (WS >= WT)
         [] vec.ops[2] = "VEQ" -> After.le = (WS = WT)
         [] vec.ops[2] = "VNE" -> After.le = (WS # WT)
    /\ Len(vec.ops) = 3 => After.vd = (IF After.le THEN vec.vs ELSE vec.vt) \div M

\* VCH and VCL on the halves of a number compare it with the limit in vt, on the
\* side that its sign says, and give the low half of the clipped number.
ClipsExact ==
  Done({"VCH"}) /\ WT >= 0 =>
    IF WS >= 0
    THEN After.ge = (WS >= WT) /\ After.vd = (IF WS >= WT THEN WT ELSE WS) % M
    ELSE After.le = (WS <= - WT) /\ After.vd = (IF WS <= - WT THEN - WT ELSE WS) % M

\* VCR clips against the limit and its complement.
ClipsSingle ==
  Done({"VCR"}) /\ T >= 0 =>
    After.vd = (IF S >= T THEN vec.vt ELSE IF S <= - T - 1 THEN Wrap(- T - 1) ELSE vec.vs)

-----------------------------------------------------------------------------
(***************************************************************************)
(* The divider of the RSP: VRCP and the pair VRCPH, VRCPL, which divides   *)
(* by a number of 32 bits in two instructions, with DIV_IN, DIV_OUT and    *)
(* dp_flag between them, and a result fetched by one more VRCPH.           *)
(* rsp/vfunctions.c and arch/x86_64/rsp/vrcpsq.c, vdivh.c. The square      *)
(* roots go the same way, with the other half of the table.                *)
(***************************************************************************)

CONSTANT DivInputs      \* the lanes of 16 bits that programs divide by

ASSUME RspDivideAssumption == DivInputs \subseteq 0 .. 65535

VARIABLES
  div,      \* struct rsp_cp2: div_in, div_out, dp_flag; lanes of two registers
  asked     \* history: what a program has asked for

divVars == <<div, asked>>

Signed16(x) == IF x >= 32768 THEN x - 65536 ELSE x

\* The table of common/reciprocal.c, its half for VRCP: 2^34 / (i + 512), rounded
\* to 17 bits, whose first is left out; divided in two steps of 32 bits.
rsp_reciprocal_rom(i) ==
  LET n == i + 512
      quotient == (2 ^ 30 \div n) * 16 + ((2 ^ 30 % n) * 16) \div n
  IN IF i = 0 THEN 65535 ELSE ((quotient + 1) \div 256) % 65536

\* The place of the first bit that is on.
Log2(x) == CHOOSE p \in 0 .. 30 : x \div 2 ^ p = 1

\* The nine bits after the first one.
RomIndex(x) ==
  LET p == Log2(x)
  IN (IF p >= 9 THEN x \div 2 ^ (p - 9) ELSE x * 2 ^ (9 - p)) % 512

\* -32768 and what is below are negated without the one that is to be added.
Magnitude(input) ==
  IF input >= 0 THEN input ELSE IF input > -32768 THEN - input ELSE -1 - input

rsp_vrcp(input) ==
  LET data == Magnitude(input)
      result == ((65536 + rsp_reciprocal_rom(RomIndex(data))) * 2 ^ 14) \div 2 ^ Log2(data)
  IN IF data = 0 THEN 2147483647
     ELSE IF input = -32768 THEN -65536
     ELSE IF input < 0 THEN -1 - result ELSE result

\* dp: both the instruction and dp_flag ask for 32 bits.
DivInput(dp, vt) == IF dp THEN Signed16(div.in) * 65536 + vt ELSE Signed16(vt)

\* long: VRCPL. The lower half goes to a lane of VD, the upper one to DIV_OUT.
Divide(long, vt) ==
  LET result == rsp_vrcp(DivInput(long /\ div.dp, vt))
  IN div' = [div EXCEPT !.dp = FALSE, !.out = (result \div 65536) % 65536,
                        !.low = result % 65536]

DivInit ==
  /\ div = [in |-> 0, out |-> 0, dp |-> FALSE, low |-> 0, high |-> 0]
  /\ asked = [upper |-> <<>>, divisor |-> 0, state |-> "nothing"]

RSP_VRCP ==
  \E vt \in DivInputs :
    /\ Divide(FALSE, vt)
    /\ asked' = [upper |-> <<>>, divisor |-> Signed16(vt), state |-> "divided"]

\* After VRCPH it divides by the number that the two lanes make.
RSP_VRCPL ==
  \E vt \in DivInputs :
    /\ Divide(TRUE, vt)
    /\ asked' = [upper |-> <<>>, state |-> "divided",
                 divisor |-> IF asked.upper = <<>> THEN Signed16(vt)
                             ELSE Signed16(asked.upper[1]) * 65536 + vt]

RSP_VRCPH ==
  \E vt \in DivInputs :
    /\ div' = [div EXCEPT !.dp = TRUE, !.in = vt, !.high = div.out]
    /\ asked' = [asked EXCEPT !.upper = <<vt>>,
                 !.state = IF @ = "divided" THEN "fetched" ELSE "nothing"]

DivNext == RSP_VRCP \/ RSP_VRCPL \/ RSP_VRCPH

DivSpec == DivInit /\ [][DivNext]_divVars

-----------------------------------------------------------------------------
\* r is 2^31 / x, to one part in 256, and the nearest number there is for x = 0.
Near(r, x) ==
  LET m == IF x >= 0 THEN x ELSE IF x < -65536 THEN -1 - x ELSE - x
      e == IF x >= 0 THEN r ELSE -1 - r
      q == 2147483647 \div m
  IN IF x = 0 THEN r = 2147483647 ELSE (e - q \in - (q \div 256) - 1 .. q \div 256)

\* The number that a division and the next VRCPH leave in two lanes is the
\* reciprocal of the one asked for, of 16 or of 32 bits: dp_flag and DIV_IN never
\* come from an earlier division, and DIV_OUT is still the last one's.
FetchedRight ==
  asked.state = "fetched" =>
    Near(Signed16(div.high) * 65536 + div.low, asked.divisor)
==============================================================================
