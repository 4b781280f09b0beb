-------------------------- MODULE RspVectorMemory ---------------------------
(***************************************************************************)
(* How vector registers get to and from DMEM: the tables and the functions *)
(* of arch/x86_64/rsp/rsp.c and transpose.c, with the requests that        *)
(* rsp/functions.c makes and MTC2, MFC2 of rsp/cp2.c. Two aligned pieces   *)
(* of DMEM or one are read, shifted, and merged under a mask.              *)
(*                                                                         *)
(* Byte k of a register is its k-th in the guest's order, so that the swap *)
(* of bytes within a lane that the tables make does not show. A behaviour  *)
(* is a short program, on a DMEM and registers whose bytes all differ.     *)
(***************************************************************************)
EXTENDS Integers, Sequences

CONSTANTS
  DmemBytes,    \* 0x1000
  VmAddresses   \* the addresses of loads and stores

ASSUME RspVectorMemoryAssumption ==
  /\ DmemBytes \in Nat \ {0} /\ DmemBytes % 16 = 0
  /\ VmAddresses \subseteq 0 .. DmemBytes - 1

VARIABLES
  vm,       \* DMEM with the first bytes of IMEM; the lanes of eight registers
  vprog,    \* the instructions to come
  vran      \* history: the program, as it was

vmVars == <<vm, vprog, vran>>

Bytes == 0 .. 15
Dmem(a) == a % DmemBytes

\* The keys of the tables, each as the byte that goes to place b; 16 is none.
sll_b2l(n, b) == IF b < n THEN 16 ELSE b - n
\* The last entry of row 1 is one off, on a byte that no mask reaches.
sll_l2b(n, b) == IF n = 1 /\ b = 15 THEN 15 ELSE sll_b2l(n, b)
ror(n, b) == (b + n) % 16
rol(n, b) == (b - n) % 16

\* rsp_bdls_lut: the first bytes. rsp_qr_lut: those from the address on.
Size(op) == CASE op \in {"LBV", "SBV"} -> 1 [] op \in {"LSV", "SSV"} -> 2
              [] op \in {"LLV", "SLV"} -> 4 [] op \in {"LDV", "SDV"} -> 8
bdls_dqm(op) == [b \in 0 .. 16 |-> b < Size(op)]

qr_dqm(offset, quad) == [b \in Bytes |-> (b >= offset) = quad]

Blend(dqm, yes, no) == [b \in Bytes |-> IF dqm[b] THEN yes[b] ELSE no[b]]
Reg(m, reg) == [b \in Bytes |-> m.regs[reg][b]]
WithReg(m, reg, v) == [m EXCEPT !.regs[reg] = v]

\* Where the sixteen bytes that group 1 works on come from: two pieces of eight,
\* the second one around the end of DMEM; or, of an aligned address, one.
Piece(addr) ==
  LET low == addr - (addr % 8)
  IN [b \in Bytes |-> IF b < 8 THEN low + b ELSE Dmem(low + 8) + b - 8]
OnePiece(addr) == addr % 8 = 0

LoadPieces(m, addr) ==
  [b \in Bytes |-> IF b >= 8 /\ OnePiece(addr) THEN 0 ELSE m.mem[Piece(addr)[b]]]
StorePieces(m, addr, data) ==
  [m EXCEPT !.mem =
    [a \in DOMAIN m.mem |->
       IF \E b \in Bytes : Piece(addr)[b] = a /\ (b < 8 \/ ~ OnePiece(addr))
       THEN data[CHOOSE b \in Bytes : Piece(addr)[b] = a] ELSE m.mem[a]]]

rsp_vload_group1(m, op, addr, e, reg) ==
  LET data == LoadPieces(m, addr)
      dqm == [b \in Bytes |-> bdls_dqm(op)[sll_b2l(e, b)]]
      turned == [b \in Bytes |-> data[ror((addr % 8) - e, b)]]
  IN WithReg(m, reg, Blend(dqm, turned, Reg(m, reg)))

rsp_vstore_group1(m, op, addr, e, reg) ==
  LET offset == addr % 8
      dqm == [b \in Bytes |-> bdls_dqm(op)[sll_l2b(offset, b)]]
      turned == [b \in Bytes |-> Reg(m, reg)[ror(e - offset, b)]]
  IN StorePieces(m, addr, Blend(dqm, turned, LoadPieces(m, addr)))

Quadword(addr) == Dmem(addr - (addr % 16))
LoadQuad(m, addr) == [b \in Bytes |-> m.mem[Quadword(addr) + b]]
StoreQuad(m, addr, data) ==
  [m EXCEPT !.mem = [a \in DOMAIN m.mem |->
     IF a \in Quadword(addr) .. Quadword(addr) + 15 THEN data[a - Quadword(addr)] ELSE m.mem[a]]]

rsp_vload_group4(m, op, addr, e, reg) ==
  LET offset == addr % 16
      n == 16 - e + offset
      mask == qr_dqm(offset, op = "LQV")
      data == LoadQuad(m, addr)
  IN WithReg(m, reg, Blend([b \in Bytes |-> mask[ror(n, b)]],
                           [b \in Bytes |-> data[ror(n, b)]], Reg(m, reg)))

rsp_vstore_group4(m, op, addr, e, reg) ==
  LET offset == addr % 16
      n == IF op = "SQV" THEN offset - e ELSE offset
      turned == [b \in Bytes |-> Reg(m, reg)[rol(n, b)]]
  IN StoreQuad(m, addr, Blend(qr_dqm(offset, op = "SQV"), turned, LoadQuad(m, addr)))

\* Packed bytes: one for each lane, in its upper byte, or one bit lower.
LaneOf(v, i) == v[2 * i] * 256 + v[2 * i + 1]
FromLanes(f) == [b \in Bytes |-> IF b % 2 = 0 THEN f[b \div 2] \div 256 ELSE f[b \div 2] % 256]

rsp_vload_group2(m, op, addr, reg) ==
  LET data == LoadPieces(m, addr)
      lane(i) == data[(addr % 8) + i] * (IF op = "LPV" THEN 256 ELSE 128)
  IN WithReg(m, reg, FromLanes([i \in 0 .. 7 |-> lane(i)]))

\* What is stored is not cut at the end of DMEM.
rsp_vstore_group2(m, op, addr, reg) ==
  LET lane(i) == LaneOf(Reg(m, reg), i)
      byte(i) == (lane(i) \div (IF op = "SPV" THEN 256 ELSE 128)) % 256
  IN [m EXCEPT !.mem = [a \in DOMAIN m.mem |->
        IF a \in addr .. addr + 7 THEN byte(a - addr) ELSE m.mem[a]]]

\* A lane to or from each of eight registers. The element is of lanes here.
rsp_ltv(m, addr, e) ==
  [m EXCEPT !.regs =
    [reg \in 0 .. 7 |->
       [b \in Bytes |-> IF b \div 2 = (reg - e) % 8 THEN m.mem[addr + 2 * reg + (b % 2)]
                        ELSE m.regs[reg][b]]]]
rsp_stv(m, addr, e) ==
  [m EXCEPT !.mem = [a \in DOMAIN m.mem |->
     IF a \in addr .. addr + 15
     THEN LET i == (a - addr) \div 2 IN m.regs[(i + e) % 8][2 * i + ((a - addr) % 2)]
     ELSE m.mem[a]]]

\* Two bytes from the element on; the second one of element 15 is the first one of
\* the next register.
SecondAt(reg, e) == IF e = 15 THEN <<reg + 1, 0>> ELSE <<reg, e + 1>>

RSP_MTC2(m, reg, e, rt) ==
  LET two == SecondAt(reg, e)
  IN [m EXCEPT !.regs[reg][e] = rt[1], !.regs[two[1]][two[2]] = rt[2]]
RSP_MFC2(m, reg, e) ==
  LET two == SecondAt(reg, e) IN <<m.regs[reg][e], m.regs[two[1]][two[2]]>>

-----------------------------------------------------------------------------
Group1Loads == {"LBV", "LSV", "LLV", "LDV"}
Group1Stores == {"SBV", "SSV", "SLV", "SDV"}
StoreOf(op) == CASE op = "LBV" -> "SBV" [] op = "LSV" -> "SSV" [] op = "LLV" -> "SLV"
                 [] op = "LDV" -> "SDV" [] op = "LPV" -> "SPV" [] op = "LUV" -> "SUV"

\* The address of a request is that of the instruction, around the end of DMEM.
VmExecute(m, i) ==
  LET addr == Dmem(i.addr) IN
  CASE i.op \in Group1Loads   -> rsp_vload_group1(m, i.op, addr, i.e, i.reg)
    [] i.op \in Group1Stores  -> rsp_vstore_group1(m, i.op, addr, i.e, i.reg)
    [] i.op \in {"LPV", "LUV"} -> rsp_vload_group2(m, i.op, addr, i.reg)
    [] i.op \in {"SPV", "SUV"} -> rsp_vstore_group2(m, i.op, addr, i.reg)
    [] i.op \in {"LQV", "LRV"} -> rsp_vload_group4(m, i.op, addr, i.e, i.reg)
    [] i.op \in {"SQV", "SRV"} -> rsp_vstore_group4(m, i.op, addr, i.e, i.reg)
    [] i.op = "LTV"           -> rsp_ltv(m, addr, i.e)
    [] i.op = "STV"           -> rsp_stv(m, addr, i.e)
    [] i.op = "MTC2"          -> RSP_MTC2(m, i.reg, i.e, <<254, 255>>)

Do(op, addr, e, reg) == [op |-> op, addr |-> addr, e |-> e, reg |-> reg]

\* The bytes of DMEM and of the registers before the program.
Before ==
  [mem |-> [a \in 0 .. DmemBytes + 15 |-> a % 128],
   regs |-> [reg \in 0 .. 7 |-> [b \in Bytes |-> 128 + ((8 * reg + b) % 126)]]]

\* A matrix of 8 by 8 is stored by diagonals, and loaded by them again.
Diagonals(op) == [k \in 1 .. 8 |-> Do(op, 16 * (k - 1), IF op = "STV" THEN k - 1 ELSE (9 - k) % 8, 0)]

Programs ==
       {<<Do(op, a, e, 0)>> : op \in Group1Loads \cup Group1Stores, a \in VmAddresses, e \in Bytes}
  \cup {<<Do(StoreOf(op), a, e, 0), Do(op, a, e, 1)>> : op \in Group1Loads, a \in VmAddresses, e \in Bytes}
  \cup {<<Do(op, a, 0, 0), Do(StoreOf(op), a, 0, 0)>> : op \in {"LPV", "LUV"}, a \in VmAddresses}
  \cup {<<Do("LQV", a, 0, 0), Do("LRV", a + 16, 0, 0)>> : a \in VmAddresses}
  \cup {<<Do("SQV", a, 0, 0), Do("SRV", a + 16, 0, 0)>> : a \in VmAddresses}
  \cup {<<Do("SQV", a, e, 0), Do("LQV", a, e, 1)>> : a \in VmAddresses, e \in Bytes}
  \cup {<<Do("MTC2", 0, e, reg)>> : e \in Bytes, reg \in 0 .. 6}
  \cup {Diagonals("STV") \o Diagonals("LTV")}

VmInit == vm = Before /\ vprog \in Programs /\ vran = vprog

VmStep ==
  /\ vprog # <<>>
  /\ vm' = VmExecute(vm, Head(vprog))
  /\ vprog' = Tail(vprog)
  /\ UNCHANGED vran

VmSpec == VmInit /\ [][VmStep]_vmVars

-----------------------------------------------------------------------------
Ran(ops) == vprog = <<>> /\ vran[1].op \in ops
First == vran[1]
Twice(ops) == Len(vran) = 2 /\ Ran(ops)

\* A load of 1 to 8 bytes puts the bytes at the address, around the end of DMEM,
\* into the register from the element on, up to its end; a store takes them from
\* there, around the end of the register. No other byte changes.
BytesRight ==
  Len(vran) = 1 =>
    /\ Ran(Group1Loads) =>
         /\ vm.mem = Before.mem
         /\ \A k \in Bytes : vm.regs[0][k] =
              IF k \in First.e .. First.e + Size(First.op) - 1
              THEN Before.mem[Dmem(First.addr + k - First.e)] ELSE Before.regs[0][k]
    /\ Ran(Group1Stores) =>
         /\ vm.regs = Before.regs
         /\ \A a \in DOMAIN vm.mem : vm.mem[a] =
              LET i == (a - First.addr) % DmemBytes
              IN IF a < DmemBytes /\ i < Size(First.op)
                 THEN Before.regs[0][(First.e + i) % 16] ELSE Before.mem[a]

\* A vector at any address is loaded, or stored, by two instructions: one takes
\* the bytes up to the end of a quadword and the other the rest.
UnalignedWhole ==
  /\ Twice({"LQV"}) /\ vran[2].op = "LRV" =>
       \A k \in Bytes : vm.regs[0][k] = Before.mem[Dmem(First.addr + k)]
  /\ Twice({"SQV"}) /\ vran[2].op = "SRV" =>
       \A k \in Bytes : vm.mem[Dmem(First.addr + k)] = Before.regs[0][k]

\* What is stored comes back when it is loaded the same way.
ComesBack ==
  /\ Twice(Group1Stores) =>
       \A k \in First.e .. First.e + Size(First.op) - 1 :
         k \in Bytes => vm.regs[1][k] = Before.regs[0][k]
  /\ Twice({"LPV", "LUV"}) /\ First.addr <= DmemBytes - 8 => vm.mem = Before.mem
  /\ Twice({"SQV"}) /\ vran[2].op = "LQV" =>
       \A k \in Bytes : (k - First.e) % 16 < 16 - (First.addr % 16) =>
         vm.regs[1][k] = Before.regs[0][k]

\* Eight STV and eight LTV transpose eight registers, lane by lane.
Transposes ==
  Ran({"STV"}) =>
    \A r, i \in 0 .. 7, b \in 0 .. 1 : vm.regs[r][2 * i + b] = Before.regs[i][2 * r + b]

\* MFC2 reads what MTC2 wrote.
MovesBack == Ran({"MTC2"}) => RSP_MFC2(vm, First.reg, First.e) = <<254, 255>>
=============================================================================
