----------------------------- MODULE RspThreads ------------------------------
(***************************************************************************)
(* SP_STATUS and the semaphore between the two threads of the -multithread *)
(* mode: the CPU's, which writes the registers through rsp/interface.c,    *)
(* and the RSP's, which runs MTC0, MFC0 and BREAK. rsp_status_write is     *)
(* taken apart into its loads, stores and its compare-and-swap; a cycle of *)
(* the RSP into its stages. What the RSP executes is any instruction.      *)
(***************************************************************************)
EXTENDS RspPipeline, FiniteSets, Integers

CONSTANTS
  CpuWrites,    \* words the CPU writes to SP_STATUS
  RspWrites,    \* words the RSP's program writes to SP_STATUS
  SetsPc        \* whether the CPU also writes SP_PC

VARIABLES
  status,       \* SP_STATUS
  sp_intr,      \* MI_INTR_SP in the MI, whose own updates are atomic here
  reserved,     \* SP_RESERVED is 1
  brk,          \* dfwb_latch asks for HALT and BROKE
  thread,       \* where each thread is, and its locals
  holders,      \* history: who has read 0 from SP_RESERVED and not given it back
  possible,     \* history: the outcomes of the writes so far, in any order
  owed          \* history: what the RSP's last interrupt is, see Owing

threadVars == <<status, sp_intr, reserved, brk, thread, holders, possible, owed>>

ThreadNames == {"cpu", "rsp"}

HaltBroke == Set({"HALT", "BROKE"})

\* out: between two cycles, or in other code. wb, ex, tail: in a cycle.
\* load, act, intr, cas: in rsp_status_write, which goes on at back.
At(pc) == [pc |-> pc, rt |-> {}, prev |-> {}, back |-> pc]
Writing(rt, back) == [pc |-> "load", rt |-> rt, prev |-> {}, back |-> back]
InWrite(t) == thread[t].pc \in {"load", "act", "intr", "cas"}

-----------------------------------------------------------------------------
(***************************************************************************)
(* History: every order in which the writes that run, each at one moment   *)
(* between its call and its return, may have taken place.                  *)
(***************************************************************************)
Outcome(s, i, did) == [status |-> s, intr |-> i, did |-> did]

Apply(c, t, rt) ==
  Outcome(StatusAfter(c.status, rt), IntrAfter(c.intr, rt), c.did \cup {t})

\* Those of cs, and those where one or both of the pending writes came next.
Closure(cs, pending) ==
  LET Once(xs) == xs \cup UNION {{Apply(c, t, pending[t]) : t \in DOMAIN pending \ c.did} : c \in xs}
  IN Once(Once(cs))

PendingWrites == [t \in {u \in ThreadNames : InWrite(u)} |-> thread[t].rt]

\* An interrupt the RSP raises is "due" until the CPU begins to write CLR_INTR,
\* unless such a write ran at the same time. It is "coming" while it is written.
Clears(rt) == <<"clr", "INTR">> \in rt
Raises(rt) == <<"set", "INTR">> \in rt /\ ~ Clears(rt)
CpuClears == InWrite("cpu") /\ Clears(thread["cpu"].rt)

Owing(t, rt) ==
  IF t = "cpu" THEN (IF Clears(rt) THEN "none" ELSE owed)
  ELSE IF owed = "none" /\ Raises(rt) /\ ~ CpuClears THEN "coming"
  ELSE IF Clears(rt) THEN "none" ELSE owed

Called(t, rt) ==
  /\ owed' = Owing(t, rt)
  /\ possible' = Closure(possible, [u \in DOMAIN PendingWrites \cup {t} |-> IF u = t THEN rt ELSE PendingWrites[u]])
Returned(t) ==
  /\ owed' = IF t = "rsp" /\ owed = "coming" THEN "due" ELSE owed
  /\ possible' = {[c EXCEPT !.did = @ \ {t}] : c \in {d \in possible : t \in d.did}}

-----------------------------------------------------------------------------
ThreadInit ==
  /\ status = {"HALT"} /\ sp_intr = FALSE /\ reserved = FALSE /\ brk = FALSE
  /\ thread = [t \in ThreadNames |-> At("out")]
  /\ holders = {} /\ owed = "none"
  /\ possible = {Outcome({"HALT"}, FALSE, {})}

(***************************************************************************)
(* rsp_status_write, by thread t.                                          *)
(***************************************************************************)
LoadStatus(t) ==
  /\ thread[t].pc = "load"
  /\ thread' = [thread EXCEPT ![t].pc = "act", ![t].prev = status]
  /\ UNCHANGED <<status, sp_intr, reserved, brk, holders, possible, owed>>

\* rsp_pipeline_init, before it is known whether the swap will succeed.
RestartPipeline(t) ==
  /\ thread[t].pc = "act"
  /\ brk' = (brk /\ ~ Restarts(thread[t].prev, thread[t].rt))
  /\ thread' = [thread EXCEPT ![t].pc = "intr"]
  /\ UNCHANGED <<status, sp_intr, reserved, holders, possible, owed>>

\* So is the interrupt, each time round the loop.
WriteInterrupt(t) ==
  /\ thread[t].pc = "intr"
  /\ sp_intr' = IntrAfter(sp_intr, thread[t].rt)
  /\ thread' = [thread EXCEPT ![t].pc = "cas"]
  /\ UNCHANGED <<status, reserved, brk, holders, possible, owed>>

\* Mutant of Swaps: a plain store.
SwapsAlways(t) == thread[t].prev = thread[t].prev

Swaps(t) == status = thread[t].prev

SwapStatus(t) ==
  /\ thread[t].pc = "cas"
  /\ Swaps(t)
  /\ status' = StatusAfter(thread[t].prev, thread[t].rt)
  /\ thread' = [thread EXCEPT ![t] = At(thread[t].back)]
  /\ Returned(t)
  /\ UNCHANGED <<sp_intr, reserved, brk, holders>>

SwapFails(t) ==
  /\ thread[t].pc = "cas"
  /\ ~ Swaps(t)
  /\ thread' = [thread EXCEPT ![t].pc = "load"]
  /\ UNCHANGED <<status, sp_intr, reserved, brk, holders, possible, owed>>

Write(t) ==
  \/ LoadStatus(t) \/ RestartPipeline(t) \/ WriteInterrupt(t)
  \/ SwapStatus(t) \/ SwapFails(t)

(***************************************************************************)
(* The semaphore: read by compare-and-swap, given back by storing 0, which *)
(* a program does only when it holds it.                                   *)
(***************************************************************************)
ReadsFree == ~ reserved

Acquire(t) ==
  /\ reserved' = TRUE
  /\ holders' = IF ReadsFree THEN holders \cup {t} ELSE holders

Release(t) ==
  /\ t \in holders
  /\ reserved' = FALSE
  /\ holders' = holders \ {t}

-----------------------------------------------------------------------------
(***************************************************************************)
(* The CPU's thread.                                                       *)
(***************************************************************************)
CpuCallsWrite ==
  /\ thread["cpu"].pc = "out"
  /\ \E rt \in CpuWrites :
       /\ thread' = [thread EXCEPT !["cpu"] = Writing(Masked(rt), "out")]
       /\ Called("cpu", Masked(rt))
  /\ UNCHANGED <<status, sp_intr, reserved, brk, holders>>

CpuSemaphore ==
  /\ thread["cpu"].pc = "out"
  /\ Acquire("cpu") \/ Release("cpu")
  /\ UNCHANGED <<status, sp_intr, brk, thread, possible, owed>>

\* write_sp_regs2: aborts unless HALT is set, and empties the pipeline.
CpuSetsPc ==
  /\ SetsPc
  /\ thread["cpu"].pc = "out"
  /\ "HALT" \in status
  /\ brk' = FALSE
  /\ UNCHANGED <<status, sp_intr, reserved, thread, holders, possible, owed>>

(***************************************************************************)
(* The RSP's thread: a cycle begins only of an RSP that is not halted.     *)
(***************************************************************************)
RspBegins ==
  /\ thread["rsp"].pc = "out"
  /\ "HALT" \notin status
  /\ IF brk
     THEN /\ thread' = [thread EXCEPT !["rsp"] = Writing(HaltBroke, "wb")]
          /\ Called("rsp", HaltBroke)
     ELSE /\ thread' = [thread EXCEPT !["rsp"] = At("ex")]
          /\ UNCHANGED <<possible, owed>>
  /\ UNCHANGED <<status, sp_intr, reserved, brk, holders>>

\* rsp_wb_stage looks at HALT again when the write has returned.
RspWbReturns ==
  /\ thread["rsp"].pc = "wb"
  /\ thread' = [thread EXCEPT !["rsp"] = At(IF "HALT" \in status THEN "out" ELSE "ex")]
  /\ brk' = (brk /\ "HALT" \in status)
  /\ UNCHANGED <<status, sp_intr, reserved, holders, possible, owed>>

RspExecutesOther ==
  /\ thread["rsp"].pc = "ex"
  /\ thread' = [thread EXCEPT !["rsp"] = At("tail")]
  /\ UNCHANGED <<status, sp_intr, reserved, brk, holders, possible, owed>>

RspMtc0 ==
  /\ thread["rsp"].pc = "ex"
  /\ \E rt \in RspWrites :
       /\ thread' = [thread EXCEPT !["rsp"] = Writing(Masked(rt), "tail")]
       /\ Called("rsp", Masked(rt))
  /\ UNCHANGED <<status, sp_intr, reserved, brk, holders>>

RspSemaphore ==
  /\ thread["rsp"].pc = "ex"
  /\ Acquire("rsp") \/ Release("rsp")
  /\ thread' = [thread EXCEPT !["rsp"] = At("tail")]
  /\ UNCHANGED <<status, sp_intr, brk, possible, owed>>

\* A write of the CPU's that is under way may be before or after this.
RspBreak ==
  /\ thread["rsp"].pc = "ex"
  /\ LET raises == "INTR_BREAK" \in status IN
       /\ sp_intr' = (sp_intr \/ raises)
       /\ owed' = IF raises /\ ~ CpuClears THEN "due" ELSE owed
       /\ possible' =
            Closure({IF raises THEN [c EXCEPT !.intr = TRUE] ELSE c :
                     c \in {d \in possible : ("INTR_BREAK" \in d.status) = raises}},
                    PendingWrites)
  /\ brk' = TRUE
  /\ thread' = [thread EXCEPT !["rsp"] = At("tail")]
  /\ UNCHANGED <<status, reserved, holders>>

\* RD and IF.
RspEnds ==
  /\ thread["rsp"].pc = "tail"
  /\ thread' = [thread EXCEPT !["rsp"] = At("out")]
  /\ UNCHANGED <<status, sp_intr, reserved, brk, holders, possible, owed>>

ThreadNext ==
  \/ \E t \in ThreadNames : Write(t)
  \/ CpuCallsWrite \/ CpuSemaphore \/ CpuSetsPc
  \/ RspBegins \/ RspWbReturns \/ RspExecutesOther \/ RspMtc0 \/ RspSemaphore
  \/ RspBreak \/ RspEnds

ThreadSpec == ThreadInit /\ [][ThreadNext]_threadVars

-----------------------------------------------------------------------------
\* The writes of the two threads to SP_STATUS look as if each had been made at
\* one moment between its call and its return: neither loses a bit of the other.
WritesAtomic == \E c \in possible : c.status = status

\* An interrupt of the RSP stays until the CPU writes CLR_INTR again: no retry
\* and no other write takes it back, unless a clear ran at the same time.
InterruptKept == owed = "due" => sp_intr

\* Stronger: when nothing is being written, the interrupt fits the status too.
InterruptAtomic ==
  (\A t \in ThreadNames : ~ InWrite(t)) =>
    \E c \in possible : c.status = status /\ c.intr = sp_intr

\* The semaphore is held by one thread at most, and by one when it reads 1,
\* after a read that did not get it too.
OneHolder ==
  /\ Cardinality(holders) <= 1
  /\ reserved => (holders # {})

\* The comment at rsp/interface.c:184: an RSP that is halted does not run, so that
\* the CPU may reset its pipeline. No cycle is in the middle of using it then.
CpuResets ==
  CpuSetsPc \/ (RestartPipeline("cpu") /\ Restarts(thread["cpu"].prev, thread["cpu"].rt))

ResetBetweenCycles == [][CpuResets => thread["rsp"].pc = "out"]_threadVars

-----------------------------------------------------------------------------
(***************************************************************************)
(* The two memories of the RSP and everybody who writes them: DMA in both  *)
(* directions and the CPU, rsp/interface.c, and the scalar stores of       *)
(* rsp/functions.c, which rsp/pipeline.c carries out. DMEM keeps its bytes *)
(* in the guest's order and IMEM in the host's; the opcode cache is a      *)
(* second copy of IMEM, decoded.                                           *)
(***************************************************************************)

CONSTANTS
  BankBytes,    \* 0x1000: bytes of DMEM, and of IMEM
  DramBytes,    \* 0x800000: bytes of RDRAM that a DMA reaches
  SpAddresses,  \* what is written to SP_MEM_ADDR
  DramAddresses,
  SpLengths,    \* the fields of SP_RD_LEN and SP_WR_LEN
  SpSkips,
  SpCounts,
  Stores,       \* <<address, size>> of the stores of the RSP's program
  MaxSpSteps    \* bound: how many of them in one behaviour

ASSUME RspDmaAssumption ==
  /\ BankBytes \in Nat \ {0} /\ BankBytes % 8 = 0
  /\ DramBytes \in Nat \ {0} /\ DramBytes % 8 = 0
  /\ SpAddresses \subseteq 0 .. 2 * BankBytes - 1
  /\ DramAddresses \subseteq 0 .. DramBytes - 1
  /\ SpLengths \subseteq Nat /\ SpSkips \subseteq Nat /\ SpCounts \subseteq Nat
  /\ Stores \subseteq (0 .. BankBytes - 1) \X {1, 2, 4}

VARIABLES
  sp_mem,       \* struct rsp: mem, as bytes
  opcode_cache, \* struct rsp: opcode_cache, as the words that were decoded
  rdram,        \* external: RDRAM, as bytes in the guest's order
  sp_steps      \* how many steps were taken

dmaVars == <<sp_mem, opcode_cache, rdram, sp_steps>>

Down(a, n) == a - (a % n)
InImem(a) == (a \div BankBytes) % 2 = 1

\* The word at a, in the guest's order of bytes.
Word(m, a) == [i \in 0 .. 3 |-> IF InImem(a) THEN m[a + 3 - i] ELSE m[a + i]]
Put(m, a, w) ==
  [b \in DOMAIN m |->
     IF b \in a .. a + 3 THEN (IF InImem(a) THEN w[a + 3 - b] ELSE w[b - a]) ELSE m[b]]
DramWord(d, a) == [i \in 0 .. 3 |-> d[a + i]]
DramPut(d, a, w) == [b \in DOMAIN d |-> IF b \in a .. a + 3 THEN w[b - a] ELSE d[b]]

-----------------------------------------------------------------------------
(***************************************************************************)
(* A DMA: rows of whole words. t is what the registers say.                *)
(***************************************************************************)
Transfers == [cache : SpAddresses, dram : DramAddresses, length : SpLengths,
              skip : SpSkips, count : SpCounts]

CacheStart(t) == Down(t.cache, 8)
DramStart(t) == Down(t.dram, 8)

\* Bytes in a row: cut at the end of the bank where the first row begins.
RowBytes(t) ==
  LET length == Down(t.length + 1 + 7, 8)
      room == BankBytes - (CacheStart(t) % BankBytes)
  IN IF length > room THEN room ELSE length

RowWords(t) == RowBytes(t) \div 4
DmaWords(t) == RowWords(t) * (t.count + 1)

\* Where the n-th word of the transfer is, on both sides.
SpAt(t, n) ==
  LET row == Down((CacheStart(t) + (n \div RowWords(t)) * RowBytes(t)) % (2 * BankBytes), 4)
  IN (row + 4 * (n % RowWords(t))) % (2 * BankBytes)
DramAt(t, n) ==
  LET row == Down((DramStart(t) + (n \div RowWords(t)) * (RowBytes(t) + t.skip)) % DramBytes, 4)
  IN (row + 4 * (n % RowWords(t))) % DramBytes

\* A word stored in IMEM is decoded too.
StoreWord(s, a, w) ==
  [mem |-> Put(s.mem, a, w),
   cache |-> IF InImem(a) THEN [s.cache EXCEPT ![(a - BankBytes) \div 4] = w] ELSE s.cache]

rsp_dma_read(s, d, t) ==
  LET run[n \in 0 .. DmaWords(t)] ==
        IF n = 0 THEN s ELSE StoreWord(run[n - 1], SpAt(t, n - 1), DramWord(d, DramAt(t, n - 1)))
  IN run[DmaWords(t)]

rsp_dma_write(s, d, t) ==
  LET run[n \in 0 .. DmaWords(t)] ==
        IF n = 0 THEN d ELSE DramPut(run[n - 1], DramAt(t, n - 1), Word(s.mem, SpAt(t, n - 1)))
  IN run[DmaWords(t)]

-----------------------------------------------------------------------------
Sp == [mem |-> sp_mem, cache |-> opcode_cache]

\* The bytes of RDRAM are told apart by their address, others are 0 or new.
Zero == <<"zero", 0>>

DmaInit ==
  /\ sp_mem = [a \in 0 .. 2 * BankBytes - 1 |-> Zero]
  /\ opcode_cache = [i \in 0 .. BankBytes \div 4 - 1 |-> [b \in 0 .. 3 |-> Zero]]
  /\ rdram = [a \in 0 .. DramBytes - 1 |-> <<"ram", a>>]
  /\ sp_steps = 0

Counted == sp_steps < MaxSpSteps /\ sp_steps' = sp_steps + 1

DmaRead ==
  /\ Counted
  /\ \E t \in Transfers :
       LET after == rsp_dma_read(Sp, rdram, t)
       IN sp_mem' = after.mem /\ opcode_cache' = after.cache
  /\ UNCHANGED rdram

DmaWrite ==
  /\ Counted
  /\ \E t \in Transfers : rdram' = rsp_dma_write(Sp, rdram, t)
  /\ UNCHANGED <<sp_mem, opcode_cache>>

write_sp_mem ==
  /\ Counted
  /\ \E a \in SpAddresses :
       LET after == StoreWord(Sp, Down(a, 4), [i \in 0 .. 3 |-> <<"cpu", i>>])
       IN sp_mem' = after.mem /\ opcode_cache' = after.cache
  /\ UNCHANGED rdram

\* SB, SH and SW reach the bytes from the address on, in the order of DMEM.
RspStore ==
  /\ Counted
  /\ \E s \in Stores :
       sp_mem' = [a \in DOMAIN sp_mem |->
                    IF a \in s[1] .. s[1] + s[2] - 1 THEN <<"rsp", a - s[1]>> ELSE sp_mem[a]]
  /\ UNCHANGED <<opcode_cache, rdram>>

DmaNext == DmaRead \/ DmaWrite \/ write_sp_mem \/ RspStore

DmaSpec == DmaInit /\ [][DmaNext]_dmaVars

-----------------------------------------------------------------------------
\* The stores of a program that stays in DMEM: none reaches past its end.
StoresInside == \A s \in Stores : s[1] + s[2] <= BankBytes

\* Whoever wrote IMEM last, what the RSP executes is what is in IMEM.
OpcodesCurrent ==
  \A i \in DOMAIN opcode_cache : opcode_cache[i] = Word(sp_mem, BankBytes + 4 * i)

\* A transfer to the RSP and back, to the same place, changes nothing in RDRAM,
\* if it does not come round to where it began: both directions agree on the rows,
\* their length and the order of the bytes in either memory.
Apart(t) == DmaWords(t) * 4 <= 2 * BankBytes

RoundTrip ==
  sp_steps > 0 => \A t \in Transfers :
    Apart(t) => rsp_dma_write(rsp_dma_read(Sp, rdram, t), rdram, t) = rdram

\* A transfer changes as many bytes as it is long, from its first on, and no other.
Confined ==
  sp_steps > 0 => \A t \in Transfers :
    LET after == rsp_dma_read(Sp, rdram, t)
        inside == {(CacheStart(t) + n) % (2 * BankBytes) : n \in 0 .. DmaWords(t) * 4 - 1}
    IN \A a \in DOMAIN sp_mem \ inside : after.mem[a] = sp_mem[a]

-----------------------------------------------------------------------------
\* What the RSP shares with the CPU: its status word and its semaphore between
\* two threads, and its memories between programs, DMA and the opcode cache.
SharedRight ==
  /\ WritesAtomic /\ InterruptKept /\ OneHolder
  /\ OpcodesCurrent /\ RoundTrip /\ Confined
==============================================================================
