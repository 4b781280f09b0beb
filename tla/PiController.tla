---------------------------- MODULE PiController -----------------------------
(***************************************************************************)
(* The parallel interface: the registers and the DMA engine of             *)
(* pi/controller.c, with a cartridge that has ROM and SRAM. The copy is    *)
(* made in one go when the countdown ends. DiskTransfer adds the 64DD.     *)
(*                                                                         *)
(* An address on the PI's bus is an area and an offset in it. Only the     *)
(* SRAM has banks. Everything here runs on the CPU's thread.               *)
(***************************************************************************)
EXTENDS Integers, FiniteSets

-----------------------------------------------------------------------------
(***************************************************************************)
(* The arithmetic of a DMA from cartridge ROM to RDRAM, the last branch of *)
(* pi_dma_write (pi/controller.c): what one pass of its loop does, and in  *)
(* closed form what the whole loop leaves in the address registers.        *)
(* PiRomDma checks the one against the other; PiController uses the second.*)
(***************************************************************************)

CONSTANTS
  BlockSize,   \* 128: the internal cache of the PI
  RomSize      \* rom_size, in bytes

Align == 8     \* RDRAM is written in units of eight bytes

ASSUME RomTransferAssumption ==
  /\ BlockSize \in Nat /\ BlockSize % Align = 0 /\ BlockSize > Align
  /\ RomSize \in Nat

RoundUp(n, k) == ((n + k - 1) \div k) * k

Least(a, b) == IF a < b THEN a ELSE b

\* What pi_rom_fetch puts in the cache for offset o: the byte of the ROM, or
\* 0xFF past its end.
RomByte(o) == IF o < RomSize THEN o ELSE "FF"

Misalign(dram) == dram % Align

\* Bytes of the first block, when length bytes are asked for.
FirstBlock(dram, length) == Least(length, BlockSize - Misalign(dram))

\* Mutant of FirstWritten: without the second hardware bug.
FirstWrittenAll(dram, length) ==
  LET cur == FirstBlock(dram, length)
  IN  IF cur = BlockSize - Misalign(dram) - 1 THEN cur + 1 ELSE cur

\* Bytes of the first block that reach RDRAM: the two hardware bugs.
FirstWritten(dram, length) ==
  LET cur  == FirstBlock(dram, length)
      even == IF cur = BlockSize - Misalign(dram) - 1 THEN cur + 1 ELSE cur
  IN  IF even < Misalign(dram) THEN 0 ELSE even - Misalign(dram)

-----------------------------------------------------------------------------
(* PI_CART_ADDR, PI_DRAM_ADDR and PI_WR_LEN when the loop ends. *)

CartAfterRom(cart, length) == cart + RoundUp(length, 2)

DramAfterRom(dram, length) ==
  LET first == FirstBlock(dram, length)
  IN  IF first = length
      THEN RoundUp(dram + FirstWritten(dram, length), Align)
      ELSE RoundUp(dram - Misalign(dram) + BlockSize
                     + RoundUp(length - first, 2), Align)

WrLenAfterRom(dram, length) ==
  127 - (IF length <= 8 THEN Misalign(dram) ELSE 0)

-----------------------------------------------------------------------------

CONSTANTS
  Areas,      \* areas of the PI's bus that the console has
  Offsets,    \* offsets the guest programs
  Drams,      \* RDRAM addresses the guest programs
  Lengths,    \* values the guest writes to PI_RD_LEN and PI_WR_LEN
  Overhead,   \* 100: cycles a transfer takes besides its bytes
  WordMod,    \* 2^32: the width of a register
  DramMask,   \* 0x800000: the RDRAM addresses a DMA reaches
  Banks,      \* 4: SRAM banks
  BankSize    \* 0x8000: bytes in an SRAM bank

ASSUME PiAssumption ==
  /\ "rom" \in Areas
  /\ Offsets \subseteq {o \in Nat : o % 2 = 0}
  /\ Drams \subseteq {d \in Nat : d % 2 = 0}
  /\ Lengths \subseteq Nat
  /\ Overhead \in Nat
  /\ WordMod \in Nat \ {0} /\ DramMask \in Nat \ {0}
  /\ Banks \in Nat \ {0} /\ BankSize \in Nat \ {0}
  \* 24 bits of a length count: no sum of one and an SRAM offset wraps.
  /\ \A n \in Lengths : n + Banks * BankSize < WordMod

VARIABLES
  pi,       \* struct pi_controller: registers, countdown, direction
  pi_intr,  \* MI_INTR_PI, in the MI
  asked,    \* history: the transfer asked for, until it is made
  moved     \* history: what the last finished transfer did, until the next starts

piVars == <<pi, pi_intr, asked, moved>>

Directions == {"rd", "wr"}          \* rd: RDRAM to the bus, is_dma_read

Flags == {"DMA_BUSY", "ERROR", "INTERRUPT"}

Expired == -1                       \* counter has gone round below zero

CartAddresses == [area : Areas, bank : 0 .. Banks - 1, off : Offsets]

Request(s) ==
  [dir |-> s.dir, dram |-> s.dram, cart |-> s.cart, bytes |-> s.bytes]

NoRequest == [dir |-> "wr", dram |-> 0, cart |-> "none", bytes |-> 0]

Nothing == [what |-> "none", at |-> 0, bytes |-> 0, of |-> 0]

PiInit ==
  /\ pi = [status |-> {}, dram |-> 0, len |-> [d \in Directions |-> 127],
           cart |-> [area |-> "rom", bank |-> 0, off |-> 0],
           bytes |-> 0, counter |-> 0, dir |-> "wr"]
  /\ pi_intr = FALSE
  /\ asked = NoRequest
  /\ moved = Nothing

-----------------------------------------------------------------------------
(* write_pi_regs *)

Busy == "DMA_BUSY" \in pi.status

\* Mutant of PiWriteStatus: the interrupt is cleared in the status word alone.
PiWriteStatusOnly(reset, clear) ==
  /\ pi' = [pi EXCEPT !.status =
       @ \ ((IF reset THEN {"DMA_BUSY", "ERROR"} ELSE {})
            \cup (IF clear THEN {"INTERRUPT"} ELSE {}))]
  /\ UNCHANGED <<pi_intr, asked, moved>>

PiWriteStatus(reset, clear) ==
  /\ pi' = [pi EXCEPT !.status =
       @ \ ((IF reset THEN {"DMA_BUSY", "ERROR"} ELSE {})
            \cup (IF clear THEN {"INTERRUPT"} ELSE {}))]
  /\ pi_intr' = (pi_intr /\ ~clear)
  /\ UNCHANGED <<asked, moved>>

\* Any other register, while a transfer runs.
PiRefuse ==
  /\ Busy
  /\ pi' = [pi EXCEPT !.status = @ \cup {"ERROR"}]
  /\ UNCHANGED <<pi_intr, asked, moved>>

\* Mutant of PiWriteDram: a busy controller takes the address.
PiWriteDramBusy(d) ==
  /\ pi' = [pi EXCEPT !.dram = d]
  /\ UNCHANGED <<pi_intr, asked, moved>>

PiWriteDram(d) ==
  /\ ~Busy
  /\ pi' = [pi EXCEPT !.dram = d]
  /\ UNCHANGED <<pi_intr, asked, moved>>

\* The call of dd_pi_write is DiskTransfer's: without a disk it does nothing.
PiWriteCart(c) ==
  /\ ~Busy
  /\ pi' = [pi EXCEPT !.cart = c]
  /\ UNCHANGED <<pi_intr, asked, moved>>

\* A length starts the transfer. (PI_DRAM_ADDR cannot hold 0xFFFFFFFF, for which
\* the code has another branch: a write masks it, a transfer aligns it.)
PiWriteLen(dir, n) ==
  /\ ~Busy
  /\ pi' = [pi EXCEPT !.len[dir] = n, !.bytes = n + 1, !.dir = dir,
                      !.counter = (n + 1) \div 2 + Overhead,
                      !.status = @ \cup {"DMA_BUSY"}]
  /\ asked' = Request(pi')
  /\ moved' = Nothing
  /\ UNCHANGED pi_intr

-----------------------------------------------------------------------------
(* pi_dma_read and pi_dma_write: what is copied, and the registers after. *)

SramOffset(s) == s.cart.bank * BankSize + (s.cart.off % BankSize)

\* The bytes of a transfer to the bus: the misalignment of the source is taken
\* off, in 32 bits.
ReadLength(s) == (s.len["rd"] + 1 - ((s.dram % DramMask) % 8)) % WordMod

\* Mutant of SramFits: only the end of the file is looked at.
SramFitsFile(s, n) == (SramOffset(s) + n) % WordMod <= Banks * BankSize

\* The SRAM transfers that are made: within one bank and within the file.
SramFits(s, n) ==
  /\ s.cart.bank = ((SramOffset(s) + n - 1) % WordMod) \div BankSize
  /\ (SramOffset(s) + n) % WordMod <= Banks * BankSize

BytesOf(s) == IF s.dir = "rd" THEN ReadLength(s) ELSE s.len["wr"] + 1

Copied(s) ==
  IF s.cart.area = "sram" /\ SramFits(s, BytesOf(s))
  THEN [what |-> "sram", at |-> SramOffset(s), bytes |-> BytesOf(s), of |-> s.bytes]
  ELSE Nothing

AfterRead(s) ==
  LET n == ReadLength(s)
  IN  [s EXCEPT !.len["rd"] = 127,
                !.dram = RoundUp(s.dram + n, 8) % WordMod,
                !.cart.off = RoundUp(s.cart.off + n, 2) % WordMod]

\* Only a transfer from ROM moves the registers on.
AfterWrite(s) ==
  LET n == s.len["wr"] + 1
  IN  IF s.cart.area = "rom"
      THEN [s EXCEPT !.len["wr"] = WrLenAfterRom(s.dram, n),
                     !.dram = DramAfterRom(s.dram, n) % WordMod,
                     !.cart.off = CartAfterRom(s.cart.off, n) % WordMod]
      ELSE s

-----------------------------------------------------------------------------
(* pi_cycle *)

\* Mutant of PiCount: it goes on only when there is nothing to copy.
PiCountFree ==
  /\ pi.counter > 0 /\ pi.bytes = 0
  /\ pi' = [pi EXCEPT !.counter = @ - 1]
  /\ UNCHANGED <<pi_intr, asked, moved>>

\* The countdown goes on.
PiCount ==
  /\ pi.counter > 0
  /\ pi' = [pi EXCEPT !.counter = @ - 1]
  /\ UNCHANGED <<pi_intr, asked, moved>>

\* It ends with nothing to do: only after the start of the machine.
PiIdle ==
  /\ pi.counter = 0 /\ pi.bytes = 0
  /\ pi' = [pi EXCEPT !.counter = Expired]
  /\ UNCHANGED <<pi_intr, asked, moved>>

\* It ends with a transfer, which is made now.
PiFinish ==
  /\ pi.counter = 0 /\ pi.bytes > 0
  /\ pi' = [(IF pi.dir = "rd" THEN AfterRead(pi) ELSE AfterWrite(pi)) EXCEPT
              !.status = (@ \ {"DMA_BUSY"}) \cup {"INTERRUPT"},
              !.bytes = 0, !.counter = Expired]
  /\ pi_intr' = TRUE
  /\ moved' = Copied(pi)
  /\ asked' = NoRequest

PiCycle == PiCount \/ PiIdle \/ PiFinish

PiNext ==
  \/ PiCycle
  \/ \E reset, clear \in BOOLEAN : PiWriteStatus(reset, clear)
  \/ PiRefuse
  \/ \E d \in Drams : PiWriteDram(d)
  \/ \E c \in CartAddresses : PiWriteCart(c)
  \/ \E dir \in Directions, n \in Lengths : PiWriteLen(dir, n)

\* The CPU's thread runs a cycle of the PI in every cycle of its own.
PiSpec == PiInit /\ [][PiNext]_piVars /\ WF_piVars(PiCycle)

-----------------------------------------------------------------------------
PiTypeOK ==
  /\ pi \in [status : SUBSET Flags, dram : Nat, len : [Directions -> Nat],
             cart : [area : Areas, bank : 0 .. Banks - 1, off : Nat],
             bytes : Nat, counter : Nat \cup {Expired}, dir : Directions]
  /\ pi_intr \in BOOLEAN

\* The two places that show the PI's interrupt agree at all times: the status
\* word of the PI and the flag of the MI, whatever order the guest clears,
\* resets and restarts in.
InterruptTold == pi_intr <=> "INTERRUPT" \in pi.status

\* A controller that says it is busy has a transfer, and a countdown that will
\* make it; the length it will copy is the one it counts.
BusyArmed ==
  /\ Busy => pi.bytes > 0
  /\ pi.bytes > 0 => /\ pi.counter \in 0 .. pi.bytes \div 2 + Overhead
                     /\ pi.bytes = pi.len[pi.dir] + 1

\* The copy is made from the registers only when it ends. While the controller
\* is busy they are still those of the transfer that the guest asked for.
AsAsked == Busy => Request(pi) = asked

InOneBank(m) ==
  m.bytes > 0 => m.at \div BankSize = (m.at + m.bytes - 1) \div BankSize

\* No transfer of eight bytes or more, in either direction, touches two banks of
\* the SRAM or goes past its file.
LongSramInBank == moved.what = "sram" /\ moved.of >= 8 => InOneBank(moved)

\* The same of every transfer, as the comment on the check has it: "prevent
\* contiguous access across banks".
SramInBank == moved.what = "sram" => InOneBank(moved)

\* A busy controller does not stay busy.
BusyEnds == Busy ~> ~Busy

\* A busy controller will make the transfer that was asked for: it is armed, and
\* nothing has touched what the transfer will be made from.
BusyRight == BusyArmed /\ AsAsked
==============================================================================
