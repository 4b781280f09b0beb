------------------------------ MODULE PiRomDma ------------------------------
(***************************************************************************)
(* The loop of pi_dma_write that copies cartridge ROM to RDRAM, one block  *)
(* a step, against what the transfer as a whole is to leave in RDRAM and   *)
(* in the registers. The loop runs inside one call: nothing interleaves.   *)
(***************************************************************************)
EXTENDS PiController, FiniteSets

CONSTANTS
  RomDrams,    \* values of PI_DRAM_ADDR to start from
  Carts,       \* values of PI_CART_ADDR to start from
  RomLengths   \* numbers of bytes to ask for

ASSUME RomDmaAssumption ==
  /\ RomDrams \subseteq {d \in Nat : d % 2 = 0}
  /\ Carts \subseteq {c \in Nat : c % 2 = 0}
  /\ RomLengths \subseteq Nat \ {0}

VARIABLES
  wanted,   \* the request: dram, cart, length
  dram,     \* PI_DRAM_ADDR_REG
  cart,     \* PI_CART_ADDR_REG
  length,   \* bytes left
  first,    \* first_block
  ram       \* what the transfer has written: address -> RomByte

romVars == <<wanted, dram, cart, length, first, ram>>

RomInit ==
  /\ wanted \in [dram : RomDrams, cart : Carts, length : RomLengths]
  /\ dram = wanted.dram /\ cart = wanted.cart /\ length = wanted.length
  /\ first = TRUE
  /\ ram = [a \in {} |-> 0]

\* After a block the rest of an odd length is made even.
LengthLeft(cur) == RoundUp(length - cur, 2)

CartNext(cur) == cart + RoundUp(cur, 2)

\* Only the first block is shortened.
Written(cur) == IF first THEN FirstWritten(dram, length) ELSE cur

\* One block: fetched from ROM, written to RDRAM.
Block ==
  LET cur == FirstBlock(dram, length)
      put == Written(cur)
  IN  /\ length > 0
      /\ ram' = [a \in DOMAIN ram \cup dram .. dram + put - 1 |->
                   IF a >= dram THEN RomByte(cart + (a - dram)) ELSE ram[a]]
      /\ length' = LengthLeft(cur)
      /\ cart' = CartNext(cur)
      /\ dram' = RoundUp(dram + put, Align)
      /\ first' = FALSE
      /\ UNCHANGED wanted

Done == length = 0 /\ UNCHANGED romVars

RomNext == Block \/ Done

RomSpec == RomInit /\ [][RomNext]_romVars

-----------------------------------------------------------------------------
\* Whatever the alignment and the length, and over every block, the byte at
\* distance i from the address asked for is the byte of the ROM at distance i
\* (0xFF past its end): the shortened first block and the rounding of the
\* addresses after it never shift the data.
RightByte ==
  \A a \in DOMAIN ram : ram[a] = RomByte(wanted.cart + (a - wanted.dram))

\* Offsets of the first block that the second hardware bug leaves unwritten.
Hole ==
  LET n == FirstBlock(wanted.dram, wanted.length)
      e == IF n = BlockSize - Misalign(wanted.dram) - 1 THEN n + 1 ELSE n
  IN  {i \in 0 .. e - 1 : i >= e - Misalign(wanted.dram)}

\* When the loop ends RDRAM has every byte that was asked for, but for the hole
\* that "HARDWARE BUG #2" describes, and at most one byte more, to make the
\* length even: an aligned transfer is complete.
AllWritten ==
  length = 0 =>
    LET at == {a - wanted.dram : a \in DOMAIN ram}
    IN  /\ (0 .. wanted.length - 1) \ Hole \subseteq at
        /\ at \cap Hole = {}
        /\ at \subseteq 0 .. RoundUp(wanted.length, 2) - 1

\* When the loop ends the address registers are what the closed form says: ROM
\* is consumed in words, RDRAM in units of eight bytes.
FinalRegisters ==
  length = 0 =>
    /\ cart = CartAfterRom(wanted.cart, wanted.length)
    /\ dram = DramAfterRom(wanted.dram, wanted.length)

\* The copy from ROM as a whole: the right bytes, all of them but for the hole
\* that the hardware leaves, and the registers afterwards.
RomCopyRight == RightByte /\ AllWritten /\ FinalRegisters
=============================================================================
