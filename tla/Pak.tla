--------------------------------- MODULE Pak ---------------------------------
(***************************************************************************)
(* What can be in a controller: a memory pak, a rumble pak, nothing, or a  *)
(* Transfer Pak with a Game Boy cartridge behind its window.               *)
(* si/pak.c and si/pak_transfer.c.                                         *)
(*                                                                         *)
(* A message carries a block of bytes to or from an address. Blocks of the *)
(* memory pak have their bytes and a checksum; others have one value.      *)
(* Addresses are those of the blocks that matter.                          *)
(***************************************************************************)
EXTENDS Integers, Sequences, FiniteSets

-----------------------------------------------------------------------------
(***************************************************************************)
(* The Game Boy cartridge in a Transfer Pak: the bank controllers of       *)
(* si/gb.c. A cartridge has banks of ROM and of RAM; a write to its ROM    *)
(* changes a register of the controller, by the part of the address space  *)
(* it goes to. Parts are named after their first address. A bank of RAM    *)
(* holds one value; what is beyond the cartridge's memory is not modelled. *)
(*                                                                         *)
(* gbref is the controller as its registers are documented: the code keeps *)
(* pointers to banks, which every write has to bring up to date.           *)
(***************************************************************************)

CONSTANTS
  GbCarts,   \* cartridges: type, banks of ROM and of RAM
  GbData,    \* values that are written to registers
  GbBytes,   \* values that are written to RAM
  GbAnyMode  \* may the mode change before a bank was selected, or with an upper one

ASSUME GbAssumption ==
  /\ \A c \in GbCarts :
       /\ c.type \in {"rom", "mbc1", "mbc2", "mbc3", "mbc5"}
       /\ c.rom \in Nat /\ c.rom > 1 /\ c.ram \in Nat
  /\ GbData \cup GbBytes \subseteq 0 .. 255
  /\ GbAnyMode \in BOOLEAN

VARIABLES
  gb,       \* struct gb_cart: the registers, and the banks that the pointers stand for
  gbref     \* history: the registers of the bank controller, and the RAM

gbVars == <<gb, gbref>>

Parts == {"0000", "2000", "3000", "4000", "6000", "A000"}

GbInit ==
  \E c \in GbCarts :
    /\ gb = [cart |-> c, low |-> 0, high |-> 0, zero |-> 0, n |-> 1, ram |-> 0,
             on |-> FALSE, mode |-> 0, shows |-> "ram", data |-> [b \in 0 .. 15 |-> 0]]
    /\ gbref = [bank1 |-> 1, bank2 |-> 0, mode |-> 0, on |-> FALSE, rtc |-> FALSE,
                selected |-> FALSE, data |-> [b \in 0 .. 15 |-> 0]]

-----------------------------------------------------------------------------
(***************************************************************************)
(* The writes, by controller.                                              *)
(***************************************************************************)
\* A number of a bank that the lower register cannot give.
Bumped(bank) == IF bank \in {0, 32, 64, 96} THEN bank + 1 ELSE bank

mbc_write_ram_enable(g, d) ==
  CASE d % 16 = 0 -> [g EXCEPT !.on = FALSE] [] d % 16 = 10 -> [g EXCEPT !.on = TRUE] [] OTHER -> g

mbc1_rom_bank(g, d) ==
  LET bank == Bumped(g.high * 32 + (d % 32)) % g.cart.rom IN [g EXCEPT !.low = bank % 32, !.n = bank]

\* Large ROMs take the two bits in both modes, and bank 0 moves in mode 1, in
\* which the bits select the bank of RAM as well.
mbc1_rom_ram_bank(g, data) ==
  LET d == data % 4
      bank == Bumped(d * 32 + g.low) % g.cart.rom
      large == IF g.cart.rom > 31 THEN [g EXCEPT !.high = bank \div 32, !.n = bank] ELSE g
      rom == IF g.mode = 0 \/ g.cart.rom > 31 THEN [large EXCEPT !.zero = 0] ELSE large
      moved == IF g.cart.rom > 32 THEN [rom EXCEPT !.zero = (d * 32) % g.cart.rom] ELSE rom
  IN CASE g.mode = 0 -> rom
       [] g.mode = 1 /\ g.cart.ram <= 1 -> moved
       [] g.mode = 1 /\ g.cart.ram > 1 -> [moved EXCEPT !.ram = d]

mbc1_mode_select(g, d) ==
  IF d % 2 = 0 THEN [g EXCEPT !.mode = 0, !.ram = 0]
  ELSE [g EXCEPT !.mode = 1, !.high = 0, !.n = g.low]

mbc2_rom_bank(g, d) ==
  LET bank == (d % 16) % g.cart.rom
      n == IF bank = 0 THEN 1 ELSE bank
  IN [g EXCEPT !.low = n, !.n = n]

mbc3_rom_bank(g, data) ==
  LET d == data % 128 IN [g EXCEPT !.n = IF d = 0 THEN 1 ELSE d % g.cart.rom]

\* Mutant of mbc3_ram_bank: RAM does not come back after the clock.
mbc3_ram_bank_kept(g, d) ==
  CASE d \in 0 .. 3 -> [g EXCEPT !.ram = d] [] d \in 8 .. 12 -> [g EXCEPT !.shows = "rtc"]
    [] OTHER -> g

mbc3_ram_bank(g, d) ==
  CASE d \in 0 .. 3 -> [g EXCEPT !.ram = d, !.shows = "ram"]
    [] d \in 8 .. 12 -> [g EXCEPT !.shows = "rtc"]
    [] OTHER -> g

mbc5_ram_enable(g, d) == [g EXCEPT !.on = d = 10]
mbc5_rom_bank_lower(g, d) == [g EXCEPT !.low = d, !.n = (g.high * 256 + d) % g.cart.rom]
mbc5_rom_bank_upper(g, d) ==
  [g EXCEPT !.high = d % 2, !.n = ((d % 2) * 256 + g.low) % g.cart.rom]
mbc5_ram_bank(g, d) == [g EXCEPT !.ram = d % 16]

Stored(g, d) == IF g.on /\ g.shows = "ram" THEN [g EXCEPT !.data[g.ram] = d] ELSE g

\* gb_write: the function that gb_init has installed for the part.
gb_write_mbc1(g, part, d) ==
  CASE part = "0000" -> mbc_write_ram_enable(g, d)
    [] part \in {"2000", "3000"} -> mbc1_rom_bank(g, d)
    [] part = "4000" -> mbc1_rom_ram_bank(g, d)
    [] part = "6000" -> mbc1_mode_select(g, d)
    [] part = "A000" -> Stored(g, d)

\* The lowest bit of the page decides, and RAM has four bits.
gb_write_mbc2(g, part, d) ==
  CASE part \in {"0000", "2000"} -> mbc_write_ram_enable(g, d)
    [] part = "3000" -> mbc2_rom_bank(g, d)
    [] part = "A000" -> Stored(g, d % 16)
    [] OTHER -> g

gb_write_mbc3(g, part, d) ==
  CASE part = "0000" -> mbc_write_ram_enable(g, d)
    [] part \in {"2000", "3000"} -> mbc3_rom_bank(g, d)
    [] part = "4000" -> mbc3_ram_bank(g, d)
    [] part = "A000" -> Stored(g, d)
    [] OTHER -> g

gb_write_mbc5(g, part, d) ==
  CASE part = "0000" -> mbc5_ram_enable(g, d)
    [] part = "2000" -> mbc5_rom_bank_lower(g, d)
    [] part = "3000" -> mbc5_rom_bank_upper(g, d)
    [] part = "4000" -> mbc5_ram_bank(g, d)
    [] part = "A000" -> Stored(g, d)
    [] OTHER -> g

gb_write(g, part, d) ==
  CASE g.cart.type = "mbc1" -> gb_write_mbc1(g, part, d)
    [] g.cart.type = "mbc2" -> gb_write_mbc2(g, part, d)
    [] g.cart.type = "mbc3" -> gb_write_mbc3(g, part, d)
    [] g.cart.type = "mbc5" -> gb_write_mbc5(g, part, d)
    [] g.cart.type = "rom" -> g

\* gb_read of A000: 255 stands for no answer, 0 for the clock that is missing.
ReadExt(g) ==
  IF g.cart.type = "rom" THEN 255
  ELSE IF g.shows = "rtc" THEN 0
  ELSE IF ~ g.on THEN 255
  ELSE IF g.cart.type = "mbc2" THEN g.data[g.ram] % 16 ELSE g.data[g.ram]

-----------------------------------------------------------------------------
(***************************************************************************)
(* The registers of the controllers.                                       *)
(***************************************************************************)
RefRamBank(r, c) ==
  CASE c.type = "mbc1" -> IF r.mode = 1 /\ c.ram > 1 THEN r.bank2 ELSE 0
    [] c.type \in {"mbc3", "mbc5"} -> r.bank2
    [] OTHER -> 0

RefRomBank(r, c) ==
  CASE c.type = "mbc1" -> (r.bank2 * 32 + r.bank1) % c.rom
    [] OTHER -> r.bank1 % c.rom

RefZero(r, c) == IF c.type = "mbc1" /\ r.mode = 1 THEN (r.bank2 * 32) % c.rom ELSE 0

RefEnabled(r, c, d) ==
  IF c.type = "mbc5" THEN d = 10
  ELSE CASE d % 16 = 10 -> TRUE [] d % 16 = 0 -> FALSE [] OTHER -> r.on

NotZero(n) == IF n = 0 THEN 1 ELSE n

RefBank1(r, c, part, d) ==
  CASE c.type = "mbc1" -> NotZero(d % 32)
    [] c.type = "mbc2" -> IF part = "3000" THEN NotZero(d % 16) ELSE r.bank1
    [] c.type = "mbc3" -> NotZero(d % 128)
    [] c.type = "mbc5" -> IF part = "2000" THEN (r.bank1 \div 256) * 256 + d
                          ELSE (d % 2) * 256 + (r.bank1 % 256)
    [] OTHER -> r.bank1

RefWrite(r, c, part, d) ==
  CASE part = "0000" \/ (c.type = "mbc2" /\ part = "2000") -> [r EXCEPT !.on = RefEnabled(r, c, d)]
    [] part \in {"2000", "3000"} /\ ~ (c.type = "mbc2" /\ part = "2000") ->
         [r EXCEPT !.bank1 = RefBank1(r, c, part, d), !.selected = TRUE]
    [] part = "4000" ->
         CASE c.type = "mbc1" -> [r EXCEPT !.bank2 = d % 4]
           [] c.type = "mbc3" /\ d \in 0 .. 3 -> [r EXCEPT !.bank2 = d, !.rtc = FALSE]
           [] c.type = "mbc3" /\ d \in 8 .. 12 -> [r EXCEPT !.rtc = TRUE]
           [] c.type = "mbc5" -> [r EXCEPT !.bank2 = d % 16]
           [] OTHER -> r
    [] part = "6000" -> IF c.type = "mbc1" THEN [r EXCEPT !.mode = d % 2] ELSE r
    [] part = "A000" -> IF r.on /\ ~ r.rtc /\ c.type # "rom"
                        THEN [r EXCEPT !.data[RefRamBank(r, c)] = IF c.type = "mbc2" THEN d % 16 ELSE d]
                        ELSE r

\* What RAM shows, by the registers.
RefReadExt(r, c) ==
  IF c.type = "rom" THEN 255
  ELSE IF r.rtc THEN 0 ELSE IF ~ r.on THEN 255 ELSE r.data[RefRamBank(r, c)]

\* What a program does: it selects banks that the cartridge has, and changes the
\* mode after it has selected a bank and with the first banks in place.
GbUsual(c, part, d) ==
  /\ part = "A000" => d \in GbBytes
  /\ part # "A000" => d \in GbData
  /\ part = "3000" /\ c.type = "mbc2" => d % 16 < c.rom
  /\ part = "3000" /\ c.type = "mbc5" => gbref.selected
  /\ part = "4000" /\ c.type = "mbc5" => d % 16 < c.ram
  /\ part = "4000" /\ c.type = "mbc3" => d < c.ram \/ d > 7
  /\ part = "4000" /\ c.type = "mbc1" => d % 4 < c.ram \/ gbref.mode = 0 \/ c.ram <= 1
  /\ part = "6000" => GbAnyMode \/ (gbref.selected /\ gbref.bank2 = 0)

GbWrite(part, d) ==
  /\ GbUsual(gb.cart, part, d)
  /\ gb' = gb_write(gb, part, d)
  /\ gbref' = RefWrite(gbref, gb.cart, part, d)

GbNext == \E part \in Parts, d \in GbData \cup GbBytes : GbWrite(part, d)

GbSpec == GbInit /\ [][GbNext]_gbVars

-----------------------------------------------------------------------------
\* The two windows of the ROM show the banks that the registers select, in every
\* order of writes to the lower and the upper register and to the mode.
GbRomRight ==
  /\ gb.n = RefRomBank(gbref, gb.cart)
  /\ gb.zero = RefZero(gbref, gb.cart)

\* RAM keeps what was written to each bank while it was enabled, and shows the
\* bank that is selected now: also after the clock was shown in its place.
GbRamRight == ReadExt(gb) = RefReadExt(gbref, gb.cart)

-----------------------------------------------------------------------------

CONSTANTS
  PakBlocks,   \* addresses of blocks of the memory pak
  PakTypes,    \* "none", "mem", "rumble", "transfer"
  PakData,     \* blocks that are written to the memory pak: sequences of bytes
  PakBytes     \* the bytes of blocks that are written to the Game Boy

ASSUME PakAssumption ==
  /\ PakBlocks \subseteq {"0000", "7FE0"}
  /\ PakTypes \subseteq {"none", "mem", "rumble", "transfer"}
  /\ PakBytes \subseteq 0 .. 255
  /\ PakData \subseteq Seq(0 .. 255)

VARIABLES
  pak,      \* struct controller: pak, pak_enabled, tpak_bank, tpak_mode, mempak_save
  pakref,   \* history: the blocks that were written, the bank and mode that were set
  pakgot    \* history: the last block that was read, and what it should be

pakVars == <<gb, gbref, pak, pakref, pakgot>>

\* The window of 0x4000 bytes: the parts of it, by what is added to 0xC000.
Window == {"C000", "E000", "F000"}

\* gb_addr, as the part of the Game Boy's address space that it falls into;
\* "none" is where gb_read and gb_write have no function.
GbPart(bank, a) ==
  CASE bank % 4 = 0 -> [C000 |-> "0000", E000 |-> "2000", F000 |-> "3000"][a]
    [] bank % 4 = 1 -> [C000 |-> "4000", E000 |-> "6000", F000 |-> "6000"][a]
    [] bank % 4 = 2 -> [C000 |-> "none", E000 |-> "A000", F000 |-> "A000"][a]
    [] OTHER -> "none"

Unasked == [answer |-> <<"none", 0>>, right |-> <<"none", 0>>, block |-> <<>>, crc |-> 0]

PakInit ==
  /\ GbInit
  /\ pak \in [type : PakTypes, enabled : {FALSE}, bank : {0}, mode : {0}, changed : {FALSE},
              mem : {[b \in PakBlocks |-> <<>>]}]
  /\ pakref = [mem |-> [b \in PakBlocks |-> <<>>], bank |-> 0, mode |-> 0, told |-> TRUE]
  /\ pakgot = Unasked

-----------------------------------------------------------------------------
(***************************************************************************)
(* controller_pak_crc: bit by bit, and eight zeros behind the block.       *)
(***************************************************************************)
Bit(byte, k) == (byte \div 2^k) % 2
Xor85(crc) == LET b(k) == (Bit(crc, k) + Bit(133, k)) % 2 IN
  b(7)*128 + b(6)*64 + b(5)*32 + b(4)*16 + b(3)*8 + b(2)*4 + b(1)*2 + b(0)

CrcStep(crc, in) ==
  LET s == ((crc * 2) % 256) + in IN IF crc >= 128 THEN Xor85(s) ELSE s

\* The bits of a block, in the order the loop takes them.
StreamBit(data, k) ==
  IF k > 8 * Len(data) THEN 0 ELSE Bit(data[(k - 1) \div 8 + 1], 7 - ((k - 1) % 8))

controller_pak_crc(data) ==
  LET crc[k \in 0 .. 8 * (Len(data) + 1)] ==
        IF k = 0 THEN 0 ELSE CrcStep(crc[k - 1], StreamBit(data, k))
  IN crc[8 * (Len(data) + 1)]

\* Polynomials over GF(2) as sets of exponents: the remainder of x^n by
\* x^8 + x^7 + x^2 + 1.
Difference(p, q) == (p \ q) \cup (q \ p)
Power(n) ==
  LET rem[k \in 0 .. n] ==
        IF k = 0 THEN {0}
        ELSE LET up == {e + 1 : e \in rem[k - 1]} IN
             IF 8 \in up THEN Difference(up, {8, 7, 2, 0}) ELSE up
  IN rem[n]

Remainder(data) ==
  LET n == 8 * Len(data)
      sum[k \in 0 .. n] ==
        IF k = 0 THEN {}
        ELSE IF StreamBit(data, k) = 1 THEN Difference(sum[k - 1], Power(n - k + 8)) ELSE sum[k - 1]
  IN sum[n]

-----------------------------------------------------------------------------
\* gameboy_read: what stands at an address of the cartridge, by its bank.
GbReadAt(part) ==
  CASE part \in {"0000", "2000", "3000"} -> <<"rom", gb.zero>>
    [] part \in {"4000", "6000"} -> <<"rom", gb.n>>
    [] part = "A000" -> <<"ram", ReadExt(gb)>>
    [] part = "none" -> <<"ram", 255>>

\* The status that address B000 shows: in the cartridge, and how it is accessed.
ModeBits == IF pak.mode = 1 THEN 137 ELSE 128

\* transfer_pak_read. The buffer of a pak that is not enabled keeps its bytes.
transfer_pak_read(a) ==
  CASE a = "8000" -> <<"ram", IF pak.enabled THEN 132 ELSE 0>>
    [] a = "B000" /\ pak.enabled -> <<"ram", ModeBits + (IF pak.changed THEN 4 ELSE 0)>>
    [] a \in Window /\ pak.enabled -> GbReadAt(GbPart(pak.bank, a))
    [] OTHER -> <<"none", 0>>

\* controller_pak_read
PakAnswer(a) ==
  CASE pak.type = "mem" -> <<"mem", pak.mem[a]>>
    [] pak.type = "transfer" -> transfer_pak_read(a)
    [] pak.type = "rumble" -> <<"ram", 128>>
    [] pak.type = "none" -> <<"ram", 0>>

\* What the cartridge holds there, by its registers.
GbShould(part) ==
  CASE part \in {"0000", "2000", "3000"} -> <<"rom", RefZero(gbref, gb.cart)>>
    [] part \in {"4000", "6000"} -> <<"rom", RefRomBank(gbref, gb.cart)>>
    [] part = "A000" -> <<"ram", RefReadExt(gbref, gb.cart)>>
    [] part = "none" -> <<"ram", 255>>

TransferShould(a) ==
  CASE a = "8000" -> <<"ram", IF pak.enabled THEN 132 ELSE 0>>
    [] a = "B000" -> <<"ram", (IF pakref.mode = 1 THEN 137 ELSE 128) + (IF pakref.told THEN 0 ELSE 4)>>
    [] OTHER -> GbShould(GbPart(pakref.bank, a))

PakShould(a) ==
  CASE pak.type = "mem" -> <<"mem", pakref.mem[a]>>
    [] pak.type = "rumble" -> <<"ram", 128>>
    [] pak.type = "none" -> <<"ram", 0>>
    [] pak.type = "transfer" -> TransferShould(a)

\* Addresses that a program reads of this pak; of a Transfer Pak only the status
\* before it has enabled it.
Readable ==
  CASE pak.type = "mem" -> PakBlocks
    [] pak.type = "transfer" -> IF pak.enabled THEN {"8000", "B000"} \cup Window ELSE {"8000"}
    [] OTHER -> {"8000"}

PakRead ==
  \E a \in Readable :
    /\ pakgot' = [Unasked EXCEPT !.answer = PakAnswer(a), !.right = PakShould(a)]
    /\ IF a = "B000"
       THEN pak' = [pak EXCEPT !.changed = FALSE] /\ pakref' = [pakref EXCEPT !.told = TRUE]
       ELSE UNCHANGED <<pak, pakref>>
    /\ UNCHANGED <<gb, gbref>>

-----------------------------------------------------------------------------

BankOf(d) == d

\* controller_pak_write: address 8000, for every pak.
PakEnable ==
  /\ \E on \in BOOLEAN : pak' = [pak EXCEPT !.enabled = on]
  /\ pakgot' = Unasked
  /\ UNCHANGED <<gb, gbref, pakref>>

MemWrite ==
  /\ pak.type = "mem"
  /\ \E a \in PakBlocks, d \in PakData :
       /\ pak' = [pak EXCEPT !.mem[a] = d]
       /\ pakref' = [pakref EXCEPT !.mem[a] = d]
       /\ pakgot' = [Unasked EXCEPT !.block = d, !.crc = controller_pak_crc(d)]
  /\ UNCHANGED <<gb, gbref>>

\* transfer_pak_write: the bank, the mode.
TransferSet ==
  /\ pak.type = "transfer" /\ pak.enabled
  /\ \/ \E d \in 0 .. 3 :
          /\ pak' = [pak EXCEPT !.bank = BankOf(d)]
          /\ pakref' = [pakref EXCEPT !.bank = d]
     \/ \E d \in 0 .. 1 :
          /\ pak' = [pak EXCEPT !.mode = d, !.changed = TRUE]
          /\ pakref' = [pakref EXCEPT !.mode = d, !.told = FALSE]
  /\ pakgot' = Unasked
  /\ UNCHANGED <<gb, gbref>>

\* gameboy_write: every byte of the block goes to gb_write, and the last one
\* stays. Programs enable the pak before, which the code does not check.
TransferWrite ==
  /\ pak.type = "transfer" /\ pak.enabled
  /\ \E a \in Window : LET part == GbPart(pak.bank, a) IN
       IF part = "none" THEN UNCHANGED <<gb, gbref>>
       ELSE \E d \in PakBytes :
              /\ GbUsual(gb.cart, GbPart(pakref.bank, a), d)
              /\ gb' = gb_write(gb, part, d)
              /\ gbref' = IF GbPart(pakref.bank, a) = "none" THEN gbref
                          ELSE RefWrite(gbref, gb.cart, GbPart(pakref.bank, a), d)
  /\ pakgot' = Unasked
  /\ UNCHANGED <<pak, pakref>>

PakNext == PakRead \/ PakEnable \/ MemWrite \/ TransferSet \/ TransferWrite

PakSpec == PakInit /\ [][PakNext]_pakVars

-----------------------------------------------------------------------------
\* Every block comes back as it was written, through the window as well: the
\* pak's bank and the cartridge's own banks together choose what is seen, and a
\* change of the mode is reported once.
PakAnswers == pakgot.answer = pakgot.right

\* The checksum that answers a write is the remainder of the block's bits by the
\* polynomial that the console's controllers use.
ChecksumRight == {k \in 0 .. 7 : Bit(pakgot.crc, k) = 1} = Remainder(pakgot.block)

\* Paks and cartridges as a whole: the bank controllers behind the window, the
\* window, and the checksum of what goes through it.
CartsRight == GbRomRight /\ GbRamRight /\ PakAnswers /\ ChecksumRight
==============================================================================
