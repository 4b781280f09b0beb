----------------------------- MODULE DiskDrive -----------------------------
(***************************************************************************)
(* The 64DD: the registers, the commands and the buffer manager of         *)
(* dd/controller.c. The buffer manager moves on by a sector whenever       *)
(* something calls dd_update_bm: a start, a DMA of one of its buffers, or, *)
(* between two blocks, a read of the status register.                      *)
(*                                                                         *)
(* The guest is free here: any command, any access to a register that has  *)
(* a handler of its own, and any DMA, in any order, on a console that has  *)
(* a disk. It leaves the plain registers alone (CUR_SECTOR is one), and    *)
(* starts at one of the two blocks, as the code asserts.                   *)
(* DiskTransfer puts the PI and a driver around it. The clock's commands   *)
(* change nothing but ASIC_DATA. Everything runs on the CPU's thread.      *)
(***************************************************************************)
EXTENDS Integers

CONSTANTS
  SectorsPerBlock,   \* 85
  C2Sectors,         \* 4: sectors of error correction after the data
  Tracks,            \* tracks the guest seeks
  BadTrack,          \* 6: its first block fails on retail drives
  Retail             \* dd->retail

ASSUME DiskAssumption ==
  /\ SectorsPerBlock \in Nat /\ SectorsPerBlock > 1
  /\ C2Sectors \in Nat /\ C2Sectors > 1
  /\ 0 \in Tracks
  /\ Retail \in BOOLEAN

VARIABLE dd        \* struct dd_controller, and its line in CAUSE

GapSector == SectorsPerBlock + C2Sectors

StatusFlags == {"DATA_RQ", "C2_XFER", "BM_INT", "MECHA_INT", "RST_STATE"}

ManagerFlags == {"RUNNING", "BLOCK", "MICRO"}

ControlFlags == {"BLK_TRANS", "MECHA_RST", "RESET", "START"}

Commands == {"SEEK_READ", "SEEK_WRITE", "CLR_RESET", "OTHER"}

Buffers == {"ds", "c2"}

Blocks == {0, 1}

\* The data buffer before any sector was read.
Empty == [track |-> 0, block |-> 0, sector |-> SectorsPerBlock]

DdInit ==
  dd = [cmd |-> {}, bm |-> {}, sector |-> 0, block |-> 0, write |-> FALSE,
        track |-> 0, held |-> FALSE, buf |-> Empty, overrun |-> {},
        line |-> FALSE]

-----------------------------------------------------------------------------
(* dd_update_bm, as a function of the controller's state s. *)

Running(s) == "RUNNING" \in s.bm

\* The next data sector is wanted from the guest.
WantSector(s) == [s EXCEPT !.sector = @ + 1, !.cmd = @ \cup {"DATA_RQ"}]

\* handle writes. No sector is stored: dd_write_sector is empty. An assertion
\* is compiled out of release builds, which go on: overrun notes it.
WriteHalf(s) ==
  IF s.sector < SectorsPerBlock THEN WantSector(s)
  ELSE IF s.sector > SectorsPerBlock THEN [s EXCEPT !.overrun = @ \cup {"write"}]
  ELSE IF "BLOCK" \in s.bm
  THEN [s EXCEPT !.block = 1 - @, !.sector = 1, !.bm = @ \ {"BLOCK"},
                 !.cmd = @ \cup {"DATA_RQ"}]
  ELSE [s EXCEPT !.sector = @ + 1, !.bm = @ \ {"RUNNING"}]

\* Mutant of ReadSector: the sector after the one that is due.
ReadSectorAfter(s) ==
  [s EXCEPT !.buf = [track |-> s.track, block |-> s.block, sector |-> s.sector + 1],
            !.sector = @ + 1, !.cmd = @ \cup {"DATA_RQ"}]

\* dd_read_sector, and the request to take it.
ReadSector(s) ==
  [s EXCEPT !.buf = [track |-> s.track, block |-> s.block, sector |-> s.sector],
            !.sector = @ + 1, !.cmd = @ \cup {"DATA_RQ"}]

\* Mutant of C2Sector: two at a time.
C2SectorTwo(s) ==
  [s EXCEPT !.sector = @ + 2,
            !.cmd = @ \cup (IF s.sector + 1 = GapSector THEN {"C2_XFER"} ELSE {})]

\* A C2 sector: all zeroes, so it is only counted, and announced after the last.
C2Sector(s) ==
  [s EXCEPT !.sector = @ + 1,
            !.cmd = @ \cup (IF s.sector + 1 = GapSector THEN {"C2_XFER"} ELSE {})]

\* Mutant of Gap: the other block starts with its second sector.
GapSkips(s) ==
  IF "BLOCK" \in s.bm
  THEN [s EXCEPT !.block = 1 - @, !.sector = 1, !.bm = @ \ {"BLOCK"}]
  ELSE [s EXCEPT !.bm = @ \ {"RUNNING"}]

\* The gap: on to the other block, or stop.
Gap(s) ==
  IF "BLOCK" \in s.bm
  THEN [s EXCEPT !.block = 1 - @, !.sector = 0, !.bm = @ \ {"BLOCK"}]
  ELSE [s EXCEPT !.bm = @ \ {"RUNNING"}]

FailsHere(s) == Retail /\ s.track = BadTrack /\ s.block = 0

ReadHalf(s) ==
  IF FailsHere(s)
  THEN [s EXCEPT !.cmd = @ \ {"DATA_RQ"}, !.bm = @ \cup {"MICRO"}]
  ELSE IF s.sector < SectorsPerBlock THEN ReadSector(s)
  ELSE IF s.sector < GapSector THEN C2Sector(s)
  ELSE IF s.sector = GapSector THEN Gap(s)
  ELSE [s EXCEPT !.overrun = @ \cup {"read"}]

\* The half for reading follows the half for writing: nothing returns between.
UpdateBm(s) ==
  IF ~Running(s) THEN s
  ELSE [ReadHalf(IF s.write THEN WriteHalf(s) ELSE s)
          EXCEPT !.cmd = @ \cup {"BM_INT"}, !.line = TRUE]

-----------------------------------------------------------------------------
(* The handlers: what each leaves of the state s it is called in. *)

\* read_dd_regs of ASIC_CMD_STATUS: in the C2 sectors and the gap the read
\* itself moves on. The guest gets the flags from before.
AfterStatusRead(s) ==
  IF "BM_INT" \in s.cmd /\ s.sector > SectorsPerBlock
  THEN UpdateBm([s EXCEPT !.cmd = @ \ {"BM_INT"}, !.line = FALSE])
  ELSE s

\* write_dd_regs, ASIC_CMD_STATUS: always answered with an interrupt.
AfterCommand(s, c, t) ==
  LET seek == c \in {"SEEK_READ", "SEEK_WRITE"}
  IN  [s EXCEPT
         !.track = IF seek THEN t ELSE @,
         !.write = IF seek THEN c = "SEEK_WRITE" ELSE @,
         !.cmd = (IF c = "CLR_RESET" THEN @ \ {"RST_STATE"} ELSE @) \cup {"MECHA_INT"},
         !.line = TRUE]

\* The first part of a control write, up to the reset.
ControlStart(s, blk, f) ==
  [s EXCEPT !.block = blk, !.sector = 0,
            !.bm = IF "BLK_TRANS" \in f THEN @ \cup {"BLOCK"} ELSE @,
            !.cmd = IF "MECHA_RST" \in f THEN @ \ {"MECHA_INT"} ELSE @,
            !.held = @ \/ "RESET" \in f]

ControlReset(s, f) ==
  IF s.held /\ "RESET" \notin f
  THEN [s EXCEPT !.held = FALSE, !.bm = {}, !.sector = 0, !.block = 0,
                 !.cmd = @ \ {"BM_INT", "DATA_RQ", "C2_XFER"}]
  ELSE s

\* Mutant of ControlLine: one of the two interrupts that is clear lowers the line.
ControlLineEither(s) ==
  [s EXCEPT !.line = @ /\ {"BM_INT", "MECHA_INT"} \subseteq s.cmd]

\* clear DD interrupt if BM and MECHA int are clear
ControlLine(s) ==
  [s EXCEPT !.line = @ /\ s.cmd \cap {"BM_INT", "MECHA_INT"} # {}]

\* write_dd_regs, ASIC_BM_STATUS_CTL.
AfterControl(s, blk, f) ==
  LET r == ControlLine(ControlReset(ControlStart(s, blk, f), f))
  IN  IF "START" \in f
      THEN UpdateBm([r EXCEPT !.bm = @ \cup {"RUNNING"}]) ELSE r

\* write_dd_regs, ASIC_HARD_RESET: the line stays as it was.
AfterHardReset(s) == [s EXCEPT !.cmd = {"RST_STATE"}]

\* dd_pi_write: the PI is given the address of a buffer.
AfterPiWrite(s, b) ==
  [s EXCEPT !.cmd = @ \ {IF b = "ds" THEN "DATA_RQ" ELSE "C2_XFER", "BM_INT"},
            !.line = FALSE]

\* dd_dma_write of a buffer.
AfterDma(s) == UpdateBm(s)

-----------------------------------------------------------------------------
ReadStatus == dd' = AfterStatusRead(dd)

Command == \E c \in Commands, t \in Tracks : dd' = AfterCommand(dd, c, t)

Control == \E blk \in Blocks, f \in SUBSET ControlFlags : dd' = AfterControl(dd, blk, f)

HardReset == dd' = AfterHardReset(dd)

PiWrite == \E b \in Buffers : dd' = AfterPiWrite(dd, b)

DmaWrite == dd' = AfterDma(dd)

DdNext == ReadStatus \/ Command \/ Control \/ HardReset \/ PiWrite \/ DmaWrite

DdSpec == DdInit /\ [][DdNext]_dd

-----------------------------------------------------------------------------
DdStates ==
  [cmd : SUBSET StatusFlags, bm : SUBSET ManagerFlags, sector : Nat,
   block : Blocks, write : BOOLEAN, track : Tracks, held : BOOLEAN,
   buf : [track : Tracks, block : Blocks, sector : Nat],
   overrun : SUBSET {"read", "write"}, line : BOOLEAN]

DdTypeOK == dd \in DdStates

\* However commands, control writes, status reads and DMAs are mixed, reading
\* and writing, the assertion "DD read sector overrun" is never reached.
NoReadOverrun == dd.sector <= GapSector /\ "read" \notin dd.overrun

\* While the drive asks for a data sector to be taken, the buffer holds the
\* sector before the current one, of the current block.
BufferFresh ==
  "DATA_RQ" \in dd.cmd /\ dd.sector \in 1 .. SectorsPerBlock =>
    dd.buf.sector = dd.sector - 1 /\ dd.buf.block = dd.block

\* An interrupt of the buffer manager is never lost: while it is pending the
\* line is up.
BmHeard == "BM_INT" \in dd.cmd => dd.line

\* The line is not up for nothing: an interrupt is pending, or a hard reset
\* threw it away.
LineExplained ==
  dd.line => dd.cmd \cap {"BM_INT", "MECHA_INT", "RST_STATE"} # {}

\* "Always signal an interrupt in response": a command's interrupt that was not
\* acknowledged is one the CPU can see ("clear DD interrupt if BM and MECHA int
\* are clear").
MechaHeard == "MECHA_INT" \in dd.cmd => dd.line

\* When a read moves on it is by one sector, or from the gap to the start of
\* the other block: none is skipped, none comes twice.
ReadsInOrder ==
  [][~dd.write /\ dd'.sector # dd.sector /\ dd'.sector # 0 =>
       dd'.sector = dd.sector + 1 \/ dd'.sector = 1]_dd

\* When a write moves on it is by one sector too: as the comment has it, "if we
\* aren't writing, we're doing a read", so a step is not both.
WritesInOrder ==
  [][dd.write /\ dd'.sector > dd.sector => dd'.sector = dd.sector + 1]_dd

\* A sector is in the buffer for as long as it is announced, and no read runs
\* past the end of its block.
SectorFresh == NoReadOverrun /\ BufferFresh

\* The line to the CPU is up while the buffer manager waits, and not for nothing.
LineExact == BmHeard /\ LineExplained
=============================================================================
