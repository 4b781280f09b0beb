---------------------------- MODULE DiskTransfer ----------------------------
(***************************************************************************)
(* A disk and the PI at work for a guest: pi/controller.c and              *)
(* dd/controller.c together, with the calls from the one to the other, and *)
(* a driver that transfers one or two blocks the way the code expects it.  *)
(*                                                                         *)
(* The driver is external. It waits for the line of the 64DD, looks at the *)
(* status, moves the buffer that the status asks for by a DMA, waits for   *)
(* the interrupt of the PI, and starts again. The cycles of the PI go on   *)
(* between any two of its steps.                                           *)
(***************************************************************************)
EXTENDS PiController, DiskDrive, Sequences

CONSTANTS
  Jobs,        \* what the driver may be asked for: sets of JobKinds
  Track,       \* the track it seeks
  SectorBytes  \* the length it programs for a DMA

\* A write, not a read; of two blocks, not one; from the second block of the
\* track (sector 0x5A), not the first.
JobKinds == {"write", "two", "second"}

ASSUME TransferAssumption ==
  /\ Buffers \subseteq Areas
  /\ Jobs \subseteq SUBSET JobKinds
  /\ Track \in Tracks /\ (Retail => Track # BadTrack)
  /\ SectorBytes \in Lengths

VARIABLES
  job,    \* the job in hand
  pc,     \* where the driver is
  seen,   \* the status it read last
  got     \* history: what DMAs have brought to RDRAM

vars == <<piVars, dd, job, pc, seen, got>>

BufferAddress(b) == [area |-> b, bank |-> 0, off |-> 0]

Init ==
  /\ PiInit /\ DdInit
  /\ job \in Jobs /\ pc = "seek" /\ seen = {} /\ got = <<>>

-----------------------------------------------------------------------------
(* The PI's cycle, with the end of pi_dma_write in the 64DD. *)

ToRdram == pi.dir = "wr" /\ pi.cart.area \in Buffers

FirstOf(j) == IF "second" \in j THEN 1 ELSE 0

\* What the DMA of a buffer brings: the C2 data, all zeroes, is one more sector,
\* of whichever block is being finished.
Delivered(b) ==
  IF b = "ds"
  THEN [block |-> dd.buf.block, sector |-> dd.buf.sector]
  ELSE [block |-> (FirstOf(job) + Len(got) \div (SectorsPerBlock + 1)) % 2,
        sector |-> SectorsPerBlock]

\* Mutant of DiskFinish: the drive is not told that its buffer was taken.
DiskFinishUntold ==
  /\ PiFinish
  /\ dd' = dd
  /\ got' = IF ToRdram THEN Append(got, Delivered(pi.cart.area)) ELSE got
  /\ UNCHANGED <<job, pc, seen>>

\* A DMA to the bus does nothing in the drive: pi_dma_read looks for the drive
\* in the RDRAM address, which has no such bits, and never calls dd_dma_read.
DiskFinish ==
  /\ PiFinish
  /\ dd' = IF ToRdram THEN AfterDma(dd) ELSE dd
  /\ got' = IF ToRdram THEN Append(got, Delivered(pi.cart.area)) ELSE got
  /\ UNCHANGED <<job, pc, seen>>

DiskCycle ==
  \/ DiskFinish
  \/ (PiCount \/ PiIdle) /\ UNCHANGED <<dd, job, pc, seen, got>>

-----------------------------------------------------------------------------
(* The driver. *)

Goto(at, to) == pc = at /\ pc' = to /\ UNCHANGED <<job, got>>

Seek ==
  /\ Goto("seek", "sought")
  /\ dd' = AfterCommand(dd, IF "write" \in job THEN "SEEK_WRITE" ELSE "SEEK_READ", Track)
  /\ UNCHANGED <<piVars, seen>>

AckSeek ==
  /\ Goto("sought", "start") /\ dd.line
  /\ dd' = AfterControl(dd, 0, {"MECHA_RST"})
  /\ UNCHANGED <<piVars, seen>>

Start ==
  /\ Goto("start", "wait")
  /\ dd' = AfterControl(dd, FirstOf(job), {"START"} \cup IF "two" \in job THEN {"BLK_TRANS"} ELSE {})
  /\ UNCHANGED <<piVars, seen>>

Look ==
  /\ Goto("wait", "serve") /\ dd.line
  /\ seen' = dd.cmd
  /\ dd' = AfterStatusRead(dd)
  /\ UNCHANGED piVars

\* Which buffer the status asks for: data first.
Wanted ==
  IF "DATA_RQ" \in seen THEN {"ds"} ELSE IF "C2_XFER" \in seen THEN {"c2"} ELSE {}

\* PI_CART_ADDR, with the call of dd_pi_write.
WriteAddress(b) ==
  /\ Goto("serve", "go")
  /\ PiWriteCart(BufferAddress(b))
  /\ dd' = AfterPiWrite(dd, b)
  /\ UNCHANGED seen

NothingWanted ==
  /\ Goto("serve", "wait") /\ Wanted = {}
  /\ UNCHANGED <<piVars, dd, seen>>

WriteLength ==
  /\ Goto("go", "moving")
  /\ PiWriteLen(IF "write" \in job /\ pi.cart.area = "ds" THEN "rd" ELSE "wr", SectorBytes)
  /\ UNCHANGED <<dd, seen>>

\* The PI's interrupt is acknowledged. After the C2 data of the last block the
\* buffer manager has stopped.
Moved ==
  /\ Goto("moving", IF pi.cart.area = "c2" /\ ~Running(dd) THEN "done" ELSE "wait")
  /\ pi_intr
  /\ PiWriteStatus(FALSE, TRUE)
  /\ UNCHANGED <<dd, seen>>

Driver ==
  \/ Seek \/ AckSeek \/ Start \/ Look \/ NothingWanted \/ WriteLength \/ Moved
  \/ \E b \in Wanted : WriteAddress(b)

\* The next job.
Again ==
  /\ pc = "done" /\ pc' = "seek"
  /\ job' \in Jobs /\ got' = <<>>
  /\ UNCHANGED <<piVars, dd, seen>>

Next == DiskCycle \/ Driver \/ Again

\* The PI is stepped in every cycle; the driver is guest code that runs on.
Spec == Init /\ [][Next]_vars /\ WF_vars(DiskCycle) /\ WF_vars(Driver)

-----------------------------------------------------------------------------
Disk == INSTANCE DiskBlocks WITH
  PerBlock <- SectorsPerBlock,
  ask <- [first |-> FirstOf(job), blocks |-> IF "two" \in job THEN 2 ELSE 1]

\* A read delivers exactly the sectors it was asked for, in order, each once,
\* with the C2 data of every block, and all of them in the end: no status read,
\* DMA or interrupt of the two controllers loses, repeats or swaps a sector.
ImplementsBlocks == Disk!Spec

\* A job that was started comes to its end: neither the drive nor the driver
\* waits for the other for ever.
TransferEnds == (pc = "seek") ~> (pc = "done")
=============================================================================
