-------------------------- MODULE DiskDrive_proofs --------------------------
(***************************************************************************)
(* Proofs about the 64DD for every size of block, set of tracks and drive. *)
(*                                                                         *)
(* The invariant is a predicate of a state of the controller, DdGood. The  *)
(* handlers are functions of such a state, so there is one lemma for each  *)
(* function: dd_update_bm establishes most of DdGood by itself, and every  *)
(* handler keeps what it needs on the way to its call.                     *)
(*                                                                         *)
(* The second half is about DiskTransfer, the drive with the PI and the    *)
(* driver: what they deliver is what DiskBlocks promises.                  *)
(***************************************************************************)
EXTENDS DiskTransfer, TLAPS

InRange(s) == s.sector <= GapSector /\ "read" \notin s.overrun

Fresh(s) ==
  "DATA_RQ" \in s.cmd /\ s.sector \in 1 .. SectorsPerBlock =>
    s.buf.sector = s.sector - 1 /\ s.buf.block = s.block

Heard(s) == "BM_INT" \in s.cmd => s.line

Explained(s) == s.line => s.cmd \cap {"BM_INT", "MECHA_INT", "RST_STATE"} # {}

DdGood(s) ==
  s \in DdStates /\ InRange(s) /\ Fresh(s) /\ Heard(s) /\ Explained(s)

\* The sizes are numbers, and the gap comes after at least two C2 sectors.
LEMMA Sizes ==
  /\ SectorsPerBlock \in Nat /\ SectorsPerBlock > 1
  /\ GapSector \in Nat /\ GapSector >= SectorsPerBlock + 2
BY DiskAssumption DEF GapSector

\* The fields that an advance of the buffer manager changes keep their type.
LEMMA Fields ==
  ASSUME NEW s \in DdStates
  PROVE  /\ \A f \in StatusFlags : s.cmd \cup {f} \in SUBSET StatusFlags
         /\ \A f \in StatusFlags : s.cmd \ {f} \in SUBSET StatusFlags
         /\ \A f \in ManagerFlags : s.bm \cup {f} \in SUBSET ManagerFlags
         /\ \A f \in ManagerFlags : s.bm \ {f} \in SUBSET ManagerFlags
         /\ s.overrun \cup {"write"} \in SUBSET {"read", "write"}
         /\ s.sector + 1 \in Nat /\ 1 - s.block \in Blocks
         /\ {"DATA_RQ", "C2_XFER", "BM_INT"} \subseteq StatusFlags
         /\ {"RUNNING", "BLOCK", "MICRO"} \subseteq ManagerFlags
<1>1. s.cmd \in SUBSET StatusFlags /\ s.bm \in SUBSET ManagerFlags
  BY DEF DdStates
<1>2. s.overrun \in SUBSET {"read", "write"} /\ s.sector \in Nat /\ s.block \in {0, 1}
  BY DEF DdStates, Blocks
<1> QED BY <1>1, <1>2 DEF StatusFlags, ManagerFlags, Blocks

\* A controller with another block and sector, and other flags of its manager.
Relocated(s, k, n, b) == [s EXCEPT !.block = k, !.sector = n, !.bm = b]

LEMMA RelocatedTyped ==
  ASSUME NEW s \in DdStates, NEW k \in Blocks, NEW n \in Nat,
         NEW b \in SUBSET ManagerFlags
  PROVE  /\ Relocated(s, k, n, b) \in DdStates
         /\ Relocated(s, k, n, b).sector = n
         /\ Relocated(s, k, n, b).overrun = s.overrun
<1> DEFINE a == [s EXCEPT !.block = k]
           e == [a EXCEPT !.sector = n]
           m == [e EXCEPT !.bm = b]
<1>1. a \in DdStates /\ a.overrun = s.overrun
  BY DEF DdStates
<1>2. Relocated(s, k, n, b) = m
  BY DEF Relocated
<1> HIDE DEF a
<1>3. e \in DdStates /\ e.sector = n /\ e.overrun = a.overrun
  BY <1>1 DEF DdStates
<1> HIDE DEF e
<1>4. m \in DdStates /\ m.sector = e.sector /\ m.overrun = e.overrun
  BY <1>3 DEF DdStates
<1> HIDE DEF m
<1> QED BY <1>1, <1>2, <1>3, <1>4

\* The half for writing keeps the sector in range: it advances only up to the
\* end of the data, and otherwise notes the overrun of a write.
LEMMA WriteHalfRange ==
  ASSUME NEW s \in DdStates, InRange(s)
  PROVE  WriteHalf(s) \in DdStates /\ InRange(WriteHalf(s))
<1> DEFINE n == s.sector + 1
           k == 1 - s.block
           c == s.cmd \cup {"DATA_RQ"}
           b == s.bm \ {"BLOCK"}
           h == s.bm \ {"RUNNING"}
<1>1. /\ n \in Nat /\ k \in Blocks /\ c \in SUBSET StatusFlags
      /\ b \in SUBSET ManagerFlags /\ h \in SUBSET ManagerFlags
  BY Fields
<1>2. s.sector \in Nat /\ (s.sector <= SectorsPerBlock => n <= GapSector)
  BY Sizes DEF DdStates
<1>3. CASE s.sector < SectorsPerBlock
  <2>1. WriteHalf(s) = [s EXCEPT !.sector = n, !.cmd = c]
    BY <1>3 DEF WriteHalf, WantSector
  <2> HIDE DEF n, k, c, b, h
  <2>2. WriteHalf(s) \in DdStates
    BY <1>1, <2>1 DEF DdStates
  <2>3. WriteHalf(s).sector = n /\ WriteHalf(s).overrun = s.overrun
    BY <2>1 DEF DdStates
  <2> QED BY <1>2, <1>3, <2>2, <2>3, Sizes DEF InRange
<1>4. CASE s.sector > SectorsPerBlock
  BY <1>4, Sizes DEF WriteHalf, DdStates, InRange
<1>5. CASE s.sector = SectorsPerBlock /\ "BLOCK" \in s.bm
  <2> DEFINE m == Relocated(s, k, 1, b)
  <2>1. WriteHalf(s) = [m EXCEPT !.cmd = c]
    BY <1>5, Sizes DEF WriteHalf, Relocated
  <2> HIDE DEF n, k, c, b, h
  <2>2. m \in DdStates /\ m.sector = 1 /\ m.overrun = s.overrun
    <3>1. 1 \in Nat OBVIOUS
    <3> QED BY <1>1, <3>1, RelocatedTyped
  <2> HIDE DEF m
  <2>3. /\ WriteHalf(s) \in DdStates
        /\ WriteHalf(s).sector = 1 /\ WriteHalf(s).overrun = s.overrun
    BY <1>1, <2>1, <2>2 DEF DdStates
  <2> QED BY <2>3, Sizes DEF InRange
<1>6. CASE s.sector = SectorsPerBlock /\ "BLOCK" \notin s.bm
  <2>1. WriteHalf(s) = [s EXCEPT !.sector = n, !.bm = h]
    BY <1>6, Sizes DEF WriteHalf
  <2> HIDE DEF n, k, c, b, h
  <2>2. WriteHalf(s) \in DdStates
    BY <1>1, <2>1 DEF DdStates
  <2>3. WriteHalf(s).sector = n /\ WriteHalf(s).overrun = s.overrun
    BY <2>1 DEF DdStates
  <2> QED BY <1>2, <1>6, <2>2, <2>3, Sizes DEF InRange
<1> QED BY <1>2, <1>3, <1>4, <1>5, <1>6, Sizes

\* The half for reading keeps the sector in range, and leaves a fresh buffer
\* whatever it was called with.
LEMMA ReadHalfFresh ==
  ASSUME NEW s \in DdStates, InRange(s)
  PROVE  ReadHalf(s) \in DdStates /\ InRange(ReadHalf(s)) /\ Fresh(ReadHalf(s))
<1> DEFINE n == s.sector + 1
           k == 1 - s.block
           c == s.cmd \cup {"DATA_RQ"}
           d == s.cmd \ {"DATA_RQ"}
           e == s.cmd \cup (IF n = GapSector THEN {"C2_XFER"} ELSE {})
           m == s.bm \cup {"MICRO"}
           b == s.bm \ {"BLOCK"}
           h == s.bm \ {"RUNNING"}
           u == [track |-> s.track, block |-> s.block, sector |-> s.sector]
<1>1. /\ n \in Nat /\ k \in Blocks
      /\ c \in SUBSET StatusFlags /\ d \in SUBSET StatusFlags /\ "DATA_RQ" \notin d
      /\ m \in SUBSET ManagerFlags /\ b \in SUBSET ManagerFlags
      /\ h \in SUBSET ManagerFlags
  BY Fields
<1>2. e \in SUBSET StatusFlags
  BY Fields DEF DdStates
<1>3. s.sector \in Nat /\ s.sector <= GapSector /\ "read" \notin s.overrun
  BY DEF DdStates, InRange
<1>4. u \in [track : Tracks, block : Blocks, sector : Nat]
  BY DEF DdStates
<1>5. CASE FailsHere(s)
  <2>1. ReadHalf(s) = [s EXCEPT !.cmd = d, !.bm = m]
    BY <1>5 DEF ReadHalf
  <2> HIDE DEF d, m
  <2> QED BY <1>1, <1>3, <2>1 DEF DdStates, InRange, Fresh
<1>6. CASE ~FailsHere(s) /\ s.sector < SectorsPerBlock
  <2>1. ReadHalf(s) = [s EXCEPT !.buf = u, !.sector = n, !.cmd = c]
    BY <1>6 DEF ReadHalf, ReadSector
  <2>2. u.sector = n - 1 /\ u.block = s.block /\ n <= GapSector
    BY <1>3, <1>6, Sizes
  <2> HIDE DEF u, n, c
  <2>3. ReadHalf(s) \in DdStates
    BY <1>1, <1>4, <2>1 DEF DdStates
  <2>4. /\ ReadHalf(s).sector = n /\ ReadHalf(s).buf = u
        /\ ReadHalf(s).block = s.block /\ ReadHalf(s).overrun = s.overrun
    BY <2>1 DEF DdStates
  <2> QED BY <1>3, <2>2, <2>3, <2>4 DEF InRange, Fresh
<1>7. CASE ~FailsHere(s) /\ s.sector >= SectorsPerBlock /\ s.sector < GapSector
  <2>1. ReadHalf(s) = [s EXCEPT !.sector = n, !.cmd = e]
    BY <1>3, <1>7, Sizes DEF ReadHalf, C2Sector
  <2>2. n > SectorsPerBlock /\ n <= GapSector
    BY <1>3, <1>7, Sizes
  <2> HIDE DEF n, e
  <2>3. ReadHalf(s) \in DdStates
    BY <1>1, <1>2, <2>1 DEF DdStates
  <2>4. ReadHalf(s).sector = n /\ ReadHalf(s).overrun = s.overrun
    BY <2>1 DEF DdStates
  <2> QED BY <1>1, <1>3, <2>2, <2>3, <2>4, Sizes DEF InRange, Fresh
<1>8. CASE ~FailsHere(s) /\ s.sector = GapSector
  <2>1. ReadHalf(s) = Gap(s)
    BY <1>3, <1>8, Sizes DEF ReadHalf
  <2>2. CASE "BLOCK" \in s.bm
    <3>1. ReadHalf(s) = Relocated(s, k, 0, b)
      BY <2>1, <2>2 DEF Gap, Relocated
    <3> HIDE DEF n, k, c, d, e, m, b, h, u
    <3>2. k \in Blocks /\ b \in SUBSET ManagerFlags /\ 0 \in Nat
      BY <1>1
    <3>3. /\ Relocated(s, k, 0, b) \in DdStates
          /\ Relocated(s, k, 0, b).sector = 0
          /\ Relocated(s, k, 0, b).overrun = s.overrun
      BY <3>2, RelocatedTyped
    <3>4. /\ ReadHalf(s) \in DdStates
          /\ ReadHalf(s).sector = 0 /\ ReadHalf(s).overrun = s.overrun
      BY <3>1, <3>3
    <3> QED BY <1>3, <3>4, Sizes DEF InRange, Fresh
  <2>3. CASE "BLOCK" \notin s.bm
    <3>1. ReadHalf(s) = [s EXCEPT !.bm = h]
      BY <2>1, <2>3 DEF Gap
    <3> HIDE DEF h
    <3> QED BY <1>1, <1>3, <1>8, <3>1, Sizes DEF DdStates, InRange, Fresh
  <2> QED BY <2>2, <2>3
<1> QED BY <1>3, <1>5, <1>6, <1>7, <1>8, Sizes

\* What a running buffer manager leaves is good, if the sector was in range.
LEMMA UpdateGood ==
  ASSUME NEW s \in DdStates, InRange(s), Running(s)
  PROVE  DdGood(UpdateBm(s))
<1> DEFINE w == IF s.write THEN WriteHalf(s) ELSE s
           r == ReadHalf(w)
           c == r.cmd \cup {"BM_INT"}
<1>1. w \in DdStates /\ InRange(w)
  BY WriteHalfRange
<1> HIDE DEF w
<1>2. r \in DdStates /\ InRange(r) /\ Fresh(r)
  BY <1>1, ReadHalfFresh
<1>3. UpdateBm(s) = [r EXCEPT !.cmd = c, !.line = TRUE]
  BY DEF UpdateBm, w
<1> HIDE DEF r
<1>4. c \in SUBSET StatusFlags /\ "BM_INT" \in c /\ ("DATA_RQ" \in c => "DATA_RQ" \in r.cmd)
  BY <1>2, Fields
<1> HIDE DEF c
<1> QED BY <1>2, <1>3, <1>4 DEF DdGood, DdStates, InRange, Fresh, Heard, Explained

\* A read of the status.
LEMMA StatusReadGood ==
  ASSUME NEW s, DdGood(s) PROVE DdGood(AfterStatusRead(s))
<1> DEFINE c == [s EXCEPT !.cmd = @ \ {"BM_INT"}, !.line = FALSE]
<1>1. DdGood(c)
  BY DEF DdGood, DdStates, InRange, Fresh, Heard, Explained
<1>2. DdGood(UpdateBm(c))
  <2>1. CASE Running(c)
    <3> HIDE DEF c
    <3> QED BY <1>1, <2>1, UpdateGood DEF DdGood
  <2>2. CASE ~Running(c)
    <3> HIDE DEF c
    <3> QED BY <1>1, <2>2 DEF UpdateBm
  <2> QED BY <2>1, <2>2
<1> QED BY <1>2 DEF AfterStatusRead

\* A command.
LEMMA CommandGood ==
  ASSUME NEW s, DdGood(s), NEW c \in Commands, NEW t \in Tracks
  PROVE  DdGood(AfterCommand(s, c, t))
BY DEF AfterCommand, DdGood, DdStates, InRange, Fresh, Heard, Explained, StatusFlags

\* A control write, up to the line: the sector is zero, so there is nothing to
\* be fresh, but the line may be up for an interrupt that is gone.
LEMMA ControlBefore ==
  ASSUME NEW s, DdGood(s), NEW blk \in Blocks, NEW f \in SUBSET ControlFlags
  PROVE  LET r == ControlReset(ControlStart(s, blk, f), f)
         IN  r \in DdStates /\ r.sector = 0 /\ "read" \notin r.overrun /\ Heard(r)
<1> DEFINE a == ControlStart(s, blk, f)
<1>1. a \in DdStates /\ a.sector = 0 /\ "read" \notin a.overrun /\ Heard(a)
  BY DEF ControlStart, DdGood, DdStates, InRange, Heard, ManagerFlags
<1> HIDE DEF a
<1>2. LET r == ControlReset(a, f)
      IN  r \in DdStates /\ r.sector = 0 /\ "read" \notin r.overrun /\ Heard(r)
  BY <1>1 DEF ControlReset, DdStates, Heard, Blocks
<1> QED BY <1>2 DEF a

LEMMA ControlGood ==
  ASSUME NEW s, DdGood(s), NEW blk \in Blocks, NEW f \in SUBSET ControlFlags
  PROVE  DdGood(AfterControl(s, blk, f))
<1> DEFINE b == ControlReset(ControlStart(s, blk, f), f)
           r == ControlLine(b)
           g == [r EXCEPT !.bm = @ \cup {"RUNNING"}]
<1>1. b \in DdStates /\ b.sector = 0 /\ "read" \notin b.overrun /\ Heard(b)
  BY ControlBefore
<1> HIDE DEF b
<1>2. DdGood(r)
  <2> DEFINE l == b.line /\ b.cmd \cap {"BM_INT", "MECHA_INT"} # {}
  <2>1. r = [b EXCEPT !.line = l]
    BY DEF ControlLine
  <2>2. /\ l \in BOOLEAN /\ ("BM_INT" \in b.cmd => l)
        /\ l => b.cmd \cap {"BM_INT", "MECHA_INT", "RST_STATE"} # {}
    BY <1>1 DEF Heard, DdStates
  <2> HIDE DEF l, r
  <2>3. /\ r \in DdStates
        /\ r.sector = 0 /\ r.overrun = b.overrun /\ r.cmd = b.cmd /\ r.line = l
    BY <1>1, <2>1, <2>2 DEF DdStates
  <2> QED BY <1>1, <2>2, <2>3, Sizes DEF DdGood, InRange, Fresh, Heard, Explained
<1> HIDE DEF r
<1>3. g \in DdStates /\ InRange(g) /\ Running(g)
  BY <1>2 DEF DdGood, DdStates, InRange, Running, ManagerFlags
<1> HIDE DEF g
<1>4. DdGood(UpdateBm(g))
  BY <1>3, UpdateGood
<1> QED BY <1>2, <1>4 DEF AfterControl, b, r, g

\* A hard reset, and an address given to the PI.
LEMMA ResetGood ==
  ASSUME NEW s, DdGood(s) PROVE DdGood(AfterHardReset(s))
BY DEF AfterHardReset, DdGood, DdStates, InRange, Fresh, Heard, Explained, StatusFlags

LEMMA PiWriteGood ==
  ASSUME NEW s, DdGood(s), NEW b \in Buffers PROVE DdGood(AfterPiWrite(s, b))
BY DEF AfterPiWrite, DdGood, DdStates, InRange, Fresh, Heard, Explained, StatusFlags, Buffers

\* A DMA of a buffer.
LEMMA DmaGood ==
  ASSUME NEW s, DdGood(s) PROVE DdGood(AfterDma(s))
<1>1. CASE Running(s)
  BY <1>1, UpdateGood DEF AfterDma, DdGood
<1>2. CASE ~Running(s)
  BY <1>2 DEF AfterDma, UpdateBm
<1> QED BY <1>1, <1>2

\* The state of the controller is good in every reachable state.
THEOREM DiskGood == DdSpec => []DdGood(dd)
<1>1. DdInit => DdGood(dd)
  BY Sizes, DiskAssumption DEF DdInit, DdGood, DdStates, InRange, Fresh, Heard, Explained,
     Empty, Blocks
<1>2. DdGood(dd) /\ [DdNext]_dd => DdGood(dd)'
  <2> SUFFICES ASSUME DdGood(dd), [DdNext]_dd PROVE DdGood(dd')
    BY DEF DdGood, DdStates, InRange, Fresh, Heard, Explained
  <2>1. CASE ReadStatus BY <2>1, StatusReadGood DEF ReadStatus
  <2>2. CASE Command    BY <2>2, CommandGood DEF Command
  <2>3. CASE Control    BY <2>3, ControlGood DEF Control
  <2>4. CASE HardReset  BY <2>4, ResetGood DEF HardReset
  <2>5. CASE PiWrite    BY <2>5, PiWriteGood DEF PiWrite
  <2>6. CASE DmaWrite   BY <2>6, DmaGood DEF DmaWrite
  <2>7. CASE UNCHANGED dd BY <2>7
  <2> QED BY <2>1, <2>2, <2>3, <2>4, <2>5, <2>6, <2>7 DEF DdNext
<1> QED BY <1>1, <1>2, PTL DEF DdSpec

\* No sequence of commands, status reads and transfers makes a read run past the
\* gap, and a sector that the drive asks the guest to take is the one in its
\* buffer: nothing overwrites it before it is taken.
THEOREM SectorsFresh == DdSpec => []SectorFresh
<1>1. DdGood(dd) => SectorFresh
  BY DEF DdGood, InRange, Fresh, NoReadOverrun, BufferFresh, SectorFresh
<1> QED BY <1>1, DiskGood, PTL

\* The line is up for every interrupt of the buffer manager, and not without a
\* reason that the status register shows.
THEOREM LineIsExact == DdSpec => []LineExact
<1>1. DdGood(dd) => LineExact
  BY DEF DdGood, Heard, Explained, BmHeard, LineExplained, LineExact
<1> QED BY <1>1, DiskGood, PTL

-----------------------------------------------------------------------------
(* The order of a read. *)

\* A step of the half for reading: to the next sector, or to the start.
LEMMA ReadHalfStep ==
  ASSUME NEW s \in DdStates
  PROVE  ReadHalf(s).sector \in {s.sector, s.sector + 1, 0}
<1>1. CASE FailsHere(s)
  BY <1>1 DEF ReadHalf, DdStates
<1>2. CASE ~FailsHere(s) /\ s.sector < SectorsPerBlock
  <2>1. ReadHalf(s) = ReadSector(s)
    BY <1>2 DEF ReadHalf
  <2>2. ReadSector(s).sector = s.sector + 1
    BY DEF ReadSector, DdStates
  <2> QED BY <2>1, <2>2
<1>3. CASE ~FailsHere(s) /\ s.sector >= SectorsPerBlock /\ s.sector < GapSector
  <2>1. ReadHalf(s) = C2Sector(s)
    BY <1>3, Sizes DEF ReadHalf, DdStates
  <2>2. C2Sector(s).sector = s.sector + 1
    BY DEF C2Sector, DdStates
  <2> QED BY <2>1, <2>2
<1>4. CASE ~FailsHere(s) /\ s.sector = GapSector
  <2>1. ReadHalf(s) = Gap(s)
    BY <1>4, Sizes DEF ReadHalf, DdStates
  <2>2. Gap(s).sector \in {s.sector, 0}
    BY DEF Gap, DdStates
  <2> QED BY <2>1, <2>2
<1>5. CASE ~FailsHere(s) /\ s.sector > GapSector
  BY <1>5, Sizes DEF ReadHalf, DdStates
<1> QED BY <1>1, <1>2, <1>3, <1>4, <1>5, Sizes DEF DdStates

LEMMA UpdateStep ==
  ASSUME NEW s \in DdStates, InRange(s), ~s.write
  PROVE  UpdateBm(s).sector \in {s.sector, s.sector + 1, 0}
<1> DEFINE r == ReadHalf(s)
           c == r.cmd \cup {"BM_INT"}
<1>1. CASE ~Running(s)
  BY <1>1 DEF UpdateBm
<1>2. CASE Running(s)
  <2>1. r \in DdStates /\ r.sector \in {s.sector, s.sector + 1, 0}
    BY ReadHalfFresh, ReadHalfStep
  <2>2. UpdateBm(s) = [r EXCEPT !.cmd = c, !.line = TRUE]
    BY <1>2 DEF UpdateBm
  <2> HIDE DEF r, c
  <2>3. UpdateBm(s).sector = r.sector
    BY <2>1, <2>2 DEF DdStates
  <2> QED BY <2>1, <2>3
<1> QED BY <1>1, <1>2

\* Every handler moves the sector of a read on by one, or back to the start.
LEMMA HandlerStep ==
  ASSUME DdGood(dd), DdNext, ~dd.write
  PROVE  dd'.sector \in {dd.sector, dd.sector + 1, 0, 1}
<1>1. CASE ReadStatus
  <2> DEFINE c == [dd EXCEPT !.cmd = @ \ {"BM_INT"}, !.line = FALSE]
  <2>1. /\ c \in DdStates /\ InRange(c)
        /\ c.write = dd.write /\ c.sector = dd.sector
    BY DEF DdGood, DdStates, InRange
  <2>2. dd' = UpdateBm(c) \/ dd' = dd
    BY <1>1 DEF ReadStatus, AfterStatusRead
  <2> HIDE DEF c
  <2> QED BY <2>1, <2>2, UpdateStep
<1>2. CASE Command
  BY <1>2 DEF Command, AfterCommand, DdGood, DdStates
<1>3. CASE Control
  <2>1. PICK blk \in Blocks, f \in SUBSET ControlFlags : dd' = AfterControl(dd, blk, f)
    BY <1>3 DEF Control
  <2> DEFINE a == ControlStart(dd, blk, f)
             b == ControlReset(a, f)
             r == ControlLine(b)
             g == [r EXCEPT !.bm = @ \cup {"RUNNING"}]
  <2>2. b \in DdStates /\ b.sector = 0 /\ "read" \notin b.overrun
    BY ControlBefore
  <2>3. b.write = dd.write
    <3>1. a.write = dd.write /\ a \in DdStates
      BY DEF ControlStart, DdGood, DdStates, ManagerFlags
    <3> HIDE DEF a
    <3> QED BY <3>1 DEF ControlReset, DdStates
  <2> HIDE DEF b
  <2>4. r \in DdStates /\ r.sector = 0 /\ r.overrun = b.overrun /\ r.write = b.write
    <3> DEFINE l == b.line /\ b.cmd \cap {"BM_INT", "MECHA_INT"} # {}
    <3>1. r = [b EXCEPT !.line = l]
      BY DEF ControlLine
    <3>2. l \in BOOLEAN
      BY <2>2 DEF DdStates
    <3> HIDE DEF l, r
    <3> QED BY <2>2, <3>1, <3>2 DEF DdStates
  <2> HIDE DEF r
  <2>5. g \in DdStates /\ g.sector = 0 /\ InRange(g) /\ g.write = r.write
    BY <2>2, <2>4, Sizes DEF DdStates, InRange, ManagerFlags
  <2> HIDE DEF g
  <2>6. UpdateBm(g).sector \in {0, 1}
    BY <2>3, <2>4, <2>5, UpdateStep
  <2>7. dd' = UpdateBm(g) \/ dd' = r
    BY <2>1 DEF AfterControl, a, b, r, g
  <2> QED BY <2>4, <2>6, <2>7
<1>4. CASE HardReset
  BY <1>4 DEF HardReset, AfterHardReset, DdGood, DdStates
<1>5. CASE PiWrite
  BY <1>5 DEF PiWrite, AfterPiWrite, DdGood, DdStates
<1>6. CASE DmaWrite
  BY <1>6, UpdateStep DEF DmaWrite, AfterDma, DdGood
<1> QED BY <1>1, <1>2, <1>3, <1>4, <1>5, <1>6 DEF DdNext

\* A read never skips a sector of the block and never takes one twice: in every
\* step it moves on by one, or goes back to the start of a block.
THEOREM ReadsAlwaysInOrder == DdSpec => ReadsInOrder
<1>1. DdGood(dd) /\ [DdNext]_dd =>
        [~dd.write /\ dd'.sector # dd.sector /\ dd'.sector # 0 =>
           dd'.sector = dd.sector + 1 \/ dd'.sector = 1]_dd
  BY HandlerStep
<1> QED BY <1>1, DiskGood, PTL DEF DdSpec, ReadsInOrder
-----------------------------------------------------------------------------
(***************************************************************************)
(* A read of the disk: DiskTransfer implements DiskBlocks, but for its     *)
(* liveness. What was delivered, got, tells how far the read is: in block  *)
(* b of those asked for, at sector r. The drive is ahead of the driver,    *)
(* and by how much depends on where the driver is; At... says it for the   *)
(* sectors, for the C2 sectors after them, and for the gap.                *)
(***************************************************************************)

ReadsOnly == \A j \in Jobs : "write" \notin j

InAll == SectorsPerBlock + 1

BlocksAsked == IF "two" \in job THEN 2 ELSE 1

\* The b-th block of those asked for.
BlockOf(b) == (FirstOf(job) + b) % 2

\* The other block is still to come.
MoreAfter(b) == "two" \in job /\ b = 0

\* The PI has no transfer, and the driver looks at the drive next.
AtRest == pc = "wait" \/ (pc = "moving" /\ pi.bytes = 0)

\* The transfer of buffer b was begun by its address, and is not made.
Moving(b) == pi.cart.area = b /\ (pc = "go" \/ (pc = "moving" /\ pi.bytes > 0))

InBlock(b) ==
  /\ Running(dd) /\ dd.block = BlockOf(b)
  /\ ("BLOCK" \in dd.bm <=> MoreAfter(b))

\* Sector r is in the buffer, and the drive is at the next.
AtSector(b, r) ==
  /\ r < SectorsPerBlock /\ InBlock(b)
  /\ dd.sector = r + 1
  /\ dd.buf.sector = r /\ dd.buf.block = dd.block
  /\ "C2_XFER" \notin dd.cmd
  /\ \/ AtRest /\ "DATA_RQ" \in dd.cmd
     \/ pc = "serve" /\ "DATA_RQ" \in seen
     \/ Moving("ds") /\ "DATA_RQ" \notin dd.cmd

\* All the sectors were taken, and the drive goes over the C2 sectors.
AtC2(b, r) ==
  /\ r = SectorsPerBlock /\ InBlock(b)
  /\ dd.sector > SectorsPerBlock
  /\ dd.cmd \cap {"DATA_RQ", "BM_INT"} = {"BM_INT"}
  /\ ("C2_XFER" \in dd.cmd <=> dd.sector = GapSector)
  /\ AtRest \/ (pc = "serve" /\ seen \cap {"DATA_RQ", "C2_XFER"} = {})

\* The drive has stopped, or is at the start of the other block, and the C2 data
\* are to be taken.
AtGap(b, r) ==
  /\ r = SectorsPerBlock
  /\ "DATA_RQ" \notin dd.cmd /\ "BLOCK" \notin dd.bm
  /\ (Running(dd) <=> MoreAfter(b))
  /\ Running(dd) => dd.block = BlockOf(1) /\ dd.sector = 0
  /\ \/ pc = "serve" /\ seen \cap {"DATA_RQ", "C2_XFER"} = {"C2_XFER"}
     \/ Moving("c2") /\ "C2_XFER" \notin dd.cmd

\* Nothing is under way: before the first sector, and after the last.
Quiet == ~Running(dd) /\ "BLOCK" \notin dd.bm /\ dd.cmd \cap {"DATA_RQ", "C2_XFER"} = {}

AtStart == pc \in {"seek", "sought", "start"} /\ got = <<>> /\ Quiet

AtEnd ==
  /\ pc = "done" \/ (pc = "moving" /\ pi.bytes = 0 /\ pi.cart.area = "c2")
  /\ Len(got) = BlocksAsked * InAll /\ Quiet

UnderWay ==
  \E b \in 0 .. 1, r \in 0 .. SectorsPerBlock :
    /\ b < BlocksAsked /\ Len(got) = b * InAll + r
    /\ AtSector(b, r) \/ AtC2(b, r) \/ AtGap(b, r)

PiStates ==
  [status : SUBSET Flags, dram : Nat, len : [Directions -> Nat],
   cart : [area : Areas, bank : Nat, off : Nat],
   bytes : Nat, counter : Nat \cup {Expired}, dir : Directions]

\* The registers of the PI, and whose turn it is.
PiSide ==
  /\ pi \in PiStates
  /\ pi_intr \in BOOLEAN
  /\ pi.bytes > 0 => pc = "moving" /\ pi.dir = "wr" /\ pi.cart.area \in Buffers
  /\ pi_intr => pc = "moving" /\ pi.bytes = 0
  /\ pc \in {"go", "moving"} => pi.cart.area \in Buffers

DriveSide ==
  /\ DdGood(dd) /\ ~dd.write /\ ~dd.held
  /\ pc # "seek" => dd.track = Track

TransferInv ==
  /\ job \in Jobs /\ got \in Seq([block : Blocks, sector : Nat])
  /\ PiSide /\ DriveSide
  /\ AtStart \/ UnderWay \/ AtEnd

\* u is s after the buffer manager has moved on, by a sector or over the gap, with
\* its interrupt in flags.
MovedOn(s, u, flags) ==
  /\ u.write = s.write /\ u.held = s.held /\ u.track = s.track
  /\ s.sector < SectorsPerBlock =>
       /\ u.sector = s.sector + 1 /\ u.block = s.block /\ u.bm = s.bm
       /\ u.cmd = s.cmd \cup {"DATA_RQ"} \cup flags
       /\ u.buf.sector = s.sector /\ u.buf.block = s.block
  /\ s.sector >= SectorsPerBlock /\ s.sector < GapSector =>
       /\ u.sector = s.sector + 1 /\ u.block = s.block /\ u.bm = s.bm
       /\ u.cmd = s.cmd \cup (IF u.sector = GapSector THEN {"C2_XFER"} ELSE {}) \cup flags
  /\ s.sector = GapSector /\ "BLOCK" \in s.bm =>
       /\ u.sector = 0 /\ u.block = 1 - s.block /\ u.bm = s.bm \ {"BLOCK"}
       /\ u.cmd = s.cmd \cup flags
  /\ s.sector = GapSector /\ "BLOCK" \notin s.bm =>
       /\ u.bm = s.bm \ {"RUNNING"}
       /\ u.cmd = s.cmd \cup flags

LEMMA ReadHalfMoves ==
  ASSUME NEW s \in DdStates, InRange(s), ~FailsHere(s)
  PROVE  MovedOn(s, ReadHalf(s), {})
<1> DEFINE n == s.sector + 1
           k == 1 - s.block
           c == s.cmd \cup {"DATA_RQ"}
           e == s.cmd \cup (IF n = GapSector THEN {"C2_XFER"} ELSE {})
           b == s.bm \ {"BLOCK"}
           h == s.bm \ {"RUNNING"}
           u == [track |-> s.track, block |-> s.block, sector |-> s.sector]
           r == ReadHalf(s)
<1>1. s.sector \in Nat /\ s.sector <= GapSector
  BY DEF DdStates, InRange
<1>2. CASE s.sector < SectorsPerBlock
  <2>1. r = [s EXCEPT !.buf = u, !.sector = n, !.cmd = c]
    BY <1>2 DEF ReadHalf, ReadSector
  <2>2. u.sector = s.sector /\ u.block = s.block /\ n = s.sector + 1 /\ c = s.cmd \cup {"DATA_RQ"}
    OBVIOUS
  <2> HIDE DEF u, n, c, r
  <2>3. /\ r.sector = n /\ r.buf = u /\ r.block = s.block /\ r.bm = s.bm /\ r.cmd = c
        /\ r.write = s.write /\ r.held = s.held /\ r.track = s.track
    BY <2>1 DEF DdStates
  <2> QED BY <1>1, <1>2, <2>2, <2>3, Sizes DEF MovedOn, r
<1>3. CASE s.sector >= SectorsPerBlock /\ s.sector < GapSector
  <2>1. r = [s EXCEPT !.sector = n, !.cmd = e]
    BY <1>1, <1>3, Sizes DEF ReadHalf, C2Sector
  <2>2. n = s.sector + 1 /\ e = s.cmd \cup (IF n = GapSector THEN {"C2_XFER"} ELSE {})
    OBVIOUS
  <2> HIDE DEF n, e, r
  <2>3. /\ r.sector = n /\ r.block = s.block /\ r.bm = s.bm /\ r.cmd = e
        /\ r.write = s.write /\ r.held = s.held /\ r.track = s.track
    BY <2>1 DEF DdStates
  <2> QED BY <1>1, <1>3, <2>2, <2>3, Sizes DEF MovedOn, r
<1>4. CASE s.sector = GapSector /\ "BLOCK" \in s.bm
  <2>1. r = [s EXCEPT !.block = k, !.sector = 0, !.bm = b]
    BY <1>1, <1>4, Sizes DEF ReadHalf, Gap
  <2>2. k = 1 - s.block /\ b = s.bm \ {"BLOCK"}
    OBVIOUS
  <2> HIDE DEF k, b, r
  <2>3. /\ r.sector = 0 /\ r.block = k /\ r.bm = b /\ r.cmd = s.cmd
        /\ r.write = s.write /\ r.held = s.held /\ r.track = s.track
    BY <2>1 DEF DdStates
  <2> QED BY <1>1, <1>4, <2>2, <2>3, Sizes DEF MovedOn, r
<1>5. CASE s.sector = GapSector /\ "BLOCK" \notin s.bm
  <2>1. r = [s EXCEPT !.bm = h]
    BY <1>1, <1>5, Sizes DEF ReadHalf, Gap
  <2>2. h = s.bm \ {"RUNNING"}
    OBVIOUS
  <2> HIDE DEF h, r
  <2>3. /\ r.sector = s.sector /\ r.block = s.block /\ r.bm = h /\ r.cmd = s.cmd
        /\ r.write = s.write /\ r.held = s.held /\ r.track = s.track
    BY <2>1 DEF DdStates
  <2> QED BY <1>1, <1>5, <2>2, <2>3, Sizes DEF MovedOn, r
<1> QED BY <1>1, <1>2, <1>3, <1>4, <1>5, Sizes

LEMMA UpdateMoves ==
  ASSUME NEW s \in DdStates, InRange(s), ~FailsHere(s), ~s.write, Running(s)
  PROVE  MovedOn(s, UpdateBm(s), {"BM_INT"})
<1> DEFINE r == ReadHalf(s)
           c == r.cmd \cup {"BM_INT"}
           u == UpdateBm(s)
<1>1. r \in DdStates /\ MovedOn(s, r, {})
  BY ReadHalfFresh, ReadHalfMoves
<1>2. u = [r EXCEPT !.cmd = c, !.line = TRUE]
  BY DEF UpdateBm
<1>3. c = r.cmd \cup {"BM_INT"}
  OBVIOUS
<1> HIDE DEF r, c, u
<1>4. /\ u.sector = r.sector /\ u.block = r.block /\ u.bm = r.bm /\ u.buf = r.buf
      /\ u.cmd = c /\ u.write = r.write /\ u.held = r.held /\ u.track = r.track
  BY <1>1, <1>2 DEF DdStates
<1> QED BY <1>1, <1>3, <1>4 DEF MovedOn, u

\* What a control write without a reset leaves before the start.
Prepared(s, blk, f) == ControlLine(ControlReset(ControlStart(s, blk, f), f))

LEMMA ControlMoves ==
  ASSUME NEW s \in DdStates, ~s.held, NEW blk \in Blocks, NEW f \in SUBSET ControlFlags,
         "RESET" \notin f
  PROVE  LET r == Prepared(s, blk, f) IN
         /\ r \in DdStates /\ r.block = blk /\ r.sector = 0 /\ ~r.held
         /\ r.write = s.write /\ r.track = s.track /\ r.overrun = s.overrun
         /\ "BLK_TRANS" \in f => r.bm = s.bm \cup {"BLOCK"}
         /\ "BLK_TRANS" \notin f => r.bm = s.bm
         /\ "MECHA_RST" \in f => r.cmd = s.cmd \ {"MECHA_INT"}
         /\ "MECHA_RST" \notin f => r.cmd = s.cmd
<1> DEFINE a == ControlStart(s, blk, f)
           r == ControlLine(ControlReset(a, f))
           m == IF "BLK_TRANS" \in f THEN s.bm \cup {"BLOCK"} ELSE s.bm
           c == IF "MECHA_RST" \in f THEN s.cmd \ {"MECHA_INT"} ELSE s.cmd
           l == a.line /\ a.cmd \cap {"BM_INT", "MECHA_INT"} # {}
<1>1. m \in SUBSET ManagerFlags /\ c \in SUBSET StatusFlags
  BY DEF DdStates, ManagerFlags
<1>2. a = [s EXCEPT !.block = blk, !.sector = 0, !.bm = m, !.cmd = c, !.held = FALSE]
  BY DEF ControlStart, DdStates
<1> HIDE DEF a, m, c
<1>3. /\ a \in DdStates /\ a.block = blk /\ a.sector = 0 /\ ~a.held
      /\ a.write = s.write /\ a.track = s.track /\ a.overrun = s.overrun
      /\ a.bm = m /\ a.cmd = c
  BY <1>1, <1>2 DEF DdStates
<1>4. ControlReset(a, f) = a
  BY <1>3 DEF ControlReset
<1>5. r = [a EXCEPT !.line = l] /\ l \in BOOLEAN
  BY <1>4 DEF ControlLine
<1> HIDE DEF r, l
<1>6. /\ r \in DdStates /\ r.block = blk /\ r.sector = 0 /\ ~r.held
      /\ r.write = s.write /\ r.track = s.track /\ r.overrun = s.overrun
      /\ r.bm = m /\ r.cmd = c
  BY <1>3, <1>5 DEF DdStates
<1> QED BY <1>6 DEF r, a, m, c, Prepared

-----------------------------------------------------------------------------
(* The driver and the drive. *)

\* The kinds of job, and the places where a read can be.
LEMMA Asked ==
  ASSUME TransferInv, ReadsOnly
  PROVE  /\ "write" \notin job
         /\ FirstOf(job) \in Blocks /\ BlockOf(0) = FirstOf(job)
         /\ BlockOf(0) \in Blocks /\ BlockOf(1) = 1 - BlockOf(0)
         /\ BlocksAsked \in {1, 2} /\ InAll \in Nat /\ Len(got) \in Nat
         /\ \A b \in 0 .. 1 : b < BlocksAsked => (MoreAfter(b) <=> b + 1 < BlocksAsked)
<1>1. "write" \notin job /\ Len(got) \in Nat
  BY DEF TransferInv, ReadsOnly
<1> QED BY <1>1, DiskAssumption DEF FirstOf, Blocks, BlockOf, BlocksAsked, InAll, MoreAfter

\* The track that is sought holds data.
LEMMA TrackReads ==
  ASSUME TransferInv, pc # "seek"
  PROVE  ~FailsHere(dd) /\ dd \in DdStates /\ InRange(dd) /\ ~dd.write /\ ~dd.held
BY TransferAssumption DEF TransferInv, DriveSide, FailsHere, DdGood

\* A step that is only the PI's.
LEMMA PiAlone ==
  ASSUME TransferInv, (PiCount \/ PiIdle) /\ UNCHANGED <<dd, job, pc, seen, got>>
  PROVE  TransferInv'
<1>1. pi \in PiStates /\ PiSide
  BY DEF TransferInv, PiSide
<1>2. /\ pi' \in PiStates /\ pi'.cart = pi.cart /\ pi'.bytes = pi.bytes /\ pi'.dir = pi.dir
      /\ pi_intr' = pi_intr
  <2>1. CASE PiCount
    <3>1. pi.counter - 1 \in Nat
      BY <1>1, <2>1 DEF PiCount, PiStates, Expired
    <3> DEFINE k == pi.counter - 1
    <3>2. pi' = [pi EXCEPT !.counter = k] /\ pi_intr' = pi_intr
      BY <2>1 DEF PiCount
    <3> HIDE DEF k
    <3>3. k \in Nat \cup {Expired}
      BY <3>1 DEF k
    <3> QED BY <1>1, <3>2, <3>3 DEF PiStates
  <2>2. CASE PiIdle
    BY <1>1, <2>2 DEF PiIdle, PiStates
  <2> QED BY <2>1, <2>2
<1>3. PiSide'
  BY <1>1, <1>2 DEF PiSide
<1>4. (AtStart \/ UnderWay \/ AtEnd)'
  <2>1. CASE AtStart
    BY <2>1 DEF AtStart, Quiet, Running
  <2>2. CASE AtEnd
    BY <1>2, <2>2 DEF AtEnd, Quiet, Running, BlocksAsked
  <2>3. CASE UnderWay
    <3>1. PICK b \in 0 .. 1, r \in 0 .. SectorsPerBlock :
            /\ b < BlocksAsked /\ Len(got) = b * InAll + r
            /\ AtSector(b, r) \/ AtC2(b, r) \/ AtGap(b, r)
      BY <2>3 DEF UnderWay
    <3>2. BlocksAsked' = BlocksAsked /\ MoreAfter(b)' = MoreAfter(b) /\ BlockOf(b)' = BlockOf(b)
          /\ BlockOf(1)' = BlockOf(1)
          /\ InBlock(b)' = InBlock(b) /\ AtRest' = AtRest
          /\ \A x : Moving(x)' = Moving(x)
      BY <1>2 DEF BlocksAsked, MoreAfter, BlockOf, FirstOf, InBlock, AtRest, Moving, Running
    <3>3. (AtSector(b, r) \/ AtC2(b, r) \/ AtGap(b, r))'
      BY <3>1, <3>2 DEF AtSector, AtC2, AtGap, Running
    <3> QED BY <3>1, <3>2, <3>3 DEF UnderWay
  <2> QED BY <2>1, <2>2, <2>3 DEF TransferInv
<1> QED BY <1>3, <1>4 DEF TransferInv, DriveSide

\* A step that keeps the job and what was delivered.
LEMMA SameJob ==
  ASSUME job' = job
  PROVE  /\ FirstOf(job') = FirstOf(job) /\ BlocksAsked' = BlocksAsked
         /\ \A b : MoreAfter(b)' = MoreAfter(b) /\ BlockOf(b)' = BlockOf(b)
BY DEF BlocksAsked, MoreAfter, BlockOf, FirstOf

LEMMA SeekStep ==
  ASSUME TransferInv, ReadsOnly, Seek
  PROVE  TransferInv'
<1>1. /\ pc = "seek" /\ pc' = "sought" /\ UNCHANGED <<job, got, pi, pi_intr, seen>>
      /\ dd' = AfterCommand(dd, "SEEK_READ", Track)
  BY Asked DEF Seek, Goto, piVars
<1>2. DriveSide /\ PiSide /\ AtStart
  BY <1>1 DEF TransferInv, UnderWay, AtSector, AtC2, AtGap, AtEnd, AtRest, Moving
<1>3. Track \in Tracks /\ "SEEK_READ" \in Commands
  BY TransferAssumption DEF Commands
<1>4. DdGood(dd')
  BY <1>1, <1>2, <1>3, CommandGood DEF DriveSide
<1>5. /\ dd'.cmd = dd.cmd \cup {"MECHA_INT"} /\ dd'.bm = dd.bm /\ ~dd'.held
      /\ dd'.track = Track /\ ~dd'.write
  BY <1>1, <1>2 DEF AfterCommand, DriveSide, DdGood, DdStates
<1>6. DriveSide' /\ AtStart'
  BY <1>1, <1>2, <1>4, <1>5 DEF DriveSide, AtStart, Quiet, Running
<1>7. PiSide'
  BY <1>1, <1>2 DEF PiSide
<1> QED BY <1>1, <1>6, <1>7 DEF TransferInv

LEMMA AckSeekStep ==
  ASSUME TransferInv, ReadsOnly, AckSeek
  PROVE  TransferInv'
<1> DEFINE f == {"MECHA_RST"}
           k == 0
           r == Prepared(dd, k, f)
<1>1. /\ pc = "sought" /\ pc' = "start" /\ UNCHANGED <<job, got, pi, pi_intr, seen>>
      /\ dd' = AfterControl(dd, k, f)
  BY DEF AckSeek, Goto, piVars
<1>2. DriveSide /\ PiSide /\ AtStart
  BY <1>1 DEF TransferInv, UnderWay, AtSector, AtC2, AtGap, AtEnd, AtRest, Moving
<1>3. k \in Blocks /\ f \in SUBSET ControlFlags /\ "RESET" \notin f /\ "BLK_TRANS" \notin f /\ "MECHA_RST" \in f
  BY DEF Blocks, ControlFlags
<1>4. DdGood(dd') /\ dd' = r
  BY <1>1, <1>2, <1>3, ControlGood DEF DriveSide, AfterControl, Prepared
<1>5. /\ r.bm = dd.bm /\ r.cmd = dd.cmd \ {"MECHA_INT"} /\ ~r.held
      /\ r.track = dd.track /\ r.write = dd.write
  <2> HIDE DEF f, k
  <2>1. dd \in DdStates /\ ~dd.held
    BY <1>2 DEF DriveSide, DdGood
  <2>2. /\ r.bm = dd.bm
        /\ r.cmd = dd.cmd \ {"MECHA_INT"} /\ ~r.held
        /\ r.track = dd.track /\ r.write = dd.write
    BY <1>3, <2>1, ControlMoves
  <2> QED BY <2>2
<1> HIDE DEF r
<1>6. DriveSide' /\ AtStart'
  BY <1>1, <1>2, <1>4, <1>5 DEF DriveSide, AtStart, Quiet, Running
<1>7. PiSide'
  BY <1>1, <1>2 DEF PiSide
<1> QED BY <1>1, <1>6, <1>7 DEF TransferInv

\* A read starts with the first sector, which is in the buffer at once.
LEMMA StartStep ==
  ASSUME TransferInv, ReadsOnly, Start
  PROVE  TransferInv'
<1> DEFINE f == {"START"} \cup IF "two" \in job THEN {"BLK_TRANS"} ELSE {}
           k == FirstOf(job)
           r == Prepared(dd, k, f)
           g == [r EXCEPT !.bm = @ \cup {"RUNNING"}]
<1>1. /\ pc = "start" /\ pc' = "wait" /\ UNCHANGED <<job, got, pi, pi_intr, seen>>
      /\ dd' = AfterControl(dd, k, f)
  BY DEF Start, Goto, piVars
<1>2. DriveSide /\ PiSide /\ AtStart
  BY <1>1 DEF TransferInv, UnderWay, AtSector, AtC2, AtGap, AtEnd, AtRest, Moving
<1>3. /\ k \in Blocks /\ f \in SUBSET ControlFlags /\ "RESET" \notin f /\ "START" \in f
      /\ ("BLK_TRANS" \in f <=> "two" \in job) /\ "MECHA_RST" \notin f
  BY Asked DEF ControlFlags
<1>4. DdGood(dd')
  BY <1>1, <1>2, <1>3, ControlGood DEF DriveSide
<1>5. dd' = UpdateBm(g)
  BY <1>1, <1>3 DEF AfterControl, Prepared
<1>6. ~FailsHere(dd) /\ dd \in DdStates /\ InRange(dd) /\ ~dd.write /\ ~dd.held /\ dd.track = Track
  BY <1>1, <1>2, TrackReads DEF DriveSide
<1> HIDE DEF f, k
<1>7. /\ r \in DdStates /\ r.block = k /\ r.sector = 0 /\ ~r.held
      /\ ~r.write /\ r.track = Track /\ r.overrun = dd.overrun
      /\ "two" \in job => r.bm = dd.bm \cup {"BLOCK"}
      /\ "two" \notin job => r.bm = dd.bm
      /\ r.cmd = dd.cmd
  BY <1>3, <1>6, ControlMoves
<1> HIDE DEF r
<1>8. /\ g \in DdStates /\ g.block = k /\ g.sector = 0 /\ ~g.held
      /\ ~g.write /\ g.track = Track /\ g.overrun = dd.overrun
      /\ g.bm = r.bm \cup {"RUNNING"}
      /\ g.cmd = dd.cmd
  BY <1>7 DEF DdStates, ManagerFlags
<1> HIDE DEF g
<1>9. InRange(g) /\ ~FailsHere(g) /\ Running(g)
  BY <1>6, <1>8, Sizes, TransferAssumption DEF InRange, FailsHere, Running
<1>10. MovedOn(g, dd', {"BM_INT"})
  BY <1>5, <1>8, <1>9, UpdateMoves
<1>11. /\ dd'.sector = 1 /\ dd'.block = k /\ dd'.bm = g.bm
       /\ dd'.cmd = dd.cmd \cup {"DATA_RQ", "BM_INT"}
       /\ dd'.buf.sector = 0 /\ dd'.buf.block = k
       /\ ~dd'.write /\ ~dd'.held /\ dd'.track = Track
  BY <1>8, <1>10, Sizes DEF MovedOn
<1>12. AtSector(0, 0)'
  <2>1. InBlock(0)'
    <3>1. BlockOf(0)' = k
      BY <1>1, Asked, SameJob DEF k
    <3>2. MoreAfter(0)' <=> "two" \in job
      BY <1>1 DEF MoreAfter
    <3>3. ("BLOCK" \in dd'.bm <=> "two" \in job) /\ "RUNNING" \in dd'.bm
      BY <1>2, <1>7, <1>8, <1>11 DEF AtStart, Quiet
    <3> QED BY <1>11, <3>1, <3>2, <3>3 DEF InBlock, Running
  <2>2. "C2_XFER" \notin dd'.cmd
    BY <1>2, <1>11 DEF AtStart, Quiet
  <2> QED BY <1>1, <1>11, <2>1, <2>2, Sizes DEF AtSector, AtRest
<1>13. UnderWay'
  <2>1. 0 < BlocksAsked' /\ Len(got') = 0 * InAll + 0 /\ 0 \in 0 .. SectorsPerBlock
    BY <1>1, <1>2, Asked, SameJob, Sizes DEF AtStart
  <2> QED BY <1>12, <2>1 DEF UnderWay
<1>14. DriveSide'
  BY <1>4, <1>11 DEF DriveSide
<1>15. PiSide'
  BY <1>1, <1>2 DEF PiSide
<1> QED BY <1>1, <1>13, <1>14, <1>15 DEF TransferInv

\* The driver looks at the status: past the sectors that moves the drive on.
LEMMA LookStep ==
  ASSUME TransferInv, ReadsOnly, Look
  PROVE  TransferInv'
<1>1. /\ pc = "wait" /\ pc' = "serve" /\ UNCHANGED <<job, got, pi, pi_intr>>
      /\ seen' = dd.cmd /\ dd' = AfterStatusRead(dd)
  BY DEF Look, Goto, piVars
<1>2. DriveSide /\ PiSide /\ UnderWay
  BY <1>1 DEF TransferInv, AtStart, AtEnd
<1>3. ~FailsHere(dd) /\ dd \in DdStates /\ InRange(dd) /\ ~dd.write /\ ~dd.held /\ dd.track = Track
  BY <1>1, <1>2, TrackReads DEF DriveSide
<1>4. PICK b \in 0 .. 1, r \in 0 .. SectorsPerBlock :
        /\ b < BlocksAsked /\ Len(got) = b * InAll + r
        /\ AtSector(b, r) \/ AtC2(b, r)
  BY <1>1, <1>2 DEF UnderWay, AtGap, Moving
<1>5. DdGood(dd')
  BY <1>1, <1>2, StatusReadGood DEF DriveSide
<1>6. PiSide'
  BY <1>1, <1>2 DEF PiSide
<1>7. CASE AtSector(b, r)
  <2>1. dd.sector <= SectorsPerBlock /\ "DATA_RQ" \in dd.cmd
    BY <1>1, <1>7, Sizes DEF AtSector, AtRest, Moving
  <2>2. dd' = dd
    BY <1>1, <1>3, <2>1, Sizes DEF AfterStatusRead, DdStates
  <2>3. AtSector(b, r)'
    BY <1>1, <1>7, <2>1, <2>2, SameJob DEF AtSector, InBlock, Running
  <2>4. UnderWay'
    BY <1>1, <1>4, <2>3, SameJob DEF UnderWay
  <2> QED BY <1>1, <1>2, <1>6, <2>2, <2>4 DEF TransferInv, DriveSide
<1>8. CASE AtC2(b, r)
  <2> DEFINE c == dd.cmd \ {"BM_INT"}
             g == [dd EXCEPT !.cmd = c, !.line = FALSE]
  <2>1. c \in SUBSET StatusFlags
    BY <1>3 DEF DdStates
  <2>2. dd' = UpdateBm(g)
    BY <1>1, <1>8 DEF AfterStatusRead, AtC2
  <2> HIDE DEF c
  <2>3. /\ g \in DdStates /\ g.block = dd.block /\ g.sector = dd.sector /\ ~g.held
        /\ ~g.write /\ g.track = Track /\ g.overrun = dd.overrun /\ g.bm = dd.bm /\ g.cmd = c
    BY <1>3, <2>1 DEF DdStates
  <2> HIDE DEF g
  <2>4. InRange(g) /\ ~FailsHere(g) /\ Running(g)
    BY <1>3, <1>8, <2>3, TransferAssumption DEF InRange, FailsHere, Running, AtC2, InBlock
  <2>5. MovedOn(g, dd', {"BM_INT"})
    BY <2>2, <2>3, <2>4, UpdateMoves
  <2>6. /\ dd.sector > SectorsPerBlock /\ dd.sector <= GapSector /\ dd.sector \in Nat
        /\ "DATA_RQ" \notin dd.cmd /\ ("C2_XFER" \in dd.cmd <=> dd.sector = GapSector)
        /\ r = SectorsPerBlock /\ InBlock(b)
    BY <1>3, <1>8 DEF AtC2, InRange, DdStates
  <2>7. ~dd'.write /\ ~dd'.held /\ dd'.track = Track
    BY <2>3, <2>5 DEF MovedOn
  <2>8. CASE dd.sector < GapSector
    <3>1. /\ dd'.sector = dd.sector + 1 /\ dd'.block = dd.block /\ dd'.bm = dd.bm
          /\ dd'.cmd = c \cup (IF dd'.sector = GapSector THEN {"C2_XFER"} ELSE {}) \cup {"BM_INT"}
      BY <2>3, <2>5, <2>6, <2>8 DEF MovedOn
    <3>2. InBlock(b)'
      BY <1>1, <2>6, <3>1, SameJob DEF InBlock, Running
    <3>3. /\ "DATA_RQ" \notin dd'.cmd /\ "BM_INT" \in dd'.cmd
          /\ ("C2_XFER" \in dd'.cmd <=> dd'.sector = GapSector)
          /\ seen' \cap {"DATA_RQ", "C2_XFER"} = {}
      BY <1>1, <2>6, <2>8, <3>1 DEF c
    <3>4. AtC2(b, r)'
      BY <1>1, <2>6, <3>1, <3>2, <3>3 DEF AtC2
    <3> QED BY <1>1, <1>4, <1>5, <1>6, <2>7, <3>4, SameJob DEF TransferInv, DriveSide, UnderWay
  <2>9. CASE dd.sector = GapSector
    <3>1. /\ "DATA_RQ" \notin dd'.cmd
          /\ seen' \cap {"DATA_RQ", "C2_XFER"} = {"C2_XFER"}
      BY <1>1, <2>3, <2>5, <2>6, <2>9, Sizes DEF MovedOn, c
    <3>2. CASE MoreAfter(b)
      <4>1. "BLOCK" \in dd.bm /\ "RUNNING" \in dd.bm /\ b = 0
        BY <2>6, <3>2 DEF InBlock, MoreAfter, Running
      <4>2. dd'.sector = 0 /\ dd'.block = 1 - dd.block /\ dd'.bm = dd.bm \ {"BLOCK"}
        BY <2>3, <2>5, <2>9, <4>1 DEF MovedOn
      <4>3. dd'.block = BlockOf(1)'
        BY <1>1, <2>6, <4>1, <4>2, Asked, SameJob DEF InBlock
      <4> QED BY <1>1, <2>6, <3>1, <3>2, <4>1, <4>2, <4>3, SameJob,
                 <1>4, <1>5, <1>6, <2>7 DEF AtGap, Running, TransferInv, DriveSide, UnderWay
    <3>3. CASE ~MoreAfter(b)
      <4>1. "BLOCK" \notin dd.bm
        BY <2>6, <3>3 DEF InBlock
      <4>2. dd'.bm = dd.bm \ {"RUNNING"}
        BY <2>3, <2>5, <2>9, <4>1 DEF MovedOn
      <4>3. AtGap(b, r)'
        BY <1>1, <2>6, <3>1, <3>3, <4>1, <4>2, SameJob DEF AtGap, Running
      <4> QED BY <1>1, <1>4, <1>5, <1>6, <2>7, <4>3, SameJob DEF TransferInv, DriveSide, UnderWay
    <3> QED BY <3>2, <3>3
  <2> QED BY <2>6, <2>8, <2>9, Sizes
<1> QED BY <1>4, <1>7, <1>8

\* A look that showed nothing to take.
LEMMA NothingStep ==
  ASSUME TransferInv, ReadsOnly, NothingWanted
  PROVE  TransferInv'
<1>1. pc = "serve" /\ pc' = "wait" /\ UNCHANGED <<job, got, pi, pi_intr, seen, dd>>
  BY DEF NothingWanted, Goto, piVars
<1>2. DriveSide /\ PiSide /\ UnderWay /\ seen \cap {"DATA_RQ", "C2_XFER"} = {}
  BY <1>1 DEF TransferInv, AtStart, AtEnd, NothingWanted, Wanted
<1>3. PICK b \in 0 .. 1, r \in 0 .. SectorsPerBlock :
        b < BlocksAsked /\ Len(got) = b * InAll + r /\ AtC2(b, r)
  BY <1>1, <1>2 DEF UnderWay, AtSector, AtGap, AtRest, Moving
<1>4. AtC2(b, r)'
  BY <1>1, <1>3, SameJob DEF AtC2, InBlock, AtRest, Running
<1>5. UnderWay'
  BY <1>1, <1>3, <1>4, SameJob DEF UnderWay
<1>6. PiSide' /\ DriveSide'
  BY <1>1, <1>2 DEF PiSide, DriveSide
<1> QED BY <1>1, <1>5, <1>6 DEF TransferInv

\* The address of the buffer that the status asked for is the one whose turn it is.
LEMMA AddressStep ==
  ASSUME TransferInv, ReadsOnly, NEW x \in Wanted, WriteAddress(x)
  PROVE  TransferInv'
<1> DEFINE c == BufferAddress(x)
           d == AfterPiWrite(dd, x)
<1>1. /\ pc = "serve" /\ pc' = "go" /\ UNCHANGED <<job, got, pi_intr, seen>>
      /\ pi' = [pi EXCEPT !.cart = c] /\ dd' = d
  BY DEF WriteAddress, Goto, PiWriteCart
<1>2. DriveSide /\ PiSide /\ UnderWay
  BY <1>1 DEF TransferInv, AtStart, AtEnd
<1>3. /\ x \in Buffers
      /\ x = "ds" <=> "DATA_RQ" \in seen
      /\ x = "c2" => "C2_XFER" \in seen
  BY DEF Wanted, Buffers
<1>4. c.area = x /\ c \in [area : Areas, bank : Nat, off : Nat]
  BY <1>3, TransferAssumption DEF BufferAddress
<1> HIDE DEF c
<1>5. PiSide' /\ pi'.cart.area = x
  BY <1>1, <1>2, <1>3, <1>4 DEF PiSide, PiStates
<1>6. /\ d.bm = dd.bm /\ d.block = dd.block /\ d.sector = dd.sector /\ d.buf = dd.buf
      /\ d.write = dd.write /\ d.held = dd.held /\ d.track = dd.track
      /\ d.cmd = dd.cmd \ {IF x = "ds" THEN "DATA_RQ" ELSE "C2_XFER", "BM_INT"}
  BY <1>2 DEF AfterPiWrite, DriveSide, DdGood, DdStates
<1>7. DdGood(d)
  BY <1>2, <1>3, PiWriteGood DEF DriveSide
<1> HIDE DEF d
<1>8. DriveSide'
  BY <1>1, <1>2, <1>6, <1>7 DEF DriveSide
<1>9. PICK b \in 0 .. 1, r \in 0 .. SectorsPerBlock :
        /\ b < BlocksAsked /\ Len(got) = b * InAll + r
        /\ AtSector(b, r) \/ AtC2(b, r) \/ AtGap(b, r)
  BY <1>2 DEF UnderWay
<1>10. Moving(x)'
  BY <1>1, <1>5 DEF Moving
<1>11. CASE AtSector(b, r)
  <2>1. x = "ds"
    BY <1>1, <1>3, <1>11 DEF AtSector, AtRest, Moving
  <2>2. "DATA_RQ" \notin dd'.cmd /\ "C2_XFER" \notin dd'.cmd
    BY <1>1, <1>6, <1>11, <2>1 DEF AtSector
  <2>3. InBlock(b)'
    BY <1>1, <1>6, <1>11, SameJob DEF AtSector, InBlock, Running
  <2>4. AtSector(b, r)'
    BY <1>1, <1>6, <1>10, <1>11, <2>1, <2>2, <2>3 DEF AtSector
  <2> QED BY <1>1, <1>5, <1>8, <1>9, <2>4, SameJob DEF TransferInv, UnderWay
<1>12. CASE AtC2(b, r)
  BY <1>1, <1>3, <1>12 DEF AtC2, AtRest, Buffers
<1>13. CASE AtGap(b, r)
  <2>1. x = "c2"
    BY <1>1, <1>3, <1>13 DEF AtGap, Moving, Buffers
  <2>2. "DATA_RQ" \notin dd'.cmd /\ "C2_XFER" \notin dd'.cmd
    BY <1>1, <1>6, <1>13, <2>1 DEF AtGap
  <2>3. AtGap(b, r)'
    BY <1>1, <1>6, <1>10, <1>13, <2>1, <2>2, SameJob DEF AtGap, Running
  <2> QED BY <1>1, <1>5, <1>8, <1>9, <2>3, SameJob DEF TransferInv, UnderWay
<1> QED BY <1>9, <1>11, <1>12, <1>13

\* The length starts a transfer of that buffer.
LEMMA LengthStep ==
  ASSUME TransferInv, ReadsOnly, WriteLength
  PROVE  TransferInv'
<1> DEFINE n == SectorBytes + 1
           k == n \div 2 + Overhead
           l == [pi.len EXCEPT !["wr"] = SectorBytes]
           s == pi.status \cup {"DMA_BUSY"}
<1>1. /\ pc = "go" /\ pc' = "moving" /\ UNCHANGED <<job, got, pi_intr, seen, dd>>
      /\ pi' = [pi EXCEPT !.len = l, !.bytes = n, !.dir = "wr", !.counter = k, !.status = s]
  BY Asked DEF WriteLength, Goto, PiWriteLen
<1>2. DriveSide /\ PiSide /\ UnderWay
  BY <1>1 DEF TransferInv, AtStart, AtEnd
<1>3. n \in Nat /\ n > 0 /\ k \in Nat
  BY TransferAssumption, PiAssumption
<1>4. l \in [Directions -> Nat] /\ s \in SUBSET Flags
  BY <1>2, TransferAssumption, PiAssumption DEF PiSide, PiStates, Flags
<1> HIDE DEF n, k, l, s
<1>5. pi' \in PiStates /\ pi'.bytes = n /\ pi'.dir = "wr" /\ pi'.cart = pi.cart
  BY <1>1, <1>2, <1>3, <1>4 DEF PiSide, PiStates, Directions
<1>6. PiSide'
  BY <1>1, <1>2, <1>3, <1>5 DEF PiSide
<1>7. DriveSide'
  BY <1>1, <1>2 DEF DriveSide
<1>8. PICK b \in 0 .. 1, r \in 0 .. SectorsPerBlock :
        /\ b < BlocksAsked /\ Len(got) = b * InAll + r
        /\ AtSector(b, r) \/ AtGap(b, r)
  BY <1>1, <1>2 DEF UnderWay, AtC2, AtRest
<1>9. \A x : Moving(x) => Moving(x)'
  BY <1>1, <1>3, <1>5 DEF Moving
<1>10. (AtSector(b, r) \/ AtGap(b, r))'
  BY <1>1, <1>8, <1>9, SameJob DEF AtSector, AtGap, AtRest, InBlock, Running
<1>11. UnderWay'
  BY <1>1, <1>8, <1>10, SameJob DEF UnderWay
<1> QED BY <1>1, <1>6, <1>7, <1>11 DEF TransferInv

\* The interrupt of the PI: the drive has already moved on.
LEMMA MovedStep ==
  ASSUME TransferInv, ReadsOnly, Moved
  PROVE  TransferInv'
<1> DEFINE s == pi.status \ {"INTERRUPT"}
<1>1. /\ pc = "moving" /\ pc' = (IF pi.cart.area = "c2" /\ ~Running(dd) THEN "done" ELSE "wait")
      /\ UNCHANGED <<job, got, seen, dd>>
      /\ pi_intr /\ pi_intr' = FALSE
      /\ pi' = [pi EXCEPT !.status = s]
  BY DEF Moved, Goto, PiWriteStatus
<1>2. DriveSide /\ PiSide /\ pi.bytes = 0
  BY <1>1 DEF TransferInv, PiSide
<1>3. s \in SUBSET Flags
  BY <1>2 DEF PiSide, PiStates
<1> HIDE DEF s
<1>4. pi' \in PiStates /\ pi'.bytes = 0 /\ pi'.cart = pi.cart
  BY <1>1, <1>2, <1>3 DEF PiSide, PiStates
<1>5. PiSide'
  <2>1. pc' \in {"done", "wait"} /\ pi_intr' \in BOOLEAN /\ ~pi_intr'
    BY <1>1
  <2> QED BY <1>4, <2>1 DEF PiSide
<1>6. DriveSide'
  BY <1>1, <1>2 DEF DriveSide
<1>7. CASE AtEnd
  <2>1. AtEnd'
    BY <1>1, <1>7, SameJob DEF AtEnd, Quiet, Running
  <2> QED BY <1>1, <1>2, <1>5, <1>6, <2>1 DEF TransferInv
<1>8. CASE UnderWay
  <2>1. PICK b \in 0 .. 1, r \in 0 .. SectorsPerBlock :
          /\ b < BlocksAsked /\ Len(got) = b * InAll + r
          /\ AtSector(b, r) \/ AtC2(b, r)
    BY <1>1, <1>2, <1>8 DEF UnderWay, AtGap, Moving
  <2>2. pc' = "wait"
    BY <1>1, <2>1 DEF AtSector, AtC2, InBlock
  <2>3. (AtSector(b, r) \/ AtC2(b, r))'
    BY <1>1, <1>2, <1>4, <2>1, <2>2, SameJob DEF AtSector, AtC2, AtRest, InBlock, Running, Moving
  <2>4. UnderWay'
    BY <1>1, <2>1, <2>3, SameJob DEF UnderWay
  <2> QED BY <1>1, <1>5, <1>6, <2>4 DEF TransferInv
<1> QED BY <1>1, <1>7, <1>8 DEF TransferInv, AtStart

\* The next job finds the drive quiet.
LEMMA AgainStep ==
  ASSUME TransferInv, Again
  PROVE  TransferInv' /\ Len(got) = BlocksAsked * InAll
<1>1. /\ pc = "done" /\ pc' = "seek" /\ job' \in Jobs /\ got' = <<>>
      /\ UNCHANGED <<pi, pi_intr, dd, seen>>
  BY DEF Again, piVars
<1>2. AtEnd /\ DriveSide /\ PiSide
  BY <1>1 DEF TransferInv, AtStart, UnderWay, AtSector, AtC2, AtGap, AtRest, Moving
<1>3. AtStart' /\ DriveSide' /\ PiSide'
  BY <1>1, <1>2 DEF AtStart, AtEnd, DriveSide, PiSide, Quiet, Running
<1> QED BY <1>1, <1>2, <1>3 DEF TransferInv, AtEnd

-----------------------------------------------------------------------------
(* The end of a DMA: one more sector, and the place of the read after it. *)

\* The number of things delivered gives the place of the next.
LEMMA PlaceOf ==
  ASSUME NEW b \in 0 .. 1, NEW r \in 0 .. SectorsPerBlock
  PROVE  /\ (b * InAll + r) \div InAll = b
         /\ (b * InAll + r) % InAll = r
<1> DEFINE k == InAll
           n == b * k + r
           q == n \div k
           m == n % k
<1>1. k \in Nat /\ k > r /\ k > 0
  BY Sizes DEF InAll
<1>2. r \in Nat /\ b \in {0, 1}
  BY Sizes
<1> HIDE DEF k
<1>3. (0 * k = 0 /\ 1 * k = k)
  BY <1>1
<1>4. n = (IF b = 0 THEN r ELSE k + r) /\ n \in Nat
  BY <1>1, <1>2, <1>3
<1> HIDE DEF n
<1>5. q \in Nat /\ m \in 0 .. k - 1 /\ n = k * q + m
  BY <1>1, <1>4
<1> HIDE DEF q, m
<1>6. k * 0 = 0 /\ k * 1 = k
  BY <1>1
<1>7. q < b + 1
  <2>1. SUFFICES ASSUME q >= b + 1 PROVE FALSE
    BY <1>2, <1>5
  <2>2. k * q >= k * (b + 1)
    BY <1>1, <1>2, <1>5, <2>1
  <2>3. k * (b + 1) = (IF b = 0 THEN k ELSE k + k)
    BY <1>1, <1>2
  <2> DEFINE x == k * q
             y == k * (b + 1)
  <2>4. x \in Nat /\ y \in Nat
    BY <1>1, <1>2, <1>5
  <2> HIDE DEF x, y
  <2>5. n = x + m /\ x >= y /\ y = (IF b = 0 THEN k ELSE k + k)
    BY <1>5, <2>2, <2>3 DEF x, y
  <2> QED BY <1>1, <1>2, <1>4, <1>5, <2>4, <2>5
<1>8. q = b
  BY <1>1, <1>2, <1>4, <1>5, <1>6, <1>7
<1>9. m = r
  BY <1>1, <1>2, <1>4, <1>5, <1>6, <1>8
<1> QED BY <1>8, <1>9 DEF k, n, q, m

\* A DMA ends: the registers of the PI, the drive, and what was brought.
LEMMA Finished ==
  ASSUME TransferInv, ReadsOnly, DiskFinish
  PROVE  /\ pc = "moving" /\ pi.bytes > 0 /\ UNCHANGED <<job, pc, seen>>
         /\ pi.cart.area \in Buffers /\ pi'.cart = pi.cart /\ pi'.bytes = 0
         /\ dd' = UpdateBm(dd) /\ got' = Append(got, Delivered(pi.cart.area))
         /\ PiSide'
<1>1. DriveSide /\ PiSide /\ pi.bytes > 0
  BY DEF TransferInv, DiskFinish, PiFinish
<1>2. pc = "moving" /\ pi.dir = "wr" /\ pi.cart.area \in Buffers
  BY <1>1 DEF PiSide
<1>3. UNCHANGED <<job, pc, seen>> /\ pi_intr' = TRUE
      /\ dd' = UpdateBm(dd) /\ got' = Append(got, Delivered(pi.cart.area))
  BY <1>2 DEF DiskFinish, ToRdram, AfterDma, PiFinish
<1> DEFINE s == (pi.status \ {"DMA_BUSY"}) \cup {"INTERRUPT"}
<1>4. pi' = [pi EXCEPT !.status = s, !.bytes = 0, !.counter = Expired]
  BY <1>2 DEF DiskFinish, PiFinish, AfterWrite, Buffers
<1>5. s \in SUBSET Flags
  BY <1>1 DEF PiSide, PiStates, Flags
<1> HIDE DEF s
<1>6. pi' \in PiStates /\ pi'.cart = pi.cart /\ pi'.bytes = 0
  BY <1>1, <1>4, <1>5 DEF PiSide, PiStates
<1>7. PiSide'
  BY <1>2, <1>3, <1>6 DEF PiSide
<1> QED BY <1>1, <1>2, <1>3, <1>6, <1>7

\* The read moves on by what was brought, which is what was due.
LEMMA FinishStep ==
  ASSUME TransferInv, ReadsOnly, DiskFinish
  PROVE  /\ TransferInv'
         /\ Len(got) < BlocksAsked * InAll
         /\ got' = Append(got, [block |-> BlockOf(Len(got) \div InAll),
                                sector |-> Len(got) % InAll])
<1> DEFINE a == pi.cart.area
           e == Delivered(a)
<1>1. /\ pc = "moving" /\ pi.bytes > 0 /\ UNCHANGED <<job, pc, seen>>
      /\ a \in Buffers /\ pi'.cart.area = a /\ pi'.bytes = 0
      /\ dd' = UpdateBm(dd) /\ got' = Append(got, e)
      /\ PiSide'
  BY Finished
<1>2. DriveSide /\ UnderWay
  BY <1>1 DEF TransferInv, AtStart, AtEnd
<1>3. PICK b \in 0 .. 1, r \in 0 .. SectorsPerBlock :
        /\ b < BlocksAsked /\ Len(got) = b * InAll + r
        /\ AtSector(b, r) \/ AtGap(b, r)
  BY <1>1, <1>2 DEF UnderWay, AtC2, AtRest
<1>4. ~FailsHere(dd) /\ dd \in DdStates /\ InRange(dd) /\ ~dd.write /\ ~dd.held /\ dd.track = Track
  BY <1>1, <1>2, TrackReads DEF DriveSide
<1>5. DdGood(dd')
  BY <1>1, <1>2, DmaGood DEF DriveSide, AfterDma
<1>6. Len(got) \div InAll = b /\ Len(got) % InAll = r
  BY <1>3, PlaceOf
<1>7. e = [block |-> BlockOf(b), sector |-> r] /\ e \in [block : Blocks, sector : Nat]
  <2>1. CASE AtSector(b, r)
    <3>1. a = "ds" /\ dd.buf.block = BlockOf(b) /\ dd.buf.sector = r
      BY <1>1, <2>1 DEF AtSector, AtRest, Moving, InBlock
    <3>2. dd.buf.block \in Blocks /\ r \in Nat
      BY <1>4, Sizes DEF DdStates
    <3> QED BY <3>1, <3>2 DEF Delivered
  <2>2. CASE AtGap(b, r)
    <3>1. a = "c2" /\ r = SectorsPerBlock
      BY <1>1, <2>2 DEF AtGap, Moving
    <3>2. BlockOf(b) \in Blocks
      BY Asked, DiskAssumption DEF BlockOf, Blocks, FirstOf
    <3> QED BY <1>6, <3>1, <3>2, Sizes DEF Delivered, BlockOf, InAll
  <2> QED BY <1>3, <2>1, <2>2
<1> HIDE DEF e
<1>8. /\ got \in Seq([block : Blocks, sector : Nat]) /\ got' \in Seq([block : Blocks, sector : Nat])
      /\ Len(got') = Len(got) + 1
  BY <1>1, <1>7 DEF TransferInv
<1>9. Running(dd) => MovedOn(dd, dd', {"BM_INT"})
  BY <1>1, <1>4, UpdateMoves
<1>10. InAll \in Nat /\ InAll = SectorsPerBlock + 1 /\ 0 * InAll = 0 /\ 1 * InAll = InAll
       /\ 2 * InAll = InAll + InAll
  BY Sizes DEF InAll
<1> DEFINE z == b * InAll
<1>11. z = (IF b = 0 THEN 0 ELSE InAll) /\ z \in Nat /\ Len(got) = z + r
  <2>1. b \in {0, 1} /\ Len(got) = z + r
    BY <1>3
  <2>2. CASE b = 0
    BY <1>10, <2>1, <2>2
  <2>3. CASE b = 1
    BY <1>10, <2>1, <2>3
  <2> QED BY <2>1, <2>2, <2>3
<1>12. Len(got) < BlocksAsked * InAll
  <2>1. BlocksAsked * InAll = (IF BlocksAsked = 1 THEN InAll ELSE InAll + InAll)
    BY <1>10, Asked
  <2> DEFINE y == BlocksAsked * InAll
  <2> HIDE DEF y, z
  <2> QED BY <1>3, <1>10, <1>11, <2>1, Asked, Sizes DEF y
<1>13. DriveSide' /\ (UnderWay \/ AtEnd)'
  <2>1. CASE AtSector(b, r)
    <3>1. /\ InBlock(b) /\ Running(dd) /\ dd.sector = r + 1 /\ r < SectorsPerBlock /\ a = "ds"
          /\ "C2_XFER" \notin dd.cmd /\ "DATA_RQ" \notin dd.cmd
      BY <1>1, <2>1 DEF AtSector, AtRest, Moving, InBlock
    <3>2. MovedOn(dd, dd', {"BM_INT"})
      BY <1>9, <3>1
    <3>3. CASE r + 1 < SectorsPerBlock
      <4>1. /\ dd'.sector = r + 2 /\ dd'.block = dd.block /\ dd'.bm = dd.bm
            /\ dd'.cmd = dd.cmd \cup {"DATA_RQ"} \cup {"BM_INT"}
            /\ dd'.buf.sector = r + 1 /\ dd'.buf.block = dd.block
            /\ ~dd'.write /\ ~dd'.held /\ dd'.track = Track
        BY <1>4, <3>1, <3>2, <3>3 DEF MovedOn
      <4>2. InBlock(b)'
        BY <1>1, <3>1, <4>1, SameJob DEF InBlock, Running
      <4>3. AtSector(b, r + 1)'
        BY <1>1, <3>1, <3>3, <4>1, <4>2 DEF AtSector, AtRest
      <4>4. Len(got') = b * InAll + (r + 1) /\ r + 1 \in 0 .. SectorsPerBlock
        <5> HIDE DEF z
        <5>1. Len(got') = z + (r + 1) /\ r + 1 \in 0 .. SectorsPerBlock
          BY <1>8, <1>10, <1>11, <3>3, Sizes
        <5> QED BY <5>1 DEF z
      <4> QED BY <1>1, <1>3, <1>5, <4>1, <4>3, <4>4, SameJob DEF DriveSide, UnderWay
    <3>4. CASE r + 1 = SectorsPerBlock
      <4>1. dd.sector = SectorsPerBlock /\ dd.sector < GapSector
        BY <3>1, <3>4, Sizes
      <4>2. /\ dd'.sector = dd.sector + 1 /\ dd'.sector # GapSector
            /\ dd'.block = dd.block /\ dd'.bm = dd.bm
            /\ dd'.cmd = dd.cmd \cup {"BM_INT"}
            /\ ~dd'.write /\ ~dd'.held /\ dd'.track = Track
        BY <1>4, <3>2, <4>1, Sizes DEF MovedOn
      <4>3. InBlock(b)'
        BY <1>1, <3>1, <4>2, SameJob DEF InBlock, Running
      <4>4. AtC2(b, r + 1)'
        BY <1>1, <3>1, <3>4, <4>1, <4>2, <4>3, Sizes DEF AtC2, AtRest
      <4>5. Len(got') = b * InAll + (r + 1) /\ r + 1 \in 0 .. SectorsPerBlock
        <5> HIDE DEF z
        <5>1. Len(got') = z + (r + 1) /\ r + 1 \in 0 .. SectorsPerBlock
          BY <1>8, <1>10, <1>11, <3>4, Sizes
        <5> QED BY <5>1 DEF z
      <4> QED BY <1>1, <1>3, <1>5, <4>2, <4>4, <4>5, SameJob DEF DriveSide, UnderWay
    <3> QED BY <3>1, <3>3, <3>4, Sizes
  <2>2. CASE AtGap(b, r) /\ MoreAfter(b)
    <3>1. /\ Running(dd) /\ dd.block = BlockOf(1) /\ dd.sector = 0 /\ "BLOCK" \notin dd.bm
          /\ "C2_XFER" \notin dd.cmd /\ b = 0 /\ r = SectorsPerBlock /\ a = "c2"
      BY <1>1, <2>2 DEF AtGap, Moving, MoreAfter
    <3>2. /\ dd'.sector = 1 /\ dd'.block = dd.block /\ dd'.bm = dd.bm
          /\ dd'.cmd = dd.cmd \cup {"DATA_RQ"} \cup {"BM_INT"}
          /\ dd'.buf.sector = 0 /\ dd'.buf.block = dd.block
          /\ ~dd'.write /\ ~dd'.held /\ dd'.track = Track
      BY <1>4, <1>9, <3>1, Sizes DEF MovedOn
    <3>3. InBlock(1)' /\ 1 < BlocksAsked
      BY <1>1, <2>2, <3>1, <3>2, SameJob DEF InBlock, Running, MoreAfter, BlocksAsked
    <3>4. AtSector(1, 0)'
      BY <1>1, <3>1, <3>2, <3>3, Sizes DEF AtSector, AtRest
    <3>5. Len(got') = 1 * InAll + 0 /\ 0 \in 0 .. SectorsPerBlock /\ 1 \in 0 .. 1
      BY <1>3, <1>8, <1>10, <3>1, Sizes
    <3> QED BY <1>1, <1>5, <3>2, <3>3, <3>4, <3>5, SameJob DEF DriveSide, UnderWay
  <2>3. CASE AtGap(b, r) /\ ~MoreAfter(b)
    <3>1. /\ ~Running(dd) /\ "BLOCK" \notin dd.bm
          /\ dd.cmd \cap {"DATA_RQ", "C2_XFER"} = {} /\ r = SectorsPerBlock /\ a = "c2"
      BY <1>1, <2>3 DEF AtGap, Moving
    <3>2. dd' = dd
      BY <1>1, <3>1 DEF UpdateBm
    <3>3. b + 1 = BlocksAsked
      BY <1>3, <2>3, Asked
    <3>4. Len(got') = BlocksAsked * InAll
      <4> DEFINE y == BlocksAsked * InAll
      <4>1. y = z + InAll
        BY <1>10, <1>11, <3>3
      <4> HIDE DEF y, z
      <4>2. Len(got') = y
        BY <1>8, <1>10, <1>11, <3>1, <4>1, Sizes
      <4> QED BY <4>2 DEF y
    <3>5. AtEnd'
      BY <1>1, <3>1, <3>2, <3>4, SameJob DEF AtEnd, Quiet, Running
    <3> QED BY <1>2, <1>4, <1>5, <3>2, <3>5, <1>1 DEF DriveSide
  <2> QED BY <1>3, <2>1, <2>2, <2>3
<1> QED BY <1>1, <1>6, <1>7, <1>8, <1>12, <1>13 DEF TransferInv

-----------------------------------------------------------------------------
\* Where a driver and a drive can be between two steps.
THEOREM TransferPlaces ==
  ASSUME ReadsOnly PROVE Spec => []TransferInv
<1>1. Init => TransferInv
  <2> SUFFICES ASSUME Init PROVE TransferInv
    OBVIOUS
  <2>1. pi \in PiStates /\ pi.bytes = 0 /\ pi_intr \in BOOLEAN /\ ~pi_intr /\ pc = "seek"
    BY PiAssumption DEF Init, PiInit, PiStates, Directions, Flags
  <2>2. PiSide
    BY <2>1 DEF PiSide
  <2>3. DriveSide
    BY Sizes, DiskAssumption DEF Init, DdInit, DriveSide, DdGood, DdStates, InRange, Fresh, Heard,
       Explained, Empty, Blocks
  <2>4. AtStart
    BY DEF Init, DdInit, AtStart, Quiet, Running
  <2> QED BY <2>2, <2>3, <2>4 DEF Init, TransferInv
<1>2. ReadsOnly /\ TransferInv /\ [Next]_vars => TransferInv'
  <2> SUFFICES ASSUME ReadsOnly, TransferInv, [Next]_vars PROVE TransferInv'
    OBVIOUS
  <2>1. CASE DiskFinish
    BY <2>1, FinishStep
  <2>2. CASE (PiCount \/ PiIdle) /\ UNCHANGED <<dd, job, pc, seen, got>>
    BY <2>2, PiAlone
  <2>3. CASE Driver
    BY <2>3, SeekStep, AckSeekStep, StartStep, LookStep, NothingStep, AddressStep, LengthStep,
       MovedStep DEF Driver
  <2>4. CASE Again
    BY <2>4, AgainStep
  <2>5. CASE UNCHANGED vars
    BY <2>5, SameJob DEF vars, piVars, TransferInv, PiSide, DriveSide, AtStart, UnderWay, AtEnd,
       AtSector, AtC2, AtGap, InBlock, AtRest, Moving, Quiet, Running
  <2> QED BY <2>1, <2>2, <2>3, <2>4, <2>5 DEF Next, DiskCycle
<1> QED BY <1>1, <1>2, PTL DEF Spec

\* A read delivers exactly the sectors it was asked for, in order and each once,
\* with the C2 data of every block, and the next one starts when all of them are
\* there: every step of the two controllers and the driver is one of DiskBlocks',
\* or changes nothing of what that sees. (That all are delivered in the end, the
\* rest of ImplementsBlocks, is checked by the run.)
THEOREM ReadsDeliver ==
  ASSUME ReadsOnly
  PROVE  Spec => Disk!Init /\ [][Disk!Deliver \/ Disk!NextAsk]_(Disk!vars)
<1>1. Init => Disk!Init
  BY DEF Init, Disk!Init, Disk!Asks, FirstOf
<1>2. ReadsOnly /\ TransferInv /\ [Next]_vars => [Disk!Deliver \/ Disk!NextAsk]_(Disk!vars)
  <2> SUFFICES ASSUME ReadsOnly, TransferInv, [Next]_vars
               PROVE  [Disk!Deliver \/ Disk!NextAsk]_(Disk!vars)
    OBVIOUS
  <2>1. CASE DiskFinish
    <3>1. /\ Len(got) < BlocksAsked * InAll
          /\ got' = Append(got, [block |-> BlockOf(Len(got) \div InAll), sector |-> Len(got) % InAll])
          /\ job' = job
      BY <2>1, FinishStep, Finished
    <3>2. Len(got) + 1 - 1 = Len(got)
      BY Asked
    <3>3. Disk!Deliver
      BY <3>1, <3>2 DEF Disk!Deliver, Disk!Due, BlocksAsked, InAll, BlockOf
    <3> QED BY <3>3
  <2>2. CASE Again
    BY <2>2, AgainStep DEF Again, Disk!NextAsk, Disk!Asks, FirstOf, BlocksAsked, InAll
  <2>3. CASE UNCHANGED <<job, got>>
    BY <2>3 DEF Disk!vars
  <2>4. Driver \/ UNCHANGED vars => UNCHANGED <<job, got>>
    BY DEF Driver, vars, Seek, AckSeek, Start, Look, NothingWanted, WriteLength, Moved,
       WriteAddress, Goto
  <2> QED BY <2>1, <2>2, <2>3, <2>4 DEF Next, DiskCycle
<1> QED BY <1>1, <1>2, TransferPlaces, PTL DEF Spec
=============================================================================
