-------------------------------- MODULE VrTlb --------------------------------
(***************************************************************************)
(* Address translation of the VR4300: the TLB of arch/x86_64/tlb/tlb.c,    *)
(* its instructions of vr4300/cp0.c, the translation in the stages of      *)
(* vr4300/pipeline.c with the segment that EX/DC keeps, and the registers  *)
(* that a TLB exception leaves in vr4300/fault.c, with a guest that fills  *)
(* the TLB from its page tables.                                           *)
(*                                                                         *)
(* Of an address, bits 12 and 11 are the region, bits 5 to 1 the VPN2 of   *)
(* an entry for two pages of the smaller size, and bit 0 selects one of    *)
(* them. An entry of the larger size covers bit 1 also, and that bit       *)
(* selects. A page of the guest belongs to the address, its ASID and its   *)
(* size, and its frame is a number of its own.                             *)
(***************************************************************************)
EXTENDS Integers, FiniteSets

-----------------------------------------------------------------------------
(***************************************************************************)
(* The address space of the VR4300: get_segment of vr4300/segment.c.       *)
(*                                                                         *)
(* An address has 13 bits instead of 64. Bit 0 stands for bit 12, the page *)
(* of a pair, and bit 1 for the rest of the offset into a segment; bits 2  *)
(* to 4 are bits 29 to 31; bit 5 stands for bits 32 to 39, which move      *)
(* together; bits 6 and 7 for bits 40 to 58; bits 8 to 12 are bits 59 to   *)
(* 63. All starts, lengths and comparisons of the source are sums of these *)
(* bits. The instruction set's own map is stated beside it.                *)
(***************************************************************************)

VSize == 8192
VAddresses == 0 .. VSize - 1

\* Powers of two of the source at this scale.
V29 == 4
V31 == 16
V32 == 32
V40 == 64
V59 == 256
V62 == 2048
V63 == 4096

\* STATUS, as far as addresses depend on it.
Modes == {"kernel", "supervisor", "user"}
StatusValues ==
  [ksu : Modes, exl : BOOLEAN, erl : BOOLEAN, kx : BOOLEAN, sx : BOOLEAN, ux : BOOLEAN]

ModeOf(status) == IF status.exl \/ status.erl THEN "kernel" ELSE status.ksu
Use64(status) ==
  CASE ModeOf(status) = "kernel" -> status.kx
    [] ModeOf(status) = "supervisor" -> status.sx
    [] OTHER -> status.ux

\* The segments: what xmode_mask tests, and the offset, are told by the name.
Segment(name, start, length, mapped, xmode, offset) ==
  [name |-> name, start |-> start, length |-> length, mapped |-> mapped, xmode |-> xmode,
   offset |-> offset]
USEG == Segment("useg", 0, V31, TRUE, "ux", 0)
XUSEG == Segment("xuseg", 0, V40, TRUE, "ux", 0)
XSSEG == Segment("xsseg", V62, V40, TRUE, "sx", 0)
XKSEG == Segment("xkseg", V63 + V62, V40, TRUE, "kx", 0)
KSEGs(n) ==
  Segment(<<"ckseg0", "ckseg1", "csseg", "ckseg3">>[n + 1], VSize - V31 + n * V29, V29, n >= 2,
          "kx", IF n >= 2 THEN 0 ELSE VSize - V31 + n * V29)
XKPHYS(n) == Segment("xkphys", V63 + n * V59, V32, FALSE, "kx", V63 + n * V59)
default_segment == Segment("none", 1, 0, FALSE, "none", 0)
NULL == [name |-> "NULL"]

Minus(a, b) == (a + VSize - b) % VSize
SignExtended(a) == IF a % V32 >= V31 THEN VSize - V32 + (a % V32) ELSE a % V32

Inside(a, segment) == Minus(a, segment.start) < segment.length

\* What a kernel address is tried against: kernel_segs_lut, or csseg.
KernelSegment(a) ==
  IF Minus(a, V63) < V62 + V40 - V31
  THEN LET n == (a \div V59) % 16 IN IF n < 8 THEN XKPHYS(n) ELSE XKSEG
  ELSE KSEGs(2)

IfInside(a, segment) == IF Inside(a, segment) THEN segment ELSE NULL

get_segment(a, status) ==
  LET mode == ModeOf(status)
      useg == IF Use64(status) THEN XUSEG ELSE USEG
  IN IF ~ Use64(status) /\ SignExtended(a) # a THEN NULL
     ELSE IF a < useg.length THEN useg
     ELSE IF mode = "user" THEN NULL
     ELSE IF a \div V40 = V62 \div V40 THEN XSSEG
     ELSE IF mode = "supervisor" THEN IfInside(a, KSEGs(2))
     ELSE IF a >= KSEGs(0).start THEN KSEGs((a \div V29) % 4)
     ELSE IfInside(a, KernelSegment(a))

-----------------------------------------------------------------------------
\* The map of the instruction set: name, first address, last address, by mode.
Region(name, first, last) == [name |-> name, first |-> first, last |-> last]

ManualMap(mode, wide) ==
  LET user == {IF wide THEN Region("xuseg", 0, V40 - 1) ELSE Region("useg", 0, V31 - 1)}
      sseg == {Region("csseg", VSize - 2 * V29, VSize - V29 - 1)}
      xsseg == IF wide THEN {Region("xsseg", V62, V62 + V40 - 1)} ELSE {}
      kseg == {Region("ckseg0", VSize - 4 * V29, VSize - 3 * V29 - 1),
               Region("ckseg1", VSize - 3 * V29, VSize - 2 * V29 - 1),
               Region("ckseg3", VSize - V29, VSize - 1)}
      xkseg == {Region("xkseg", V63 + V62, V63 + V62 + V40 - V31 - 1)}
               \cup {Region("xkphys", V63 + n * V59, V63 + n * V59 + V32 - 1) : n \in 0 .. 7}
  IN user \cup (IF mode = "user" THEN {} ELSE sseg \cup xsseg)
          \cup (IF mode = "kernel" THEN kseg \cup (IF wide THEN xkseg ELSE {}) ELSE {})

ManualNames(a, mode, wide) ==
  {r.name : r \in {q \in ManualMap(mode, wide) : a \in q.first .. q.last}}

-----------------------------------------------------------------------------

CONSTANTS
  TlbEntries,     \* 32
  TlbAddresses,   \* the mapped addresses the guest uses
  TlbStatus,      \* the settings of KX, SX and UX it runs with
  LargePages,     \* does it use the larger size
  HandlerMasks    \* does its handler clear the bits under the page mask in ENTRYHI

ASSUME VrTlbAssumption ==
  /\ TlbEntries \in Nat \ {0}
  /\ TlbAddresses \subseteq VAddresses
  /\ LargePages \in BOOLEAN /\ HandlerMasks \in BOOLEAN

VARIABLES
  tlb,       \* struct cen64_tlb, with page_mask, pfn and state of struct vr4300_cp0
  status,    \* STATUS
  hi,        \* ENTRYHI
  segment,   \* exdc_latch.segment
  tries      \* history: the access that a TLB exception has stopped, and how often

tlbVars == <<tlb, status, hi, segment, tries>>

Asids == {1, 2}
Pages == 0 .. 1

-----------------------------------------------------------------------------
\* The fields of an address: bits of ENTRYHI, of vpn2 and of the page mask.
RegionBits(a) == a \div V62
Vpn2Bits(a) == (a % V40) \div 2
Vpn2(a) == RegionBits(a) * (V40 \div 2) + Vpn2Bits(a)
Masked(vpn, mask) == IF mask = 1 THEN vpn - (vpn % 2) ELSE vpn
Select(a, mask) == IF mask = 1 THEN (a \div 2) % 2 ELSE a % 2

\* One lane of tlb_probe. tlb_init's entries match nothing.
Matches(entry, a, asid) ==
  entry.vpn2 = Masked(Vpn2(a), entry.mask) /\ (entry.asid = asid \/ entry.global)

NoPage == [frame |-> <<0, 0>>, g |-> FALSE, v |-> FALSE, d |-> FALSE]
NoEntry == [vpn2 |-> -1, asid |-> 0, global |-> FALSE, mask |-> 0, lo |-> [p \in Pages |-> NoPage]]
Matching(t, a, asid) == {i \in DOMAIN t : t[i].vpn2 # -1 /\ Matches(t[i], a, asid)}

\* tlb_write, with what TLBWI and TLBWR keep themselves.
tlb_write(entryhi, lo, mask) ==
  [vpn2 |-> entryhi.vpn2, asid |-> entryhi.asid, global |-> lo[0].g /\ lo[1].g, mask |-> mask,
   lo |-> lo]

\* tlb_read and TLBR.
TLBR(entry) ==
  [entryhi |-> [vpn2 |-> entry.vpn2, asid |-> entry.asid], lo |-> entry.lo, mask |-> entry.mask]

-----------------------------------------------------------------------------
\* The guest's page tables: the frame, the cache attribute and the rights.
GlobalPage(a) == a \div V62 = 3
LargePage(a) == LargePages /\ (a \div V29) % 2 = 1
MaskAt(a) == IF LargePage(a) THEN 1 ELSE 0
FrameOf(a, asid) == <<a, IF GlobalPage(a) THEN 0 ELSE asid>>
PageAt(a, asid, v) == [frame |-> FrameOf(a, asid), g |-> GlobalPage(a), v |-> v, d |-> FALSE]

\* The two pages of the entry for a.
PairOf(a) ==
  LET mask == MaskAt(a)
      base == IF mask = 1 THEN a - (a % 4) ELSE a - (a % 2)
  IN [p \in Pages |-> base + p * (IF mask = 1 THEN 2 ELSE 1)]

\* paddr: the frame, and the offset under the page mask.
PhysicalOf(entry, a) ==
  LET page == entry.lo[Select(a, entry.mask)] IN
  [frame |-> page.frame, offset |-> IF entry.mask = 1 THEN a % 2 ELSE 0]
RightPhysical(a, asid) ==
  [frame |-> FrameOf(IF LargePage(a) THEN a - (a % 2) ELSE a, asid),
   offset |-> IF LargePage(a) THEN a % 2 ELSE 0]

-----------------------------------------------------------------------------
\* The segment of an access in DC: the one that is kept, unless the address is
\* outside of it.
SegmentFor(a) == IF Inside(a, segment) THEN segment ELSE get_segment(a, status)

\* The outcome of the translation of a mapped address.
Translation(a, write) ==
  LET found == Matching(tlb, a, hi.asid) IN
  IF found = {} THEN "miss"
  ELSE LET page == tlb[CHOOSE i \in found : TRUE].lo IN
       LET chosen == page[Select(a, tlb[CHOOSE i \in found : TRUE].mask)] IN
       IF ~ chosen.v THEN "invalid" ELSE IF write /\ ~ chosen.d THEN "mod" ELSE "ok"

XModeBit(seg) ==
  CASE seg.xmode = "ux" -> status.ux [] seg.xmode = "sx" -> status.sx [] OTHER -> status.kx

\* vr4300_tlb_exception_prolog: the VPN2 that ENTRYHI gets; with the mode's bit
\* clear, from 32 bits of the address, extended by its sign.
FaultVpn2(a, seg) == IF XModeBit(seg) THEN Vpn2(a) ELSE Vpn2(SignExtended(a))

\* An access in DC. One that faults leaves ENTRYHI for its handler.
TlbAccess(a, write) ==
  LET seg == SegmentFor(a) IN
  /\ ~ status.exl
  /\ tries.at = -1 \/ (tries.at = a /\ tries.write = write)
  /\ seg # NULL
  /\ seg.mapped
  /\ IF Translation(a, write) = "ok"
     THEN /\ segment' = seg
          /\ tries' = [tries EXCEPT !.at = -1, !.count = 0]
          /\ UNCHANGED <<status, hi>>
     ELSE /\ hi' = [hi EXCEPT !.vpn2 = FaultVpn2(a, seg)]
          /\ status' = [status EXCEPT !.exl = TRUE]
          /\ segment' = default_segment
          /\ tries' = [at |-> a, write |-> write, count |-> tries.count + 1,
                       why |-> Translation(a, write)]
  /\ UNCHANGED tlb

\* What the handler writes ENTRYHI back as.
HandlerHi(a) == IF HandlerMasks THEN [hi EXCEPT !.vpn2 = Masked(@, MaskAt(a))] ELSE hi
\* The other page of the pair is not resident, and none has been stored to.
HandlerLo(a) == [p \in Pages |-> PageAt(PairOf(a)[p], hi.asid, Select(a, MaskAt(a)) = p)]

VR4300_ERET_TLB == /\ status' = [status EXCEPT !.exl = FALSE] /\ segment' = default_segment

\* The refill handler: the pair of pages of the tables, at any entry that is not
\* wired: TLBWR.
RefillHandler ==
  /\ status.exl /\ tries.at # -1 /\ tries.why = "miss"
  /\ \E i \in DOMAIN tlb :
       tlb' = [tlb EXCEPT ![i] = tlb_write(HandlerHi(tries.at), HandlerLo(tries.at), MaskAt(tries.at))]
  /\ VR4300_ERET_TLB
  /\ UNCHANGED <<hi, tries>>

\* The handler of the other exceptions, the first use of a page that is not
\* resident and the first store: TLBP, TLBR, TLBWI.
PageHandler ==
  /\ status.exl /\ tries.at # -1 /\ tries.why # "miss"
  /\ \E i \in Matching(tlb, tries.at, hi.asid) :
       LET read == TLBR(tlb[i])
           changed == [read.lo EXCEPT ![Select(tries.at, read.mask)] =
                         IF tries.why = "mod" THEN [@ EXCEPT !.d = TRUE] ELSE [@ EXCEPT !.v = TRUE]]
       IN tlb' = [tlb EXCEPT ![i] = tlb_write(read.entryhi, changed, read.mask)]
  /\ VR4300_ERET_TLB
  /\ UNCHANGED <<hi, tries>>

\* Another process: its ASID, and its page tables.
ContextSwitch(asid) ==
  /\ ~ status.exl /\ tries.at = -1
  /\ hi' = [hi EXCEPT !.asid = asid]
  /\ UNCHANGED <<tlb, status, segment, tries>>

\* Mutant of MTC0_STATUS: the segment of the last access is kept.
MTC0_STATUS_keeps(new) ==
  /\ ~ status.exl /\ tries.at = -1
  /\ status' = new
  /\ UNCHANGED <<tlb, hi, segment, tries>>

MTC0_STATUS(new) ==
  /\ ~ status.exl /\ tries.at = -1
  /\ status' = new
  /\ segment' = default_segment
  /\ UNCHANGED <<tlb, hi, tries>>

TlbInit ==
  /\ tlb = [i \in 0 .. TlbEntries - 1 |-> NoEntry]
  /\ status \in TlbStatus
  /\ hi = [vpn2 |-> 0, asid |-> 1]
  /\ segment = default_segment
  /\ tries = [at |-> -1, write |-> FALSE, count |-> 0, why |-> "none"]

TlbNext ==
  \/ \E a \in TlbAddresses, write \in BOOLEAN : TlbAccess(a, write)
  \/ RefillHandler \/ PageHandler
  \/ \E asid \in Asids : ContextSwitch(asid)
  \/ \E new \in TlbStatus : MTC0_STATUS(new)

TlbSpec == TlbInit /\ [][TlbNext]_tlbVars

-----------------------------------------------------------------------------
TlbTypeOK ==
  /\ status \in StatusValues
  /\ hi.asid \in Asids
  /\ tries.count \in Nat

\* get_segment agrees with the map of the instruction set: at every address, in
\* every mode. Looked at while the TLB is empty, which it is once in each.
SegmentsRight ==
  DOMAIN tlb # {} /\ (\A i \in DOMAIN tlb : tlb[i] = NoEntry) => \A a \in VAddresses :
    LET seg == get_segment(a, status) IN
    ManualNames(a, ModeOf(status), Use64(status)) = IF seg = NULL THEN {} ELSE {seg.name}

\* The segment that EX/DC keeps is the one a fresh look-up would give: no change
\* of mode, exception or return leaves it behind.
SegmentCurrent ==
  \A a \in TlbAddresses : Inside(a, segment) => segment = get_segment(a, status)

\* What the TLB translates, it translates as the page tables of the running
\* process do.
TranslatedRight ==
  \A a \in TlbAddresses :
    \A i \in Matching(tlb, a, hi.asid) : PhysicalOf(tlb[i], a) = RightPhysical(a, hi.asid)

\* The page of an address is in at most one entry: the exception's ENTRYHI makes
\* the handler put it where it is looked for.
OneEntry == \A a \in TlbAddresses : Cardinality(Matching(tlb, a, hi.asid)) <= 1

\* An access is stopped at most three times: by the refill, by a page that is not
\* resident, and by the first store. When the handlers are done it goes through.
FaultsEnd == tries.count <= 3

\* TLBR and TLBWI of the same entry change nothing.
TlbRoundTrip ==
  \A i \in DOMAIN tlb : tlb[i].vpn2 # -1 =>
    LET read == TLBR(tlb[i]) IN tlb_write(read.entryhi, read.lo, read.mask) = tlb[i]

\* Addresses as a whole: segments, the segment that is kept, and the TLB with
\* its exceptions and the handlers that answer them.
AddressesRight ==
  /\ SegmentsRight /\ SegmentCurrent /\ TranslatedRight /\ OneEntry /\ FaultsEnd /\ TlbRoundTrip
==============================================================================
