------------------------ MODULE PiController_proofs ------------------------
(***************************************************************************)
(* Proofs about the PI for every set of addresses and lengths the guest    *)
(* may program, every width of its registers and every cartridge.          *)
(*                                                                         *)
(* A controller that is not busy may still have a transfer (a reset leaves *)
(* it), so the length and the countdown are tied to the number of bytes    *)
(* left and not to the status word; the request is tied to the status word *)
(* alone, since a reset frees the registers.                               *)
(*                                                                         *)
(* Then the flash chip that the same file has on its bus, the loop that    *)
(* copies cartridge ROM, and at the end the IS-Viewer on the same bus.     *)
(***************************************************************************)
EXTENDS PiController, FlashRam, PiRomDma, IsViewer, SequenceTheorems, TLAPS

PiInv == PiTypeOK /\ InterruptTold /\ BusyArmed /\ AsAsked

\* Rounding to words and to units of eight bytes gives an address.
LEMMA Rounded ==
  ASSUME NEW n \in Nat
  PROVE  RoundUp(n, 2) \in Nat /\ RoundUp(n, 8) \in Nat
BY DEF RoundUp

\* A register holds what fits in it.
LEMMA Wrapped ==
  ASSUME NEW n \in Int PROVE n % WordMod \in Nat
BY PiAssumption

\* The registers after a transfer in either direction.
LEMMA ReadLengthTyped ==
  ASSUME NEW l \in Nat, NEW d \in Nat
  PROVE  (l + 1 - ((d % DramMask) % 8)) % WordMod \in Nat
<1>1. d % DramMask \in Nat
  BY PiAssumption
<1>2. (d % DramMask) % 8 \in Int
  BY <1>1
<1> QED BY <1>2, Wrapped

LEMMA FirstTyped ==
  ASSUME NEW d \in Nat, NEW l \in Nat
  PROVE  /\ Misalign(d) \in 0 .. 7 /\ FirstBlock(d, l) \in Nat
         /\ FirstBlock(d, l) <= l
         /\ FirstWritten(d, l) \in Nat
<1>1. Misalign(d) \in 0 .. 7
  BY DEF Misalign, Align
<1>2. BlockSize \in Nat /\ BlockSize > 8
  BY RomTransferAssumption DEF Align
<1>3. FirstBlock(d, l) \in Nat /\ FirstBlock(d, l) <= l
  BY <1>1, <1>2 DEF FirstBlock, Least
<1>4. FirstWritten(d, l) \in Nat
  BY <1>1, <1>2, <1>3 DEF FirstWritten
<1> QED BY <1>1, <1>3, <1>4

LEMMA AfterRomTyped ==
  ASSUME NEW d \in Nat, NEW l \in Nat, NEW o \in Nat
  PROVE  /\ DramAfterRom(d, l) % WordMod \in Nat
         /\ CartAfterRom(o, l) % WordMod \in Nat
         /\ WrLenAfterRom(d, l) \in Nat
<1> DEFINE m == Misalign(d)
           f == FirstBlock(d, l)
           w == FirstWritten(d, l)
<1>1. m \in 0 .. 7 /\ f \in Nat /\ f <= l /\ w \in Nat
  BY FirstTyped
<1>2. BlockSize \in Nat /\ BlockSize > 8
  BY RomTransferAssumption DEF Align
<1>3. DramAfterRom(d, l) = IF f = l THEN RoundUp(d + w, 8)
                           ELSE RoundUp(d - m + BlockSize + RoundUp(l - f, 2), 8)
  BY DEF DramAfterRom, Align
<1>4. WrLenAfterRom(d, l) = 127 - (IF l <= 8 THEN m ELSE 0)
  BY DEF WrLenAfterRom
<1> HIDE DEF m, f, w
<1>5. RoundUp(d + w, 8) \in Nat
  BY <1>1, Rounded
<1>6. RoundUp(l - f, 2) \in Nat
  BY <1>1, Rounded
<1>7. RoundUp(d - m + BlockSize + RoundUp(l - f, 2), 8) \in Nat
  <2>1. d - m + BlockSize + RoundUp(l - f, 2) \in Nat
    BY <1>1, <1>2, <1>6
  <2> QED BY <2>1, Rounded
<1>8. RoundUp(l, 2) \in Nat
  BY Rounded
<1> QED BY <1>1, <1>3, <1>4, <1>5, <1>7, <1>8, Wrapped DEF CartAfterRom

\* What a finished transfer leaves in the controller.
Finished(s) ==
  [(IF s.dir = "rd" THEN AfterRead(s) ELSE AfterWrite(s)) EXCEPT
     !.status = (@ \ {"DMA_BUSY"}) \cup {"INTERRUPT"}, !.bytes = 0, !.counter = Expired]

PiStates ==
  [status : SUBSET Flags, dram : Nat, len : [Directions -> Nat],
   cart : [area : Areas, bank : 0 .. Banks - 1, off : Nat],
   bytes : Nat, counter : Nat \cup {Expired}, dir : Directions]

LEMMA AfterTyped ==
  ASSUME NEW s \in PiStates
  PROVE  /\ AfterRead(s) \in PiStates /\ AfterRead(s).status = s.status
         /\ AfterWrite(s) \in PiStates /\ AfterWrite(s).status = s.status
<1>1. /\ s.dram \in Nat /\ s.len \in [Directions -> Nat] /\ s.cart.off \in Nat
      /\ s.len["rd"] \in Nat /\ s.len["wr"] \in Nat
      /\ s.cart \in [area : Areas, bank : 0 .. Banks - 1, off : Nat]
  BY DEF PiStates, Directions
<1>2. ReadLength(s) \in Nat
  BY <1>1, ReadLengthTyped DEF ReadLength
<1>3. /\ RoundUp(s.dram + ReadLength(s), 8) % WordMod \in Nat
      /\ RoundUp(s.cart.off + ReadLength(s), 2) % WordMod \in Nat
  BY <1>1, <1>2, Rounded, Wrapped
<1>4. AfterRead(s) \in PiStates /\ AfterRead(s).status = s.status
  <2> DEFINE d == RoundUp(s.dram + ReadLength(s), 8) % WordMod
             o == RoundUp(s.cart.off + ReadLength(s), 2) % WordMod
             l == [s.len EXCEPT !["rd"] = 127]
             c == [s.cart EXCEPT !.off = o]
  <2>1. l \in [Directions -> Nat] /\ c \in [area : Areas, bank : 0 .. Banks - 1, off : Nat]
    BY <1>1, <1>3
  <2>2. AfterRead(s) = [s EXCEPT !.len = l, !.dram = d, !.cart = c]
    BY <1>1 DEF AfterRead, PiStates
  <2>3. d \in Nat
    BY <1>3
  <2> HIDE DEF d, l, c
  <2> QED BY <2>1, <2>2, <2>3 DEF PiStates
<1>5. AfterWrite(s) \in PiStates /\ AfterWrite(s).status = s.status
  <2> DEFINE n == s.len["wr"] + 1
             d == DramAfterRom(s.dram, n) % WordMod
             o == CartAfterRom(s.cart.off, n) % WordMod
             l == [s.len EXCEPT !["wr"] = WrLenAfterRom(s.dram, n)]
             c == [s.cart EXCEPT !.off = o]
  <2>1. d \in Nat /\ o \in Nat /\ WrLenAfterRom(s.dram, n) \in Nat
    <3>1. n \in Nat BY <1>1
    <3> HIDE DEF n
    <3> QED BY <1>1, <3>1, AfterRomTyped
  <2>2. l \in [Directions -> Nat] /\ c \in [area : Areas, bank : 0 .. Banks - 1, off : Nat]
    BY <1>1, <2>1
  <2>3. AfterWrite(s) = IF s.cart.area = "rom"
                        THEN [s EXCEPT !.len = l, !.dram = d, !.cart = c] ELSE s
    BY <1>1 DEF AfterWrite, PiStates
  <2> HIDE DEF d, l, c
  <2> QED BY <2>1, <2>2, <2>3 DEF PiStates
<1> QED BY <1>4, <1>5

LEMMA FinishedTyped ==
  ASSUME NEW s \in PiStates
  PROVE  /\ Finished(s) \in PiStates /\ Finished(s).bytes = 0
         /\ "DMA_BUSY" \notin Finished(s).status /\ "INTERRUPT" \in Finished(s).status
<1> DEFINE r == IF s.dir = "rd" THEN AfterRead(s) ELSE AfterWrite(s)
           f == (r.status \ {"DMA_BUSY"}) \cup {"INTERRUPT"}
<1>1. r \in PiStates
  BY AfterTyped
<1>2. Finished(s) = [r EXCEPT !.status = f, !.bytes = 0, !.counter = Expired]
  BY DEF Finished
<1> HIDE DEF r
<1>3. f \in SUBSET Flags /\ "DMA_BUSY" \notin f /\ "INTERRUPT" \in f
  BY <1>1 DEF PiStates, Flags
<1> HIDE DEF f
<1>4. Finished(s).status = f /\ Finished(s).bytes = 0
  BY <1>1, <1>2 DEF PiStates
<1>5. Finished(s) \in PiStates
  <2> DEFINE a == [r EXCEPT !.status = f]
             b == [a EXCEPT !.bytes = 0]
  <2>1. a \in PiStates
    BY <1>1, <1>3 DEF PiStates
  <2>2. Finished(s) = [b EXCEPT !.counter = Expired]
    BY <1>2
  <2> HIDE DEF a
  <2>3. b \in PiStates
    BY <2>1 DEF PiStates
  <2> HIDE DEF b
  <2> QED BY <2>2, <2>3 DEF PiStates
<1> QED BY <1>3, <1>4, <1>5

-----------------------------------------------------------------------------
LEMMA PiInitInv == PiInit => PiInv
<1> SUFFICES ASSUME PiInit PROVE PiInv
  OBVIOUS
<1>1. 0 \in 0 .. Banks - 1 /\ "rom" \in Areas
  BY PiAssumption
<1>2. /\ pi.status = {} /\ pi.bytes = 0 /\ pi_intr = FALSE
  BY DEF PiInit
<1>3. PiTypeOK
  <2>1. [d \in Directions |-> 127] \in [Directions -> Nat]
    OBVIOUS
  <2>2. [area |-> "rom", bank |-> 0, off |-> 0] \in [area : Areas, bank : 0 .. Banks - 1, off : Nat]
    BY <1>1
  <2>3. {} \in SUBSET Flags /\ "wr" \in Directions /\ FALSE \in BOOLEAN
    BY DEF Directions
  <2> QED BY <2>1, <2>2, <2>3 DEF PiInit, PiTypeOK
<1>4. InterruptTold /\ BusyArmed /\ AsAsked
  BY <1>2 DEF InterruptTold, BusyArmed, AsAsked, Busy
<1> QED BY <1>3, <1>4 DEF PiInv

\* Each operation keeps the invariant.
LEMMA StatusKeeps ==
  ASSUME PiInv, NEW reset \in BOOLEAN, NEW clear \in BOOLEAN, PiWriteStatus(reset, clear)
  PROVE  PiInv'
<1> DEFINE f == pi.status \ ((IF reset THEN {"DMA_BUSY", "ERROR"} ELSE {})
                              \cup (IF clear THEN {"INTERRUPT"} ELSE {}))
<1>1. pi' = [pi EXCEPT !.status = f] /\ pi_intr' = (pi_intr /\ ~clear) /\ asked' = asked
  BY DEF PiWriteStatus, piVars
<1>2. /\ f \in SUBSET Flags /\ ("DMA_BUSY" \in f => "DMA_BUSY" \in pi.status)
      /\ "INTERRUPT" \in f <=> "INTERRUPT" \in pi.status /\ ~clear
  BY DEF PiInv, PiTypeOK, Flags
<1> HIDE DEF f
<1> QED BY <1>1, <1>2
     DEF PiInv, PiTypeOK, InterruptTold, BusyArmed, AsAsked, Busy, Request

LEMMA RefuseKeeps ==
  ASSUME PiInv, PiRefuse PROVE PiInv'
BY DEF PiInv, PiRefuse, PiTypeOK, InterruptTold, BusyArmed, AsAsked, Busy, Request, Flags

LEMMA DramKeeps ==
  ASSUME PiInv, NEW d \in Drams, PiWriteDram(d) PROVE PiInv'
BY PiAssumption
   DEF PiInv, PiWriteDram, PiTypeOK, InterruptTold, BusyArmed, AsAsked, Busy, Request

LEMMA CartKeeps ==
  ASSUME PiInv, NEW c \in CartAddresses, PiWriteCart(c) PROVE PiInv'
<1>1. c \in [area : Areas, bank : 0 .. Banks - 1, off : Nat]
  BY PiAssumption DEF CartAddresses
<1> QED BY <1>1
     DEF PiInv, PiWriteCart, PiTypeOK, InterruptTold, BusyArmed, AsAsked, Busy, Request

LEMMA LenKeeps ==
  ASSUME PiInv, NEW dir \in Directions, NEW n \in Lengths, PiWriteLen(dir, n)
  PROVE  PiInv'
<1> DEFINE l == [pi.len EXCEPT ![dir] = n]
           k == (n + 1) \div 2 + Overhead
           f == pi.status \cup {"DMA_BUSY"}
           b == n + 1
<1>1. /\ pi' = [pi EXCEPT !.len = l, !.bytes = b, !.dir = dir, !.counter = k, !.status = f]
      /\ pi_intr' = pi_intr /\ asked' = Request(pi')
  BY DEF PiWriteLen, PiInv, PiTypeOK
<1>2. n \in Nat /\ Overhead \in Nat
  BY PiAssumption
<1>3. /\ b \in Nat /\ b > 0 /\ k \in Nat /\ k = b \div 2 + Overhead
      /\ l \in [Directions -> Nat] /\ b = l[dir] + 1
      /\ f \in SUBSET Flags /\ ("INTERRUPT" \in f <=> "INTERRUPT" \in pi.status)
  BY <1>2 DEF PiInv, PiTypeOK, Flags
<1> HIDE DEF l, k, f, b
<1>4. PiTypeOK'
  BY <1>1, <1>3 DEF PiInv, PiTypeOK
<1>5. InterruptTold'
  BY <1>1, <1>3 DEF PiInv, PiTypeOK, InterruptTold
<1>6. BusyArmed'
  <2>1. pi'.bytes = b /\ pi'.counter = k /\ pi'.len = l /\ pi'.dir = dir
    BY <1>1 DEF PiInv, PiTypeOK
  <2> QED BY <1>3, <2>1 DEF BusyArmed
<1>7. AsAsked'
  BY <1>1 DEF AsAsked
<1> QED BY <1>4, <1>5, <1>6, <1>7 DEF PiInv

LEMMA CycleKeeps ==
  ASSUME PiInv, PiCycle PROVE PiInv'
<1>1. CASE PiCount
  <2> DEFINE k == pi.counter - 1
  <2>1. pi' = [pi EXCEPT !.counter = k] /\ pi_intr' = pi_intr /\ asked' = asked
    BY <1>1 DEF PiCount
  <2>2. k \in Nat /\ k <= pi.counter
    BY <1>1 DEF PiCount, PiInv, PiTypeOK, Expired
  <2>3. pi.bytes > 0 => k \in 0 .. pi.bytes \div 2 + Overhead
    BY <2>2, PiAssumption DEF PiInv, PiTypeOK, BusyArmed
  <2> HIDE DEF k
  <2> QED BY <2>1, <2>2, <2>3
       DEF PiInv, PiTypeOK, InterruptTold, BusyArmed, AsAsked, Busy, Request
<1>2. CASE PiIdle
  BY <1>2 DEF PiIdle, PiInv, PiTypeOK, InterruptTold, BusyArmed, AsAsked, Busy, Request
<1>3. CASE PiFinish
  <2>1. pi' = Finished(pi) /\ pi_intr' = TRUE
    BY <1>3 DEF PiFinish, Finished
  <2>2. pi \in PiStates
    BY DEF PiInv, PiTypeOK, PiStates
  <2>3. /\ pi' \in PiStates /\ pi'.bytes = 0
        /\ "DMA_BUSY" \notin pi'.status /\ "INTERRUPT" \in pi'.status
    BY <2>1, <2>2, FinishedTyped
  <2> QED BY <2>1, <2>3
       DEF PiInv, PiTypeOK, PiStates, InterruptTold, BusyArmed, AsAsked, Busy
<1> QED BY <1>1, <1>2, <1>3 DEF PiCycle

LEMMA PiInvariant == PiSpec => []PiInv
<1>1. PiInv /\ [PiNext]_piVars => PiInv'
  <2> SUFFICES ASSUME PiInv, [PiNext]_piVars PROVE PiInv'
    OBVIOUS
  <2>1. CASE UNCHANGED piVars
    BY <2>1 DEF piVars, PiInv, PiTypeOK, InterruptTold, BusyArmed, AsAsked, Busy, Request
  <2> QED BY <2>1, StatusKeeps, RefuseKeeps, DramKeeps, CartKeeps, LenKeeps, CycleKeeps
       DEF PiNext
<1> QED BY <1>1, PiInitInv, PTL DEF PiSpec

\* The status word of the PI and the flag of the MI tell the same, in every
\* order of transfers, resets and acknowledgements.
THEOREM InterruptAlwaysTold == PiSpec => []InterruptTold
<1>1. PiInv => InterruptTold BY DEF PiInv
<1> QED BY <1>1, PiInvariant, PTL

\* A busy PI has a transfer with a countdown that will end it, and its registers
\* are those of the transfer that was asked for.
THEOREM BusyIsRight == PiSpec => []BusyRight
<1>1. PiInv => BusyRight BY DEF PiInv, BusyRight
<1> QED BY <1>1, PiInvariant, PTL
-----------------------------------------------------------------------------
(* The SRAM: a transfer of eight bytes or more stays in its bank.           *)

LEMMA Quotient ==
  ASSUME NEW b \in Nat, NEW k \in Nat \ {0}, NEW r \in 0 .. k - 1
  PROVE  b * k + r \in Nat /\ (b * k + r) \div k = b
<1> DEFINE p == b * k
           a == p + r
           q == a \div k
           s == k * q
<1>0. p \in Nat /\ k * (b + 1) = p + k /\ k * (b - 1) = p - k
  OBVIOUS
<1> HIDE DEF p
<1>1. a \in Nat
  BY <1>0
<1>2. q \in Int /\ s \in Int /\ s <= a /\ a < s + k
  <2> HIDE DEF a
  <2> QED BY <1>1
<1>3. q >= b + 1 => s >= p + k
  <2> HIDE DEF q
  <2>1. q >= b + 1 => k * q >= k * (b + 1)
    BY <1>2
  <2> QED BY <2>1, <1>0
<1>4. q <= b - 1 => s <= p - k
  <2> HIDE DEF q
  <2>1. q <= b - 1 => k * q <= k * (b - 1)
    BY <1>2
  <2> QED BY <2>1, <1>0
<1> HIDE DEF q, s
<1>5. q = b
  BY <1>0, <1>2, <1>3, <1>4
<1> QED BY <1>1, <1>5 DEF q, p

\* The offset into the file is in the bank that the address selects.
LEMMA OffsetInBank ==
  ASSUME NEW s \in PiStates
  PROVE  /\ SramOffset(s) \in Nat
         /\ SramOffset(s) \div BankSize = s.cart.bank
         /\ SramOffset(s) < Banks * BankSize
<1> DEFINE b == s.cart.bank
           r == s.cart.off % BankSize
<1>1. b \in 0 .. Banks - 1 /\ s.cart.off \in Nat /\ Banks \in Nat /\ BankSize \in Nat \ {0}
  BY PiAssumption DEF PiStates
<1>2. r \in 0 .. BankSize - 1
  BY <1>1
<1>3. SramOffset(s) = b * BankSize + r
  BY DEF SramOffset
<1> HIDE DEF b, r
<1>4. b \in Nat
  BY <1>1
<1>5. SramOffset(s) \in Nat /\ SramOffset(s) \div BankSize = b
  BY <1>1, <1>2, <1>3, <1>4, Quotient
<1>6. (b + 1) * BankSize <= Banks * BankSize /\ (b + 1) * BankSize = b * BankSize + BankSize
  BY <1>1, <1>4
<1>7. b * BankSize \in Nat /\ Banks * BankSize \in Nat
  BY <1>1, <1>4
<1>8. SramOffset(s) < Banks * BankSize
  BY <1>1, <1>2, <1>3, <1>6, <1>7
<1> QED BY <1>5, <1>8 DEF b

\* The check is as good as it looks when its sum does not wrap.
LEMMA FitsInBank ==
  ASSUME NEW s \in PiStates, NEW n \in Nat \ {0}, n + Banks * BankSize <= WordMod,
         SramFits(s, n)
  PROVE  SramOffset(s) \div BankSize = (SramOffset(s) + n - 1) \div BankSize
<1> DEFINE a == SramOffset(s)
           e == a + n - 1
<1>1. a \in Nat /\ a \div BankSize = s.cart.bank /\ a < Banks * BankSize
  BY OffsetInBank
<1>2. Banks * BankSize \in Nat /\ WordMod \in Nat \ {0}
  BY PiAssumption
<1>3. s.cart.bank = (e % WordMod) \div BankSize
  BY DEF SramFits
<1> HIDE DEF a
<1>4. e \in Nat /\ e < WordMod
  BY <1>1, <1>2
<1> HIDE DEF e
<1>5. e % WordMod = e
  BY <1>2, <1>4
<1> QED BY <1>1, <1>3, <1>5 DEF a, e

\* A transfer that waits is short enough for that.
BytesFit == pi.bytes > 0 => pi.bytes + Banks * BankSize <= WordMod

\* The number of bytes that are copied, of a transfer of eight or more.
LEMMA LongBytes ==
  ASSUME PiInv, BytesFit, pi.bytes >= 8
  PROVE  BytesOf(pi) \in Nat \ {0} /\ BytesOf(pi) + Banks * BankSize <= WordMod
<1> DEFINE k == (pi.dram % DramMask) % 8
           size == Banks * BankSize
<1>1. /\ pi.bytes \in Nat /\ pi.dram \in Nat /\ pi.dir \in Directions
      /\ pi.bytes = pi.len[pi.dir] + 1
  BY DEF PiInv, PiTypeOK, BusyArmed
<1>2. pi.dram % DramMask \in Nat
  BY <1>1, PiAssumption
<1>3. k \in 0 .. 7
  BY <1>2
<1>4. size \in Nat /\ WordMod \in Nat /\ pi.bytes + size <= WordMod
  BY <1>1, PiAssumption DEF BytesFit
<1> HIDE DEF k, size
<1>5. CASE pi.dir = "rd"
  <2>1. BytesOf(pi) = (pi.bytes - k) % WordMod
    <3>1. pi.len["rd"] + 1 = pi.bytes
      BY <1>1, <1>5
    <3>2. BytesOf(pi) = (pi.len["rd"] + 1 - k) % WordMod
      BY <1>5, Zenon DEF BytesOf, ReadLength, k
    <3>3. pi.len["rd"] + 1 - k = pi.bytes - k
      <4>1. pi.len["rd"] \in Nat
        BY DEF PiInv, PiTypeOK, Directions
      <4> QED BY <1>3, <3>1, <4>1
    <3> QED BY <3>2, <3>3
  <2> DEFINE n == pi.bytes - k
  <2>2. n \in Nat \ {0} /\ n + size <= WordMod /\ (n < WordMod \/ n = WordMod)
    BY <1>1, <1>3, <1>4
  <2>3. n < WordMod
    <3>1. size > 0
      BY PiAssumption DEF size
    <3> QED BY <3>1, <2>2, <1>4
  <2> HIDE DEF n
  <2>4. n % WordMod = n
    BY <1>4, <2>2, <2>3
  <2> QED BY <2>1, <2>2, <2>4 DEF n, size
<1>6. CASE pi.dir = "wr"
  BY <1>1, <1>4, <1>6 DEF BytesOf, size
<1> QED BY <1>1, <1>5, <1>6 DEF Directions

LEMMA SramStep ==
  ASSUME PiInv, BytesFit, LongSramInBank, [PiNext]_piVars
  PROVE  BytesFit' /\ LongSramInBank'
<1>t. pi \in PiStates
  BY DEF PiInv, PiTypeOK, PiStates
<1>1. CASE UNCHANGED piVars
  BY <1>1 DEF piVars, BytesFit, LongSramInBank
<1>2. ASSUME NEW reset \in BOOLEAN, NEW clear \in BOOLEAN, PiWriteStatus(reset, clear)
      PROVE  BytesFit' /\ LongSramInBank'
  <2>1. pi'.bytes = pi.bytes /\ moved' = moved
    BY <1>2, <1>t DEF PiWriteStatus, PiStates
  <2> QED BY <2>1 DEF BytesFit, LongSramInBank
<1>3. CASE PiRefuse \/ PiCount \/ PiIdle \/ (\E d \in Drams : PiWriteDram(d))
           \/ \E c \in CartAddresses : PiWriteCart(c)
  <2>1. pi'.bytes = pi.bytes /\ moved' = moved
    BY <1>3, <1>t DEF PiRefuse, PiCount, PiIdle, PiWriteDram, PiWriteCart, PiStates
  <2> QED BY <2>1 DEF BytesFit, LongSramInBank
<1>4. ASSUME NEW dir \in Directions, NEW n \in Lengths, PiWriteLen(dir, n)
      PROVE  BytesFit' /\ LongSramInBank'
  <2>1. pi'.bytes = n + 1 /\ moved' = Nothing
    BY <1>4, <1>t DEF PiWriteLen, PiStates
  <2>2. n \in Nat /\ n + Banks * BankSize < WordMod /\ Banks * BankSize \in Nat /\ WordMod \in Nat
    BY PiAssumption
  <2>3. BytesFit'
    BY <2>1, <2>2 DEF BytesFit
  <2> QED BY <2>1, <2>3 DEF LongSramInBank, Nothing
<1>5. CASE PiFinish
  <2>1. pi' = Finished(pi) /\ moved' = Copied(pi)
    BY <1>5 DEF PiFinish, Finished
  <2>2. BytesFit'
    BY <1>t, <2>1, FinishedTyped DEF BytesFit
  <2>3. ASSUME moved'.what = "sram", moved'.of >= 8 PROVE InOneBank(moved')
    <3>1. /\ SramFits(pi, BytesOf(pi))
          /\ moved' = [what |-> "sram", at |-> SramOffset(pi), bytes |-> BytesOf(pi),
                       of |-> pi.bytes]
      BY <2>1, <2>3 DEF Copied, Nothing
    <3>2. pi.bytes >= 8
      BY <2>3, <3>1
    <3>3. BytesOf(pi) \in Nat \ {0} /\ BytesOf(pi) + Banks * BankSize <= WordMod
      BY <3>2, LongBytes
    <3>4. SramOffset(pi) \div BankSize = (SramOffset(pi) + BytesOf(pi) - 1) \div BankSize
      BY <1>t, <3>1, <3>3, FitsInBank
    <3> QED BY <3>1, <3>4 DEF InOneBank
  <2> QED BY <2>2, <2>3 DEF LongSramInBank
<1> QED BY <1>1, <1>2, <1>3, <1>4, <1>5 DEF PiNext, PiCycle

\* Whatever the guest asks for and whenever it asks, a transfer to or from the
\* SRAM that was asked for with eight bytes or more is made inside one bank.
THEOREM LongTransfersInBank == PiSpec => []LongSramInBank
<1>1. PiInit => BytesFit /\ LongSramInBank
  BY DEF PiInit, BytesFit, LongSramInBank, Nothing
<1>2. PiInv /\ (BytesFit /\ LongSramInBank) /\ [PiNext]_piVars => (BytesFit /\ LongSramInBank)'
  BY SramStep
<1> QED BY <1>1, <1>2, PiInvariant, PTL DEF PiSpec

-----------------------------------------------------------------------------
(***************************************************************************)
(* The flash chip: FlashRight, for every size of page, chip and RDRAM, as  *)
(* long as the guest keeps a buffer until its page is programmed. What the *)
(* chip knows of a job is tied to the commands that are still to come.     *)
(***************************************************************************)

ByteValues == 0 .. 255
PageData == [0 .. FlashPage - 1 -> ByteValues]
Memory(n) == [0 .. PageStart(n) - 1 -> ByteValues]

FlashTyped ==
  /\ flash \in [data : Memory(FlashPages),
                mode : {"idle", "erase", "write", "read", "status"},
                status : {"none", "writing", "erasing", "ready", "reading"},
                offset : Nat, rdram_pointer : Nat]
  /\ fram \in Memory(FlashBuffers)
  /\ fpages \in [page : [PageNumbers -> PageData], loaded : PageData]

\* How far a job has come, and what the chip has to know for the rest of it.
Erasing(p) ==
  \/ fjob = <<Cmd("SetErase", p), Cmd("Erase", 0), Cmd("Execute", <<"blank", p>>)>>
  \/ fjob = <<Cmd("Erase", 0), Cmd("Execute", <<"blank", p>>)>> /\ flash.offset = PageStart(p)
  \/ fjob = <<Cmd("Execute", <<"blank", p>>)>> /\ flash.offset = PageStart(p) /\ flash.mode = "erase"

Loaded(b) ==
  /\ flash.mode = "write" /\ flash.rdram_pointer = PageStart(b)
  /\ fpages.loaded = BytesFrom(fram, PageStart(b), FlashPage)

Programming(p, b) ==
  \/ fjob = <<Cmd("Write", 0), Cmd("DmaRead", b), Cmd("SetWrite", p), Cmd("Execute", <<"loaded", p>>)>>
  \/ /\ fjob = <<Cmd("DmaRead", b), Cmd("SetWrite", p), Cmd("Execute", <<"loaded", p>>)>>
     /\ flash.mode = "write"
  \/ fjob = <<Cmd("SetWrite", p), Cmd("Execute", <<"loaded", p>>)>> /\ Loaded(b)
  \/ fjob = <<Cmd("Execute", <<"loaded", p>>)>> /\ flash.offset = PageStart(p) /\ Loaded(b)

Reading(p, b) ==
  \/ fjob = <<Cmd("Read", 0), Cmd("DmaWrite", <<p, b>>)>>
  \/ fjob = <<Cmd("DmaWrite", <<p, b>>)>> /\ flash.mode = "read"

Asking(b) ==
  \/ fjob = <<Cmd("Status", 0), Cmd("DmaStatus", b)>>
  \/ fjob = <<Cmd("DmaStatus", b)>> /\ flash.mode = "status" /\ flash.status = "ready"

AtWork ==
  \/ \E p \in PageNumbers : Erasing(p)
  \/ \E p \in PageNumbers, b \in BufferNumbers : Programming(p, b) \/ Reading(p, b)
  \/ \E b \in BufferNumbers : Asking(b)

FlashInv == FlashTyped /\ FlashRight /\ (fjob = <<>> \/ AtWork)

\* A page is inside its memory, and an even number of bytes from its start.
LEMMA PageInside ==
  ASSUME NEW n \in Nat, NEW p \in 0 .. n - 1
  PROVE  /\ PageStart(p) \in Nat /\ PageStart(n) \in Nat
         /\ PageStart(p) + FlashPage <= PageStart(n)
         /\ (PageStart(p) \div 2) * 2 = PageStart(p)
<1>1. FlashPage \in Nat \ {0} /\ FlashPage % 2 = 0
  BY FlashAssumption
<1>2. PICK h \in Nat : FlashPage = 2 * h
  <2>1. FlashPage \div 2 \in Nat /\ FlashPage = 2 * (FlashPage \div 2)
    BY <1>1
  <2> QED BY <2>1
<1>3. p * FlashPage \in Nat /\ n * FlashPage \in Nat
  BY <1>1
<1>4. p * FlashPage + FlashPage <= n * FlashPage
  <2>1. PICK r \in Nat : n = p + 1 + r
    <3>1. n - p - 1 \in Nat /\ n = p + 1 + (n - p - 1)
      OBVIOUS
    <3> QED BY <3>1
  <2>2. (p + 1 + r) * FlashPage = p * FlashPage + FlashPage + r * FlashPage /\ r * FlashPage \in Nat
    BY <1>1
  <2>3. n * FlashPage = (p + 1 + r) * FlashPage
    BY <2>1, Zenon
  <2> DEFINE x == p * FlashPage
             y == r * FlashPage
             z == n * FlashPage
  <2>4. x \in Nat /\ y \in Nat /\ z = x + FlashPage + y
    BY <1>3, <2>2, <2>3
  <2> HIDE DEF x, y, z
  <2>5. x + FlashPage <= z
    BY <1>1, <2>4
  <2> QED BY <2>5 DEF x, z
<1>5. ((p * FlashPage) \div 2) * 2 = p * FlashPage
  <2> DEFINE w == p * h
  <2>1. p * FlashPage = 2 * w /\ w \in Nat
    BY <1>2
  <2> HIDE DEF w
  <2>2. (2 * w) \div 2 = w
    BY <2>1
  <2> QED BY <2>1, <2>2
<1> QED BY <1>3, <1>4, <1>5 DEF PageStart

\* The bytes of a page.
LEMMA PageCut ==
  ASSUME NEW n \in Nat, NEW f \in Memory(n), NEW p \in 0 .. n - 1
  PROVE  /\ BytesFrom(f, PageStart(p), FlashPage) \in PageData
         /\ \A k \in 0 .. FlashPage - 1 :
              /\ PageStart(p) + k \in 0 .. PageStart(n) - 1
              /\ BytesFrom(f, PageStart(p), FlashPage)[k] = f[PageStart(p) + k]
<1> DEFINE s == PageStart(p)
           z == PageStart(n)
<1>1. s \in Nat /\ z \in Nat /\ s + FlashPage <= z /\ FlashPage \in Nat
  BY PageInside, FlashAssumption
<1>2. f \in [0 .. z - 1 -> ByteValues]
  BY DEF Memory
<1> HIDE DEF s, z
<1>3. \A k \in 0 .. FlashPage - 1 : s + k \in 0 .. z - 1
  BY <1>1
<1> QED BY <1>2, <1>3 DEF BytesFrom, PageData, s, z

\* Writing one page leaves the others.
LEMMA PagePut ==
  ASSUME NEW n \in Nat, NEW f \in Memory(n), NEW p \in 0 .. n - 1, NEW d \in PageData
  PROVE  /\ Overwritten(f, PageStart(p), d) \in Memory(n)
         /\ BytesFrom(Overwritten(f, PageStart(p), d), PageStart(p), FlashPage) = d
         /\ \A q \in 0 .. n - 1 : q # p =>
              BytesFrom(Overwritten(f, PageStart(p), d), PageStart(q), FlashPage)
                = BytesFrom(f, PageStart(q), FlashPage)
<1> DEFINE s == PageStart(p)
           z == PageStart(n)
           g == Overwritten(f, s, d)
<1>1. s \in Nat /\ z \in Nat /\ FlashPage \in Nat
  BY PageInside, FlashAssumption
<1>2. f \in [0 .. z - 1 -> ByteValues] /\ d \in [0 .. FlashPage - 1 -> ByteValues]
  BY DEF Memory, PageData
<1> HIDE DEF s, z
<1>3. /\ g \in [0 .. z - 1 -> ByteValues]
      /\ \A k \in 0 .. z - 1 : g[k] = IF k - s \in 0 .. FlashPage - 1 THEN d[k - s] ELSE f[k]
  BY <1>2 DEF Overwritten
<1>4. g \in Memory(n)
  BY <1>3 DEF Memory, z
<1> HIDE DEF g
<1>5. BytesFrom(g, s, FlashPage) = d
  <2>1. \A k \in 0 .. FlashPage - 1 : s + k \in 0 .. z - 1
    BY PageCut DEF s, z
  <2>2. \A k \in 0 .. FlashPage - 1 : (s + k) - s = k
    BY <1>1
  <2>3. \A k \in 0 .. FlashPage - 1 : g[s + k] = d[k]
    BY <1>3, <2>1, <2>2
  <2> QED BY <1>2, <2>3 DEF BytesFrom
<1>6. ASSUME NEW q \in 0 .. n - 1, q # p
      PROVE  BytesFrom(g, PageStart(q), FlashPage) = BytesFrom(f, PageStart(q), FlashPage)
  <2> DEFINE t == PageStart(q)
  <2>1. t \in Nat /\ (s + FlashPage <= t \/ t + FlashPage <= s)
    <3>1. CASE p < q
      <4>1. p \in 0 .. q - 1 /\ q \in Nat
        BY <3>1
      <4> QED BY <4>1, PageInside DEF s
    <3>2. CASE q < p
      <4>1. q \in 0 .. p - 1 /\ p \in Nat
        BY <3>2
      <4> QED BY <4>1, PageInside DEF s
    <3> QED BY <1>6, <3>1, <3>2
  <2>2. \A k \in 0 .. FlashPage - 1 : t + k \in 0 .. z - 1
    BY PageCut DEF z
  <2> HIDE DEF t
  <2>3. \A k \in 0 .. FlashPage - 1 : (t + k) - s \notin 0 .. FlashPage - 1
    BY <1>1, <2>1
  <2>4. \A k \in 0 .. FlashPage - 1 : g[t + k] = f[t + k]
    BY <1>3, <2>2, <2>3
  <2>5. BytesFrom(g, t, FlashPage) = BytesFrom(f, t, FlashPage)
    BY <2>4 DEF BytesFrom
  <2> QED BY <2>5 DEF t
<1> QED BY <1>4, <1>5, <1>6 DEF g, s

\* The first command of a job, and the rest.
LEMMA JobParts ==
  ASSUME NEW a, NEW b, NEW c, NEW d
  PROVE  /\ <<a>> # <<>> /\ Head(<<a>>) = a /\ Tail(<<a>>) = <<>>
         /\ <<a, b>> # <<>> /\ Head(<<a, b>>) = a /\ Tail(<<a, b>>) = <<b>>
         /\ <<a, b, c>> # <<>> /\ Head(<<a, b, c>>) = a /\ Tail(<<a, b, c>>) = <<b, c>>
         /\ <<a, b, c, d>> # <<>> /\ Head(<<a, b, c, d>>) = a
         /\ Tail(<<a, b, c, d>>) = <<b, c, d>>
OBVIOUS

\* What a command that leaves the data alone keeps: the pages, and the answers.
LEMMA DataKept ==
  ASSUME FlashInv, FlashTyped', flash'.data = flash.data, fpages'.page = fpages.page,
         fgot'.answer = fgot'.right
  PROVE  FlashRight'
BY DEF FlashInv, FlashRight, FlashHolds, FlashAnswers

\* A command to the chip that does not touch its data.
Plain(c) ==
  /\ c.op \in {"SetErase", "SetWrite", "Erase", "Write", "Status", "Read"}
  /\ c.op \in {"SetErase", "SetWrite"} => c.arg \in PageNumbers

\* It takes one more step of the job.
LEMMA CommandKept ==
  ASSUME FlashInv, NEW c, Plain(c),
         fjob # <<>>, Head(fjob) = c, FlashCommand \/ FlashDma
  PROVE  /\ FlashTyped' /\ FlashRight'
         /\ flash' = write_flashram(flash, c) /\ fjob' = Tail(fjob)
         /\ UNCHANGED <<fram, fpages>>
<1>1. FlashTyped /\ FlashRight
  BY DEF FlashInv
<1>2. /\ flash' = write_flashram(flash, c) /\ fjob' = Tail(fjob)
      /\ UNCHANGED <<fram, fpages, fgot>>
  BY DEF Plain, FlashCommand, FlashDma
<1>3. FlashTyped' /\ flash'.data = flash.data
  <2>1. c.op \in {"SetErase", "SetWrite"} => PageStart(c.arg) \in Nat
    BY PageInside, FlashAssumption DEF Plain, PageNumbers
  <2> QED BY <1>1, <1>2, <2>1 DEF Plain, FlashTyped, write_flashram
<1>4. FlashRight'
  BY <1>1, <1>2, <1>3, DataKept DEF FlashRight, FlashAnswers
<1> QED BY <1>2, <1>3, <1>4

\* The execute command: the page of the job gets what the guest means to put there.
LEMMA ExecuteKept ==
  ASSUME FlashInv, NEW p \in PageNumbers, NEW what,
         fjob = <<Cmd("Execute", <<what, p>>)>>, flash.offset = PageStart(p),
         Executed(flash) \in PageData,
         Executed(flash) = IF what = "blank" THEN [k \in 0 .. FlashPage - 1 |-> Blank] ELSE fpages.loaded,
         FlashCommand \/ FlashDma
  PROVE  FlashInv'
<1> DEFINE d == Executed(flash)
           c == Cmd("Execute", <<what, p>>)
<1>1. FlashTyped /\ FlashRight
  BY DEF FlashInv
<1>2. c.op = "Execute" /\ c.arg[1] = what /\ c.arg[2] = p
  BY DEF Cmd
<1>3. fjob # <<>> /\ Head(fjob) = c /\ Tail(fjob) = <<>>
  BY JobParts
<1>4. /\ flash' = write_flashram(flash, c) /\ fjob' = <<>> /\ UNCHANGED <<fram, fgot>>
      /\ fpages' = [fpages EXCEPT !.page[p] =
                      IF what = "blank" THEN [k \in DOMAIN @ |-> Blank] ELSE fpages.loaded]
  <2> HIDE DEF c
  <2> QED BY <1>2, <1>3 DEF FlashCommand, FlashDma
<1>5. flash' = [flash EXCEPT !.data = Overwritten(@, PageStart(p), d)]
  <2> HIDE DEF c
  <2>1. write_flashram(flash, c) = [flash EXCEPT !.data = Overwritten(@, flash.offset, Executed(flash))]
    BY <1>2 DEF write_flashram
  <2> QED BY <1>4, <2>1
<1>6. fpages' = [fpages EXCEPT !.page[p] = d]
  <2>1. fpages.page[p] \in PageData
    BY <1>1 DEF FlashTyped
  <2>2. DOMAIN fpages.page[p] = 0 .. FlashPage - 1
    BY <2>1 DEF PageData
  <2> QED BY <1>4, <2>2
<1> DEFINE g == Overwritten(flash.data, PageStart(p), d)
<1> HIDE DEF d
<1>7. d \in PageData /\ flash.data \in Memory(FlashPages) /\ FlashPages \in Nat /\ p \in 0 .. FlashPages - 1
  BY <1>1, FlashAssumption DEF FlashTyped, PageNumbers, d
<1>8. /\ g \in Memory(FlashPages)
      /\ BytesFrom(g, PageStart(p), FlashPage) = d
      /\ \A q \in 0 .. FlashPages - 1 : q # p =>
           BytesFrom(g, PageStart(q), FlashPage) = BytesFrom(flash.data, PageStart(q), FlashPage)
  BY <1>7, PagePut
<1>9. flash' = [flash EXCEPT !.data = g]
  BY <1>5
<1> HIDE DEF g
<1>10. FlashTyped'
  BY <1>1, <1>4, <1>6, <1>7, <1>8, <1>9 DEF FlashTyped
<1>11. FlashHolds'
  <2>1. flash'.data = g
    BY <1>1, <1>9 DEF FlashTyped
  <2>2. fpages'.page = [fpages.page EXCEPT ![p] = d]
    BY <1>1, <1>6 DEF FlashTyped
  <2>3. fpages.page \in [PageNumbers -> PageData]
    BY <1>1 DEF FlashTyped
  <2> QED BY <1>1, <1>8, <2>1, <2>2, <2>3 DEF FlashRight, FlashHolds, PageNumbers
<1>12. FlashAnswers'
  BY <1>1, <1>4 DEF FlashRight, FlashAnswers
<1> QED BY <1>4, <1>10, <1>11, <1>12 DEF FlashInv, FlashRight

LEMMA ErasingStep ==
  ASSUME FlashInv, NEW p \in PageNumbers, Erasing(p), FlashCommand \/ FlashDma
  PROVE  FlashInv'
<1> DEFINE x == Cmd("Execute", <<"blank", p>>)
           y == Cmd("Erase", 0)
           z == Cmd("SetErase", p)
<1>0. /\ y.op = "Erase" /\ z.op = "SetErase" /\ z.arg = p /\ Plain(y) /\ Plain(z)
      /\ FlashTyped
  BY DEF Cmd, Plain, FlashInv
<1>1. CASE fjob = <<z, y, x>>
  <2> HIDE DEF x, y, z
  <2>1. fjob # <<>> /\ Head(fjob) = z /\ Tail(fjob) = <<y, x>>
    BY <1>1, JobParts
  <2>2. FlashTyped' /\ FlashRight' /\ flash' = write_flashram(flash, z) /\ fjob' = <<y, x>>
    BY <1>0, <2>1, CommandKept
  <2>3. flash'.offset = PageStart(p)
    BY <1>0, <2>2 DEF write_flashram, FlashTyped
  <2>4. Erasing(p)'
    BY <2>2, <2>3 DEF Erasing, x, y
  <2> QED BY <2>2, <2>4 DEF FlashInv, AtWork
<1>2. CASE fjob = <<y, x>> /\ flash.offset = PageStart(p)
  <2> HIDE DEF x, y, z
  <2>1. fjob # <<>> /\ Head(fjob) = y /\ Tail(fjob) = <<x>>
    BY <1>2, JobParts
  <2>2. FlashTyped' /\ FlashRight' /\ flash' = write_flashram(flash, y) /\ fjob' = <<x>>
    BY <1>0, <2>1, CommandKept
  <2>3. flash'.offset = PageStart(p) /\ flash'.mode = "erase"
    BY <1>0, <1>2, <2>2 DEF write_flashram, FlashTyped
  <2>4. Erasing(p)'
    BY <2>2, <2>3 DEF Erasing, x
  <2> QED BY <2>2, <2>4 DEF FlashInv, AtWork
<1>3. CASE fjob = <<x>> /\ flash.offset = PageStart(p) /\ flash.mode = "erase"
  <2>1. Executed(flash) = [k \in 0 .. FlashPage - 1 |-> Blank]
    BY <1>3 DEF Executed
  <2>2. Executed(flash) \in PageData
    BY <2>1 DEF PageData, ByteValues, Blank
  <2> QED BY <1>3, <2>1, <2>2, ExecuteKept
<1> QED BY <1>1, <1>2, <1>3 DEF Erasing

LEMMA ProgrammingStep ==
  ASSUME FlashInv, NEW p \in PageNumbers, NEW b \in BufferNumbers, Programming(p, b),
         FlashCommand \/ FlashDma
  PROVE  FlashInv'
<1> DEFINE w == Cmd("Write", 0)
           x == Cmd("DmaRead", b)
           y == Cmd("SetWrite", p)
           z == Cmd("Execute", <<"loaded", p>>)
<1>0. /\ w.op = "Write" /\ x.op = "DmaRead" /\ x.arg = b /\ y.op = "SetWrite" /\ y.arg = p
      /\ Plain(w) /\ Plain(y) /\ FlashTyped /\ FlashRight
  BY DEF Cmd, Plain, FlashInv
<1>1. /\ PageStart(b) \in Nat
      /\ BytesFrom(fram, PageStart(b), FlashPage) \in PageData
  BY <1>0, FlashAssumption, PageInside, PageCut DEF FlashTyped, BufferNumbers
<1>2. CASE fjob = <<w, x, y, z>>
  <2> HIDE DEF w, x, y, z
  <2>1. fjob # <<>> /\ Head(fjob) = w /\ Tail(fjob) = <<x, y, z>>
    BY <1>2, JobParts
  <2>2. FlashTyped' /\ FlashRight' /\ flash' = write_flashram(flash, w) /\ fjob' = <<x, y, z>>
    BY <1>0, <2>1, CommandKept
  <2>3. flash'.mode = "write"
    BY <1>0, <2>2 DEF write_flashram, FlashTyped
  <2>4. Programming(p, b)'
    BY <2>2, <2>3 DEF Programming, x, y, z
  <2> QED BY <2>2, <2>4 DEF FlashInv, AtWork
<1>3. CASE fjob = <<x, y, z>> /\ flash.mode = "write"
  <2> HIDE DEF w, x, y, z
  <2>1. fjob # <<>> /\ Head(fjob) = x /\ Tail(fjob) = <<y, z>>
    BY <1>3, JobParts
  <2>2. /\ fjob' = <<y, z>> /\ UNCHANGED <<fram, fgot>>
        /\ flash' = [flash EXCEPT !.rdram_pointer = PageStart(b)]
        /\ fpages' = [fpages EXCEPT !.loaded = BytesFrom(fram, PageStart(b), FlashPage)]
    BY <1>0, <1>3, <2>1 DEF FlashCommand, FlashDma, FlashDmaRead
  <2>3. FlashTyped' /\ Loaded(b)' /\ flash'.data = flash.data /\ fpages'.page = fpages.page
    BY <1>0, <1>1, <1>3, <2>2 DEF FlashTyped, Loaded
  <2>4. FlashRight'
    BY <1>0, <2>2, <2>3, DataKept DEF FlashRight, FlashAnswers
  <2>5. Programming(p, b)'
    BY <2>2, <2>3 DEF Programming, y, z
  <2> QED BY <2>3, <2>4, <2>5 DEF FlashInv, AtWork
<1>4. CASE fjob = <<y, z>> /\ Loaded(b)
  <2> HIDE DEF w, x, y, z
  <2>1. fjob # <<>> /\ Head(fjob) = y /\ Tail(fjob) = <<z>>
    BY <1>4, JobParts
  <2>2. /\ FlashTyped' /\ FlashRight' /\ flash' = write_flashram(flash, y) /\ fjob' = <<z>>
        /\ UNCHANGED <<fram, fpages>>
    BY <1>0, <2>1, CommandKept
  <2>3. flash'.offset = PageStart(p) /\ Loaded(b)'
    BY <1>0, <1>4, <2>2 DEF write_flashram, FlashTyped, Loaded
  <2>4. Programming(p, b)'
    BY <2>2, <2>3 DEF Programming, z
  <2> QED BY <2>2, <2>4 DEF FlashInv, AtWork
<1>5. CASE fjob = <<z>> /\ flash.offset = PageStart(p) /\ Loaded(b)
  <2>1. Executed(flash) = fpages.loaded /\ Executed(flash) \in PageData
    BY <1>1, <1>5 DEF Executed, Loaded
  <2> QED BY <1>5, <2>1, ExecuteKept
<1> QED BY <1>2, <1>3, <1>4, <1>5 DEF Programming

LEMMA ReadingStep ==
  ASSUME FlashInv, NEW p \in PageNumbers, NEW b \in BufferNumbers, Reading(p, b),
         FlashCommand \/ FlashDma
  PROVE  FlashInv'
<1> DEFINE w == Cmd("Read", 0)
           x == Cmd("DmaWrite", <<p, b>>)
<1>0. /\ w.op = "Read" /\ x.op = "DmaWrite" /\ x.arg[1] = p /\ x.arg[2] = b
      /\ Plain(w) /\ FlashTyped /\ FlashRight
  BY DEF Cmd, Plain, FlashInv
<1>1. CASE fjob = <<w, x>>
  <2> HIDE DEF w, x
  <2>1. fjob # <<>> /\ Head(fjob) = w /\ Tail(fjob) = <<x>>
    BY <1>1, JobParts
  <2>2. FlashTyped' /\ FlashRight' /\ flash' = write_flashram(flash, w) /\ fjob' = <<x>>
    BY <1>0, <2>1, CommandKept
  <2>3. flash'.mode = "read"
    BY <1>0, <2>2 DEF write_flashram, FlashTyped
  <2>4. Reading(p, b)'
    BY <2>2, <2>3 DEF Reading, x
  <2> QED BY <2>2, <2>4 DEF FlashInv, AtWork
<1>2. CASE fjob = <<x>> /\ flash.mode = "read"
  <2> DEFINE d == FlashDmaWrite(flash, PageStart(p) \div 2, FlashPage)
             g == Overwritten(fram, PageStart(b), d)
  <2>1. fjob # <<>> /\ Head(fjob) = x /\ Tail(fjob) = <<>>
    BY <1>2, JobParts
  <2> HIDE DEF w, x
  <2>2. /\ fjob' = <<>> /\ UNCHANGED <<flash, fpages>> /\ fram' = g
        /\ fgot' = [answer |-> BytesFrom(fram', PageStart(b), FlashPage), right |-> fpages.page[p]]
    BY <1>0, <2>1 DEF FlashCommand, FlashDma
  <2>3. d = BytesFrom(flash.data, PageStart(p), FlashPage) /\ d \in PageData
    <3>1. (PageStart(p) \div 2) * 2 = PageStart(p)
      BY FlashAssumption, PageInside DEF PageNumbers
    <3>2. d = BytesFrom(flash.data, (PageStart(p) \div 2) * 2, FlashPage)
      BY <1>2 DEF FlashDmaWrite
    <3>3. BytesFrom(flash.data, PageStart(p), FlashPage) \in PageData
      BY <1>0, FlashAssumption, PageCut DEF FlashTyped, PageNumbers
    <3> QED BY <3>1, <3>2, <3>3
  <2> HIDE DEF d
  <2>4. g \in Memory(FlashBuffers) /\ BytesFrom(g, PageStart(b), FlashPage) = d
    BY <1>0, <2>3, FlashAssumption, PagePut DEF FlashTyped, BufferNumbers
  <2> HIDE DEF g
  <2>5. FlashTyped'
    BY <1>0, <2>2, <2>4 DEF FlashTyped
  <2>6. d = fpages.page[p]
    BY <1>0, <2>3 DEF FlashRight, FlashHolds
  <2>7. FlashRight'
    BY <1>0, <2>2, <2>4, <2>6 DEF FlashRight, FlashHolds, FlashAnswers
  <2> QED BY <2>2, <2>5, <2>7 DEF FlashInv
<1> QED BY <1>1, <1>2 DEF Reading

LEMMA AskingStep ==
  ASSUME FlashInv, NEW b \in BufferNumbers, Asking(b), FlashCommand \/ FlashDma
  PROVE  FlashInv'
<1> DEFINE w == Cmd("Status", 0)
           x == Cmd("DmaStatus", b)
<1>0. w.op = "Status" /\ x.op = "DmaStatus" /\ Plain(w) /\ FlashTyped /\ FlashRight
  BY DEF Cmd, Plain, FlashInv
<1>1. CASE fjob = <<w, x>>
  <2> HIDE DEF w, x
  <2>1. fjob # <<>> /\ Head(fjob) = w /\ Tail(fjob) = <<x>>
    BY <1>1, JobParts
  <2>2. FlashTyped' /\ FlashRight' /\ flash' = write_flashram(flash, w) /\ fjob' = <<x>>
    BY <1>0, <2>1, CommandKept
  <2>3. flash'.mode = "status" /\ flash'.status = "ready"
    BY <1>0, <2>2 DEF write_flashram, FlashTyped
  <2>4. Asking(b)'
    BY <2>2, <2>3 DEF Asking, x
  <2> QED BY <2>2, <2>4 DEF FlashInv, AtWork
<1>2. CASE fjob = <<x>> /\ flash.mode = "status" /\ flash.status = "ready"
  <2>1. fjob # <<>> /\ Head(fjob) = x /\ Tail(fjob) = <<>>
    BY <1>2, JobParts
  <2> HIDE DEF w, x
  <2>2. /\ fjob' = <<>> /\ UNCHANGED <<flash, fpages, fram>>
        /\ fgot' = [answer |-> "ready", right |-> "ready"]
    BY <1>0, <1>2, <2>1 DEF FlashCommand, FlashDma, FlashDmaWrite
  <2>3. FlashTyped' /\ FlashRight'
    BY <1>0, <2>2 DEF FlashTyped, FlashRight, FlashHolds, FlashAnswers
  <2> QED BY <2>2, <2>3 DEF FlashInv
<1> QED BY <1>1, <1>2 DEF Asking

\* The guest fills a buffer only between two jobs.
LEMMA FillStep ==
  ASSUME FlashInv, ~FlashReuses, FlashFill
  PROVE  FlashInv'
<1>1. FlashTyped /\ FlashRight
  BY DEF FlashInv
<1>2. PICK b \in BufferNumbers, x \in FlashBytes :
        fram' = Overwritten(fram, PageStart(b), [k \in 0 .. FlashPage - 1 |-> (x + k) % 256])
  BY DEF FlashFill
<1> DEFINE d == [k \in 0 .. FlashPage - 1 |-> (x + k) % 256]
<1>3. d \in PageData
  <2>1. x \in Nat
    BY FlashAssumption
  <2>2. \A k \in 0 .. FlashPage - 1 : (x + k) % 256 \in ByteValues
    BY <2>1 DEF ByteValues
  <2> QED BY <2>2 DEF PageData
<1> HIDE DEF d
<1>4. fram' \in Memory(FlashBuffers)
  <2>1. Overwritten(fram, PageStart(b), d) \in Memory(FlashBuffers)
    BY <1>1, <1>3, FlashAssumption, PagePut DEF FlashTyped, BufferNumbers
  <2> QED BY <1>2, <2>1 DEF d
<1>5. /\ fjob' = <<>> /\ UNCHANGED <<flash, fpages>>
      /\ fgot' = [answer |-> "none", right |-> "none"]
  BY DEF FlashFill
<1> QED BY <1>1, <1>4, <1>5 DEF FlashInv, FlashTyped, FlashRight, FlashHolds, FlashAnswers

LEMMA StartStep ==
  ASSUME FlashInv, FlashStart
  PROVE  FlashInv'
<1>1. /\ fjob' \in FlashJobs /\ UNCHANGED <<flash, fram, fpages>>
      /\ fgot' = [answer |-> "none", right |-> "none"]
  BY DEF FlashStart
<1>2. FlashTyped' /\ FlashRight'
  BY <1>1 DEF FlashInv, FlashTyped, FlashRight, FlashHolds, FlashAnswers
<1>3. AtWork'
  <2>1. CASE \E p \in PageNumbers : fjob' = Erase(p)
    <3>1. PICK p \in PageNumbers : fjob' = Erase(p)
      BY <2>1
    <3>2. Erasing(p)'
      BY <3>1, Zenon DEF Erasing, Erase
    <3> QED BY <3>2 DEF AtWork
  <2>2. CASE \E p \in PageNumbers, b \in BufferNumbers : fjob' = Program(p, b)
    <3>1. PICK p \in PageNumbers, b \in BufferNumbers : fjob' = Program(p, b)
      BY <2>2
    <3>2. Programming(p, b)'
      BY <3>1, Zenon DEF Programming, Program
    <3> QED BY <3>2 DEF AtWork
  <2>3. CASE \E p \in PageNumbers, b \in BufferNumbers : fjob' = ReadPage(p, b)
    <3>1. PICK p \in PageNumbers, b \in BufferNumbers : fjob' = ReadPage(p, b)
      BY <2>3
    <3>2. Reading(p, b)'
      BY <3>1, Zenon DEF Reading, ReadPage
    <3> QED BY <3>2 DEF AtWork
  <2>4. CASE \E b \in BufferNumbers : fjob' = ReadStatus(b)
    <3>1. PICK b \in BufferNumbers : fjob' = ReadStatus(b)
      BY <2>4
    <3>2. Asking(b)'
      BY <3>1, Zenon DEF Asking, ReadStatus
    <3> QED BY <3>2 DEF AtWork
  <2> QED BY <1>1, <2>1, <2>2, <2>3, <2>4 DEF FlashJobs
<1> QED BY <1>2, <1>3 DEF FlashInv

LEMMA FlashStep ==
  ASSUME FlashInv, ~FlashReuses, [FlashNext]_flashVars
  PROVE  FlashInv'
<1>1. CASE FlashCommand \/ FlashDma
  <2>1. fjob # <<>>
    BY <1>1 DEF FlashCommand, FlashDma
  <2>2. AtWork
    BY <2>1 DEF FlashInv
  <2> QED BY <1>1, <2>2, ErasingStep, ProgrammingStep, ReadingStep, AskingStep DEF AtWork
<1>2. CASE FlashStart
  BY <1>2, StartStep
<1>3. CASE FlashDrop
  BY <1>3 DEF FlashDrop, FlashInv, FlashTyped, FlashRight, FlashHolds, FlashAnswers
<1>4. CASE FlashFill
  BY <1>4, FillStep
<1>5. CASE UNCHANGED flashVars
  BY <1>5 DEF flashVars, FlashInv, FlashTyped, FlashRight, FlashHolds, FlashAnswers, AtWork,
              Erasing, Programming, Loaded, Reading, Asking
<1> QED BY <1>1, <1>2, <1>3, <1>4, <1>5 DEF FlashNext

LEMMA FlashFirst == FlashInit => FlashInv
<1> SUFFICES ASSUME FlashInit PROVE FlashInv
  OBVIOUS
<1> DEFINE z == PageStart(FlashPages)
           y == PageStart(FlashBuffers)
<1>1. z \in Nat /\ y \in Nat
  BY FlashAssumption DEF PageStart
<1> HIDE DEF z, y
<1>2. /\ [k \in 0 .. z - 1 |-> Blank] \in [0 .. z - 1 -> ByteValues]
      /\ [k \in 0 .. y - 1 |-> 0] \in [0 .. y - 1 -> ByteValues]
      /\ [k \in 0 .. FlashPage - 1 |-> Blank] \in PageData
      /\ [k \in 0 .. FlashPage - 1 |-> 0] \in PageData
  BY <1>1 DEF ByteValues, Blank, PageData
<1>3. flash.data = [k \in 0 .. z - 1 |-> Blank] /\ flash.data \in Memory(FlashPages)
  BY <1>2 DEF FlashInit, Memory, z
<1>4. FlashTyped
  BY <1>2 DEF FlashInit, FlashTyped, Memory, z, y
<1>5. ASSUME NEW p \in PageNumbers
      PROVE  BytesFrom(flash.data, PageStart(p), FlashPage) = fpages.page[p]
  <2>1. \A k \in 0 .. FlashPage - 1 : PageStart(p) + k \in 0 .. z - 1
    BY <1>3, FlashAssumption, PageCut DEF PageNumbers, z
  <2>2. \A k \in 0 .. FlashPage - 1 : flash.data[PageStart(p) + k] = Blank
    BY <1>3, <2>1
  <2>3. fpages.page[p] = [k \in 0 .. FlashPage - 1 |-> Blank]
    BY DEF FlashInit
  <2> QED BY <2>2, <2>3 DEF BytesFrom
<1>6. FlashAnswers /\ fjob = <<>>
  BY DEF FlashInit, FlashAnswers
<1> QED BY <1>4, <1>5, <1>6 DEF FlashInv, FlashRight, FlashHolds

\* FlashRight: whatever order the guest erases, programs and reads pages in, and
\* wherever a job is dropped, every page holds what was last put there and every
\* answer is the page or the status that was asked for, of chips, pages and RDRAM of
\* any size. The page is copied when the execute command comes, so the guest must not
\* have refilled the buffer by then: without that FlashHolds fails.
THEOREM FlashAlwaysRight ==
  ASSUME ~FlashReuses
  PROVE  FlashSpec => []FlashRight
<1>1. FlashInit => FlashInv
  BY FlashFirst
<1>2. FlashInv /\ [FlashNext]_flashVars => FlashInv'
  BY FlashStep
<1>3. FlashInv => FlashRight
  BY DEF FlashInv
<1> QED BY <1>1, <1>2, <1>3, PTL DEF FlashSpec
-----------------------------------------------------------------------------
(* The copy from cartridge ROM, a block a step (PiRomDma). *)

\* Bytes of the first block when it does not end the transfer.
FullFirst(d) == BlockSize - Misalign(d)

\* Offsets of it that the second hardware bug leaves unwritten, and those that are
\* written when the first n bytes are done.
Covered(n) == {i \in 0 .. n - 1 : i \notin Hole}

\* While bytes are left both addresses have moved by the same distance, which is
\* what is written but for the hole, and the rest is even and makes up the length.
RomInv ==
  /\ wanted \in [dram : RomDrams, cart : Carts, length : RomLengths]
  /\ length \in Nat
  /\ first => /\ dram = wanted.dram /\ cart = wanted.cart /\ length = wanted.length
              /\ DOMAIN ram = {}
  /\ ~first /\ length > 0 =>
       /\ dram \in Nat /\ dram % 8 = 0 /\ dram >= wanted.dram + FullFirst(wanted.dram)
       /\ cart = wanted.cart + (dram - wanted.dram)
       /\ length % 2 = 0 /\ wanted.length > FullFirst(wanted.dram)
       /\ (dram - wanted.dram) + length = RoundUp(wanted.length, 2)
       /\ DOMAIN ram = {wanted.dram + i : i \in Covered(dram - wanted.dram)}
  /\ RomCopyRight

LEMMA RoundedParts ==
  ASSUME NEW n \in Nat
  PROVE  /\ RoundUp(n, 2) \in Nat /\ RoundUp(n, 2) % 2 = 0
         /\ RoundUp(n, 2) >= n /\ RoundUp(n, 2) <= n + 1
         /\ n % 2 = 0 => RoundUp(n, 2) = n
         /\ RoundUp(n, 8) \in Nat /\ RoundUp(n, 8) % 8 = 0
         /\ RoundUp(n, 8) >= n /\ RoundUp(n, 8) <= n + 7
BY DEF RoundUp

LEMMA RoundedOnly ==
  ASSUME NEW n \in Nat, NEW k \in Nat, k % 8 = 0, k >= n, k <= n + 7
  PROVE  RoundUp(n, 8) = k
BY DEF RoundUp

LEMMA Blocks == BlockSize \in Nat /\ BlockSize >= 16 /\ BlockSize % 8 = 0
BY RomTransferAssumption DEF Align

LEMMA Misaligned ==
  ASSUME NEW d \in Nat, d % 2 = 0
  PROVE  /\ Misalign(d) \in {0, 2, 4, 6} /\ (d - Misalign(d)) % 8 = 0
         /\ FullFirst(d) = BlockSize - Misalign(d)
         /\ FullFirst(d) \in Nat /\ FullFirst(d) % 2 = 0 /\ FullFirst(d) >= 10
         /\ (d + FullFirst(d)) % 8 = 0
<1>1. Misalign(d) \in {0, 2, 4, 6} /\ (d - Misalign(d)) % 8 = 0
  BY DEF Misalign, Align
<1> DEFINE m == Misalign(d)
<1> HIDE DEF m
<1>2. m \in {0, 2, 4, 6} /\ (d - m) % 8 = 0 /\ FullFirst(d) = BlockSize - m
  BY <1>1 DEF m, FullFirst
<1>3. FullFirst(d) \in Nat /\ FullFirst(d) % 2 = 0 /\ FullFirst(d) >= 10
  BY <1>2, Blocks
<1>4. (d + FullFirst(d)) % 8 = 0
  BY <1>2, Blocks
<1> QED BY <1>1, <1>2, <1>3, <1>4 DEF m

\* What the first block does when it is not the last one.
LEMMA FirstOfMany ==
  ASSUME NEW d \in Nat, d % 2 = 0, NEW n \in Nat, n > FullFirst(d)
  PROVE  /\ FirstBlock(d, n) = FullFirst(d)
         /\ FirstWritten(d, n) = FullFirst(d) - Misalign(d)
         /\ RoundUp(d + FirstWritten(d, n), 8) = d + FullFirst(d)
         /\ RoundUp(FullFirst(d), 2) = FullFirst(d)
         /\ FullFirst(d) + RoundUp(n - FullFirst(d), 2) = RoundUp(n, 2)
         /\ RoundUp(n - FullFirst(d), 2) \in Nat \ {0}
         /\ RoundUp(n - FullFirst(d), 2) % 2 = 0
<1> DEFINE m == Misalign(d)  f == FullFirst(d)
<1> HIDE DEF m, f
<1>1. /\ m \in {0, 2, 4, 6} /\ f = BlockSize - m
      /\ f \in Nat /\ f % 2 = 0 /\ f >= 10 /\ (d + f) % 8 = 0 /\ n > f
  BY Misaligned DEF m, f
<1>2. FirstBlock(d, n) = f
  BY <1>1, Blocks DEF FirstBlock, Least, m
<1>3. FirstWritten(d, n) = f - m
  BY <1>1, <1>2, Blocks DEF FirstWritten, m
<1>4. RoundUp(d + FirstWritten(d, n), 8) = d + f
  BY <1>1, <1>3, RoundedOnly
<1>5. RoundUp(f, 2) = f
  BY <1>1, RoundedParts
<1>6. /\ RoundUp(n - f, 2) \in Nat \ {0} /\ RoundUp(n - f, 2) % 2 = 0
  <2>1. n - f \in Nat /\ n - f > 0
    BY <1>1
  <2> QED BY <2>1, RoundedParts
<1>7. f + RoundUp(n - f, 2) = RoundUp(n, 2)
  BY <1>1 DEF RoundUp
<1> QED BY <1>2, <1>3, <1>4, <1>5, <1>6, <1>7 DEF m, f

\* What it does when it is.
LEMMA FirstOfOne ==
  ASSUME NEW d \in Nat, d % 2 = 0, NEW n \in Nat \ {0}, n <= FullFirst(d)
  PROVE  /\ FirstBlock(d, n) = n
         /\ FirstWritten(d, n) \in Nat /\ FirstWritten(d, n) <= RoundUp(n, 2)
         /\ RoundUp(n - n, 2) = 0
<1> DEFINE m == Misalign(d)  f == FullFirst(d)
<1> HIDE DEF m, f
<1>1. /\ m \in {0, 2, 4, 6} /\ f = BlockSize - m
      /\ f \in Nat /\ f % 2 = 0 /\ f >= 10 /\ (d + f) % 8 = 0 /\ n <= f
  BY Misaligned DEF m, f
<1>2. FirstBlock(d, n) = n
  BY <1>1, Blocks DEF FirstBlock, Least, m
<1>3. RoundUp(n, 2) \in Nat /\ RoundUp(n, 2) >= n /\ (n % 2 = 1 => RoundUp(n, 2) = n + 1)
  BY DEF RoundUp
<1>4. n = BlockSize - m - 1 => n % 2 = 1
  BY <1>1, Blocks
<1>5. FirstWritten(d, n) \in Nat /\ FirstWritten(d, n) <= RoundUp(n, 2)
  BY <1>1, <1>2, <1>3, <1>4, Blocks DEF FirstWritten, m
<1> QED BY <1>2, <1>5 DEF RoundUp

LEMMA RomRequest ==
  ASSUME RomInv
  PROVE  /\ wanted.dram \in Nat /\ wanted.dram % 2 = 0
         /\ wanted.cart \in Nat /\ wanted.cart % 2 = 0
         /\ wanted.length \in Nat \ {0}
BY RomDmaAssumption DEF RomInv

\* The addresses from d on, seen as distances from it.
LEMMA Distances ==
  ASSUME NEW d \in Nat, NEW n \in Nat
  PROVE  d .. d + n - 1 = {d + i : i \in 0 .. n - 1}
<1>1. ASSUME NEW a \in d .. d + n - 1 PROVE a \in {d + i : i \in 0 .. n - 1}
  <2>1. a - d \in 0 .. n - 1 /\ a = d + (a - d)
    OBVIOUS
  <2> QED BY <2>1
<1> QED BY <1>1

\* The first block, when it is not the last one.
LEMMA FullFirstBlock ==
  ASSUME RomInv, first, Block, wanted.length > FullFirst(wanted.dram)
  PROVE  RomInv'
<1> DEFINE D == wanted.dram  C == wanted.cart  N == wanted.length
           f == FullFirst(D)  put == FirstWritten(D, N)  left == RoundUp(N - f, 2)
<1>n. D \in Nat /\ D % 2 = 0 /\ C \in Nat /\ N \in Nat
  BY RomRequest
<1>f. /\ f \in Nat /\ f >= 10 /\ f % 2 = 0 /\ (D + f) % 8 = 0
      /\ put = f - Misalign(D) /\ Misalign(D) \in {0, 2, 4, 6} /\ f = BlockSize - Misalign(D)
      /\ RoundUp(D + put, 8) = D + f /\ RoundUp(f, 2) = f
      /\ f + left = RoundUp(N, 2) /\ left \in Nat \ {0} /\ left % 2 = 0
      /\ FirstBlock(D, N) = f
  BY <1>n, Misaligned, FirstOfMany
<1>1. /\ dram = D /\ cart = C /\ length = N /\ DOMAIN ram = {}
      /\ wanted' = wanted /\ first' = FALSE
  BY DEF RomInv, Block
<1>p. put \in Nat /\ N \in Nat /\ f \in Nat /\ N > f
  BY <1>n, <1>f
<1>h. Hole = {i \in 0 .. f - 1 : i >= put}
  <2>1. f # BlockSize - Misalign(D) - 1
    BY <1>f, Blocks
  <2>2. Hole = {i \in 0 .. f - 1 : i >= f - Misalign(D)}
    BY <2>1, <1>f DEF Hole
  <2> QED BY <2>2, <1>f
<1>g. Hole' = Hole
  BY <1>1 DEF Hole
<1>a. D' = D /\ C' = C /\ N' = N /\ f' = f
  BY <1>1
<1>i. wanted' \in [dram : RomDrams, cart : Carts, length : RomLengths]
  BY <1>1 DEF RomInv
<1>2. /\ length' = left /\ cart' = C + f /\ dram' = D + f
      /\ ram' = [a \in D .. D + put - 1 |-> RomByte(C + (a - D))]
  <2>1. /\ length' = LengthLeft(f) /\ cart' = CartNext(f)
        /\ dram' = RoundUp(D + Written(f), Align)
        /\ ram' = [a \in DOMAIN ram \cup D .. D + Written(f) - 1 |->
                     IF a >= D THEN RomByte(C + (a - D)) ELSE ram[a]]
    BY <1>1, <1>f DEF Block
  <2>2. Written(f) = put
    BY <1>1 DEF Written
  <2> HIDE DEF D, C, N, f, put
  <2>3. \A a \in D .. D + put - 1 : a >= D
    BY <1>n, <1>f
  <2>4. ram' = [a \in D .. D + put - 1 |-> RomByte(C + (a - D))]
    BY <2>1, <2>2, <2>3, <1>1
  <2> QED BY <2>1, <2>2, <2>4, <1>f, <1>1 DEF LengthLeft, CartNext, Align
<1> HIDE DEF D, C, N, f, put, left
<1>k. D \in Nat /\ f \in Nat /\ dram' = D + f
  BY <1>n, <1>p, <1>2
<1>3. DOMAIN ram' = {D + i : i \in Covered(f)}
  <2>1. Covered(f) = 0 .. put - 1
    BY <1>h, <1>f DEF Covered
  <2>2. D .. D + put - 1 = {D + i : i \in 0 .. put - 1}
    BY <1>n, <1>p, Distances
  <2> QED BY <1>2, <2>1, <2>2
<1>4. dram' - D = f
  BY <1>k
<1>5. Covered(f)' = Covered(f)
  BY <1>g, <1>a DEF Covered
<1>6. RomCopyRight'
  <2>1. RightByte'
    BY <1>1, <1>2 DEF RightByte, D, C
  <2> QED BY <2>1, <1>2, <1>f DEF RomCopyRight, AllWritten, FinalRegisters
<1>7. /\ dram' \in Nat /\ dram' % 8 = 0 /\ dram' >= D + f /\ cart' = C + (dram' - D)
      /\ length' \in Nat /\ length' % 2 = 0 /\ N > f /\ (dram' - D) + length' = RoundUp(N, 2)
  <2>1. D + f \in Nat /\ dram' = D + f
    BY <1>k
  <2>2. dram' \in Nat /\ dram' % 8 = 0 /\ dram' >= D + f
    BY <2>1, <1>f
  <2>3. cart' = C + (dram' - D) /\ (dram' - D) + length' = RoundUp(N, 2)
    BY <1>2, <1>4, <1>f
  <2> QED BY <2>2, <2>3, <1>2, <1>f, <1>p
<1>8. Covered(dram' - D) = Covered(f)
  BY <1>4
<1>9. Covered(dram - wanted.dram)' = Covered(f)
  BY <1>g, <1>4, <1>a DEF Covered, D
<1>10. DOMAIN ram' = {D + i : i \in Covered(dram - wanted.dram)'}
  BY <1>3, <1>9
<1>11. ~ first' /\ length' \in Nat
  BY <1>1, <1>7
<1> USE DEF D, C, N
<1>12. /\ dram' \in Nat /\ dram' % 8 = 0
       /\ dram' >= wanted'.dram + FullFirst(wanted.dram)'
       /\ cart' = wanted'.cart + (dram' - wanted'.dram)
       /\ length' % 2 = 0 /\ wanted'.length > FullFirst(wanted.dram)'
       /\ (dram' - wanted'.dram) + length' = RoundUp(wanted'.length, 2)
  BY <1>7, <1>a, <1>1 DEF f
<1> HIDE DEF f
<1> QED BY <1>i, <1>6, <1>10, <1>11, <1>12, <1>a DEF RomInv

\* The first block, when it is the whole transfer.
LEMMA OnlyBlock ==
  ASSUME RomInv, first, Block, wanted.length <= FullFirst(wanted.dram)
  PROVE  RomInv'
<1> DEFINE D == wanted.dram  C == wanted.cart  N == wanted.length
           m == Misalign(D)  f == FullFirst(D)  put == FirstWritten(D, N)
           e == IF N = BlockSize - m - 1 THEN N + 1 ELSE N
<1>n. D \in Nat /\ D % 2 = 0 /\ C \in Nat /\ N \in Nat \ {0} /\ N <= f
  BY RomRequest
<1>f. /\ m \in {0, 2, 4, 6} /\ FirstBlock(D, N) = N /\ RoundUp(N - N, 2) = 0
      /\ put \in Nat /\ put <= RoundUp(N, 2) /\ RoundUp(N, 2) \in Nat
  BY <1>n, Misaligned, FirstOfOne, RoundedParts
<1>1. /\ dram = D /\ cart = C /\ length = N /\ DOMAIN ram = {}
      /\ wanted' = wanted /\ first' = FALSE
  BY DEF RomInv, Block
<1>2. /\ length' = 0 /\ cart' = C + RoundUp(N, 2) /\ dram' = RoundUp(D + put, Align)
      /\ DOMAIN ram' = D .. D + put - 1
      /\ \A a \in D .. D + put - 1 : ram'[a] = RomByte(C + (a - D))
  <2>1. /\ length' = LengthLeft(N) /\ cart' = CartNext(N)
        /\ dram' = RoundUp(D + Written(N), Align)
        /\ ram' = [a \in DOMAIN ram \cup D .. D + Written(N) - 1 |->
                     IF a >= D THEN RomByte(C + (a - D)) ELSE ram[a]]
    BY <1>1, <1>f DEF Block
  <2>2. Written(N) = put
    BY <1>1 DEF Written
  <2> HIDE DEF D, C, N, put
  <2>3. \A a \in D .. D + put - 1 : a >= D
    BY <1>n, <1>f
  <2>4. DOMAIN ram' = D .. D + put - 1 /\ \A a \in D .. D + put - 1 : ram'[a] = RomByte(C + (a - D))
    BY <2>1, <2>2, <2>3, <1>1
  <2> QED BY <2>1, <2>2, <2>4, <1>f, <1>1 DEF LengthLeft, CartNext
<1>h. Hole = {i \in 0 .. e - 1 : i >= e - m}
  BY <1>f DEF Hole
<1>p. put = IF e < m THEN 0 ELSE e - m
  BY <1>f DEF FirstWritten
<1>g. Hole' = Hole
  BY <1>1 DEF Hole
<1>3. RightByte'
  BY <1>1, <1>2 DEF RightByte
<1>4. FinalRegisters'
  BY <1>1, <1>2, <1>f DEF FinalRegisters, CartAfterRom, DramAfterRom
<1>5. wanted' \in [dram : RomDrams, cart : Carts, length : RomLengths]
  BY <1>1 DEF RomInv
<1> DEFINE at == {a - wanted'.dram : a \in DOMAIN ram'}
<1>6. at = 0 .. put - 1
  <2> HIDE DEF D, put
  <2>1. at = {a - D : a \in D .. D + put - 1}
    BY <1>1, <1>2 DEF D
  <2>2. ASSUME NEW i \in 0 .. put - 1 PROVE i \in {a - D : a \in D .. D + put - 1}
    <3>1. D + i \in D .. D + put - 1 /\ (D + i) - D = i
      BY <1>n, <1>f
    <3> QED BY <3>1
  <2>3. ASSUME NEW a \in D .. D + put - 1 PROVE a - D \in 0 .. put - 1
    BY <1>n, <1>f
  <2> HIDE DEF at
  <2> QED BY <2>1, <2>2, <2>3
<1>7. AllWritten'
  <2> HIDE DEF D, put, N, m
  <2>1. (0 .. N - 1) \ Hole \subseteq 0 .. put - 1
    BY <1>n, <1>f, <1>h, <1>p
  <2>2. (0 .. put - 1) \cap Hole = {}
    BY <1>n, <1>f, <1>h, <1>p
  <2>3. 0 .. put - 1 \subseteq 0 .. RoundUp(N, 2) - 1
    BY <1>f
  <2> HIDE DEF at
  <2>4. /\ (0 .. N - 1) \ Hole' \subseteq at /\ at \cap Hole' = {}
        /\ at \subseteq 0 .. RoundUp(N, 2) - 1
    BY <2>1, <2>2, <2>3, <1>6, <1>g
  <2> QED BY <2>4, <1>1 DEF AllWritten, at, N
<1> QED BY <1>1, <1>2, <1>3, <1>4, <1>5, <1>7 DEF RomInv, RomCopyRight

\* What a later block writes, and how far it moves the addresses.
LEMMA LaterBlock ==
  ASSUME RomInv, ~first, Block, NEW cur, cur = FirstBlock(dram, length)
  PROVE  /\ cur \in Nat \ {0} /\ cur % 2 = 0 /\ cur <= length
         /\ cur = length \/ (cur = BlockSize /\ cur < length)
         /\ wanted' = wanted /\ first' = FALSE
         /\ length' = length - cur /\ cart' = cart + cur
         /\ dram' = RoundUp(dram + cur, 8)
         /\ RightByte'
         /\ DOMAIN ram' = {wanted.dram + i : i \in Covered((dram - wanted.dram) + cur)}
<1> DEFINE D == wanted.dram  C == wanted.cart  N == wanted.length  f == FullFirst(D)
           past == dram - D
<1>n. D \in Nat /\ D % 2 = 0 /\ C \in Nat /\ N \in Nat \ {0}
  BY RomRequest
<1>1. /\ dram \in Nat /\ dram % 8 = 0 /\ dram >= D + f /\ cart = C + past
      /\ length \in Nat \ {0} /\ length % 2 = 0 /\ N > f
      /\ DOMAIN ram = {D + i : i \in Covered(past)} /\ RightByte
  BY DEF RomInv, Block, RomCopyRight
<1>f. f \in Nat /\ FirstBlock(D, N) = f /\ Misalign(D) \in {0, 2, 4, 6} /\ f = BlockSize - Misalign(D)
  BY <1>n, <1>1, Misaligned, FirstOfMany
<1>2. Misalign(dram) = 0
  BY <1>1 DEF Misalign, Align
<1>3. /\ cur \in Nat \ {0} /\ cur % 2 = 0 /\ cur <= length
      /\ cur = length \/ (cur = BlockSize /\ cur < length)
  <2>1. cur = IF length < BlockSize THEN length ELSE BlockSize
    BY <1>2, Blocks DEF FirstBlock, Least
  <2> QED BY <2>1, <1>1, Blocks
<1>4. Written(cur) = cur
  BY DEF Written
<1>5. RoundUp(cur, 2) = cur /\ RoundUp(length - cur, 2) = length - cur
  <2>1. length - cur \in Nat /\ (length - cur) % 2 = 0
    BY <1>1, <1>3
  <2> QED BY <2>1, <1>3, RoundedParts
<1>6. /\ length' = length - cur /\ cart' = cart + cur /\ dram' = RoundUp(dram + cur, 8)
      /\ wanted' = wanted /\ first' = FALSE
      /\ ram' = [a \in DOMAIN ram \cup dram .. dram + cur - 1 |->
                   IF a >= dram THEN RomByte(cart + (a - dram)) ELSE ram[a]]
  BY <1>4, <1>5 DEF Block, LengthLeft, CartNext, Align
<1> HIDE DEF D, C, N, f
<1>p. past \in Nat /\ past >= f /\ dram = D + past /\ past + cur \in Nat
  BY <1>1, <1>n, <1>f, <1>3
<1>h. Hole \subseteq 0 .. f - 1
  <2>1. f # BlockSize - Misalign(D) - 1
    BY <1>f, Blocks
  <2>2. Hole = {i \in 0 .. f - 1 : i >= f - Misalign(D)}
    BY <2>1, <1>f DEF Hole, D, N
  <2> QED BY <2>2
<1>7. Covered(past + cur) = Covered(past) \cup past .. past + cur - 1
  BY <1>p, <1>h, <1>f, <1>3 DEF Covered
<1>8. dram .. dram + cur - 1 = {D + i : i \in past .. past + cur - 1}
  <2>1. ASSUME NEW a \in dram .. dram + cur - 1
        PROVE  a \in {D + i : i \in past .. past + cur - 1}
    <3>1. a - D \in past .. past + cur - 1 /\ a = D + (a - D)
      BY <1>1, <1>3, <1>n
    <3> QED BY <3>1
  <2>2. ASSUME NEW i \in past .. past + cur - 1 PROVE D + i \in dram .. dram + cur - 1
    BY <1>p, <1>3, <1>n
  <2> QED BY <2>1, <2>2
<1>9. DOMAIN ram' = {D + i : i \in Covered(past + cur)}
  <2>1. DOMAIN ram' = DOMAIN ram \cup dram .. dram + cur - 1
    BY <1>6
  <2> QED BY <2>1, <1>1, <1>7, <1>8
<1>10. ASSUME NEW a \in DOMAIN ram' PROVE ram'[a] = RomByte(C + (a - D))
  <2>1. a \in Int
    BY <1>9, <1>n DEF Covered
  <2>2. CASE a >= dram
    <3>1. cart + (a - dram) = C + (a - D)
      BY <2>1, <1>1, <1>n
    <3> QED BY <3>1, <2>2, <1>6
  <2>3. CASE ~(a >= dram)
    <3>1. a \in DOMAIN ram
      <4>1. a \notin dram .. dram + cur - 1
        BY <2>3
      <4> QED BY <4>1, <1>6
    <3> QED BY <3>1, <2>3, <1>1, <1>6 DEF RightByte, C, D
  <2> QED BY <2>2, <2>3
<1>11. RightByte'
  BY <1>10, <1>6 DEF RightByte, C, D
<1> QED BY <1>3, <1>6, <1>9, <1>11 DEF D

LEMMA LaterKeeps ==
  ASSUME RomInv, ~first, Block
  PROVE  RomInv'
<1> DEFINE D == wanted.dram  C == wanted.cart  N == wanted.length  f == FullFirst(D)
           past == dram - D  cur == FirstBlock(dram, length)  R == RoundUp(N, 2)
<1>n. D \in Nat /\ D % 2 = 0 /\ C \in Nat /\ N \in Nat \ {0}
  BY RomRequest
<1>1. /\ dram \in Nat /\ dram % 8 = 0 /\ dram >= D + f /\ cart = C + past
      /\ length \in Nat \ {0} /\ length % 2 = 0 /\ N > f /\ past + length = R
  BY DEF RomInv, Block
<1>f. /\ f \in Nat /\ FirstBlock(D, N) = f /\ f = BlockSize - Misalign(D)
      /\ f + RoundUp(N - f, 2) = R /\ R \in Nat /\ R >= N
  BY <1>n, <1>1, Misaligned, FirstOfMany, RoundedParts
<1>2. /\ cur \in Nat \ {0} /\ cur % 2 = 0 /\ cur <= length
      /\ cur = length \/ (cur = BlockSize /\ cur < length)
      /\ wanted' = wanted /\ first' = FALSE
      /\ length' = length - cur /\ cart' = cart + cur
      /\ dram' = RoundUp(dram + cur, 8)
      /\ RightByte'
      /\ DOMAIN ram' = {D + i : i \in Covered(past + cur)}
  BY LaterBlock
<1>a. D' = D /\ C' = C /\ N' = N /\ f' = f /\ R' = R
  BY <1>2
<1>g. Hole' = Hole
  BY <1>2 DEF Hole
<1>i. wanted' \in [dram : RomDrams, cart : Carts, length : RomLengths]
  BY <1>2 DEF RomInv
<1> HIDE DEF D, C, N, f, cur, R
<1>p. past \in Nat /\ past >= f /\ dram = D + past
  BY <1>1, <1>n, <1>f
<1>3. CASE cur = length
  <2>1. length' = 0
    BY <1>1, <1>2, <1>3
  <2>2. cart' = C + R
    BY <1>1, <1>2, <1>3, <1>p, <1>n
  <2>3. dram' = RoundUp(D + R, 8)
    <3>1. dram + cur = D + R
      BY <1>1, <1>3, <1>p, <1>n
    <3> QED BY <3>1, <1>2
  <2>4. FinalRegisters'
    <3>1. cart' = CartAfterRom(wanted'.cart, wanted'.length)
      BY <2>2, <1>a DEF CartAfterRom, C, N, R
    <3>2. DramAfterRom(D, N) = RoundUp(D - Misalign(D) + BlockSize + RoundUp(N - f, 2), 8)
      BY <1>f, <1>1, <1>n DEF DramAfterRom, Align
    <3>3. D - Misalign(D) + BlockSize + RoundUp(N - f, 2) = D + R
      <4>1. Misalign(D) \in Nat /\ BlockSize \in Nat
        <5>1. Misalign(D) \in {0, 2, 4, 6}
          BY <1>n, Misaligned
        <5> QED BY <5>1, Blocks
      <4>2. RoundUp(N - f, 2) \in Nat
        <5>1. N - f \in Nat BY <1>1, <1>n, <1>f
        <5> QED BY <5>1, RoundedParts
      <4> QED BY <4>1, <4>2, <1>f, <1>n
    <3>4. dram' = DramAfterRom(wanted'.dram, wanted'.length)
      BY <3>2, <3>3, <2>3, <1>a DEF D, N
    <3> QED BY <3>1, <3>4 DEF FinalRegisters
  <2>5. AllWritten'
    <3> DEFINE at == {a - D : a \in DOMAIN ram'}
    <3>1. past + cur = R
      BY <1>1, <1>3
    <3>2. DOMAIN ram' = {D + i : i \in Covered(R)}
      BY <3>1, <1>2
    <3>3. at = Covered(R)
      <4>1. ASSUME NEW i \in Covered(R) PROVE i \in at
        <5>1. D + i \in DOMAIN ram' /\ (D + i) - D = i
          BY <3>2, <1>n DEF Covered
        <5> QED BY <5>1
      <4>2. ASSUME NEW a \in DOMAIN ram' PROVE a - D \in Covered(R)
        <5>1. PICK i \in Covered(R) : a = D + i
          BY <3>2
        <5>2. a - D = i
          BY <5>1, <1>n DEF Covered
        <5> QED BY <5>2
      <4> QED BY <4>1, <4>2
    <3>4. /\ (0 .. N - 1) \ Hole \subseteq at /\ at \cap Hole = {}
          /\ at \subseteq 0 .. R - 1
      BY <3>3, <1>f, <1>n DEF Covered
    <3>5. at = {a - wanted'.dram : a \in DOMAIN ram'} /\ N = wanted'.length /\ R = RoundUp(wanted'.length, 2)
      BY <1>a DEF D, N, R
    <3> HIDE DEF at
    <3> QED BY <3>4, <3>5, <1>g DEF AllWritten
  <2> QED BY <2>1, <2>4, <2>5, <1>2, <1>i DEF RomInv, RomCopyRight
<1>4. CASE cur = BlockSize /\ cur < length
  <2>1. length' \in Nat \ {0} /\ length' % 2 = 0
    BY <1>1, <1>2, <1>4
  <2>2. dram' = dram + cur /\ dram' \in Nat /\ dram' % 8 = 0
    <3>1. dram + cur \in Nat /\ (dram + cur) % 8 = 0
      BY <1>1, <1>4, Blocks
    <3> QED BY <3>1, <1>2, RoundedOnly
  <2>3. dram' - D = past + cur /\ dram' >= D + f
    BY <2>2, <1>p, <1>2, <1>n, <1>f
  <2>4. cart' = C + (dram' - D) /\ (dram' - D) + length' = R
    BY <2>3, <1>1, <1>2, <1>p, <1>n
  <2>5. Covered(dram - wanted.dram)' = Covered(past + cur)
    BY <1>g, <2>3, <1>a DEF Covered, D
  <2>6. RomCopyRight'
    BY <2>1, <1>2 DEF RomCopyRight, AllWritten, FinalRegisters
  <2>7. /\ dram' \in Nat /\ dram' % 8 = 0
        /\ dram' >= wanted'.dram + FullFirst(wanted.dram)'
        /\ cart' = wanted'.cart + (dram' - wanted'.dram)
        /\ length' \in Nat /\ length' % 2 = 0 /\ wanted'.length > FullFirst(wanted.dram)'
        /\ (dram' - wanted'.dram) + length' = RoundUp(wanted'.length, 2)
    BY <2>1, <2>2, <2>3, <2>4, <1>1, <1>a DEF D, C, N, f, R
  <2>8. DOMAIN ram' = {wanted'.dram + i : i \in Covered(dram - wanted.dram)'}
    BY <2>5, <1>2, <1>a DEF D
  <2> QED BY <2>6, <2>7, <2>8, <1>2, <1>i DEF RomInv
<1> QED BY <1>2, <1>3, <1>4

\* The copy from ROM leaves in RDRAM the bytes that were asked for but for the hole
\* of the second hardware bug, never shifted, and the registers of the closed form
\* that the model of the DMA engine uses: for every request, cartridge and size of
\* a block.
THEOREM CopyAlwaysRight == RomSpec => []RomCopyRight
<1>1. RomInit => RomInv
  <2> SUFFICES ASSUME RomInit PROVE RomInv
    OBVIOUS
  <2>1. wanted \in [dram : RomDrams, cart : Carts, length : RomLengths]
    BY DEF RomInit
  <2>2. length \in Nat \ {0} /\ DOMAIN ram = {}
    BY <2>1, RomDmaAssumption DEF RomInit
  <2> QED BY <2>1, <2>2 DEF RomInit, RomInv, RomCopyRight, RightByte, AllWritten, FinalRegisters
<1>2. RomInv /\ [RomNext]_romVars => RomInv'
  <2> SUFFICES ASSUME RomInv, [RomNext]_romVars PROVE RomInv'
    OBVIOUS
  <2>1. CASE Block
    <3>1. wanted.dram \in Nat /\ wanted.dram % 2 = 0 /\ wanted.length \in Nat
      BY RomRequest
    <3>2. FullFirst(wanted.dram) \in Nat
      BY <3>1, Misaligned
    <3> QED BY <2>1, <3>1, <3>2, FullFirstBlock, OnlyBlock, LaterKeeps
  <2>2. CASE UNCHANGED romVars
    <3>1. /\ wanted' = wanted /\ dram' = dram /\ cart' = cart /\ length' = length
          /\ first' = first /\ ram' = ram
      BY <2>2 DEF romVars
    <3>2. Hole' = Hole
      BY <3>1 DEF Hole
    <3>3. Covered(dram - wanted.dram)' = Covered(dram - wanted.dram)
      BY <3>1, <3>2 DEF Covered
    <3>4. RomCopyRight'
      BY <3>1, <3>2 DEF RomInv, RomCopyRight, RightByte, AllWritten, FinalRegisters
    <3>5. (~first /\ length > 0)' =>
            /\ dram' \in Nat /\ dram' % 8 = 0 /\ dram' >= wanted'.dram + FullFirst(wanted'.dram)
            /\ cart' = wanted'.cart + (dram' - wanted'.dram)
            /\ length' % 2 = 0 /\ wanted'.length > FullFirst(wanted'.dram)
            /\ (dram' - wanted'.dram) + length' = RoundUp(wanted'.length, 2)
            /\ DOMAIN ram' = {wanted'.dram + i : i \in Covered(dram - wanted.dram)'}
      BY <3>1, <3>3 DEF RomInv
    <3>6. /\ wanted' \in [dram : RomDrams, cart : Carts, length : RomLengths]
          /\ length' \in Nat
          /\ first' => /\ dram' = wanted'.dram /\ cart' = wanted'.cart
                       /\ length' = wanted'.length /\ DOMAIN ram' = {}
      BY <3>1 DEF RomInv
    <3> QED BY <3>4, <3>5, <3>6 DEF RomInv
  <2> QED BY <2>1, <2>2 DEF RomNext, Done
<1>3. RomInv => RomCopyRight
  BY DEF RomInv
<1> QED BY <1>1, <1>2, <1>3, PTL DEF RomSpec

-----------------------------------------------------------------------------
(* The IS-Viewer.                                                          *)

Texts == Seq(IsChars)

\* The part of the text that the guest has written is in the buffer.
Buffered ==
  \A k \in 1 .. Len(istext.text) : k <= istext.at => isv.buffer[k] = istext.text[k]

IsInv ==
  /\ isv \in [buffer : [1 .. IsBytes -> IsChars \cup {NUL}], output : Texts, shown : Texts]
  /\ istext \in [text : Texts, at : Nat] /\ Len(istext.text) <= IsBytes
  /\ isent \in Texts
  /\ Buffered
  /\ IsShown

\* A text of the guest's has no NUL: strlen finds all of it.
LEMMA WholeText ==
  ASSUME NEW t \in Texts PROVE UpToNul(t) = t
<1>1. \A k \in DOMAIN t : t[k] # NUL
  BY IsAssumption DEF Texts
<1> QED BY <1>1 DEF UpToNul

LEMMA BytesTyped == IsBytes \in Nat
BY IsAssumption DEF IsBytes

\* The guest's text is what the buffer begins with.
LEMMA TextTaken ==
  ASSUME IsInv, istext.at >= Len(istext.text)
  PROVE  SubSeq(isv.buffer, 1, Len(istext.text)) = istext.text
<1> DEFINE t == istext.text
           n == Len(t)
           u == SubSeq(isv.buffer, 1, n)
<1>1. t \in Texts /\ n \in Nat /\ n <= IsBytes /\ istext.at \in Nat /\ IsBytes \in Nat
  BY BytesTyped, LenProperties DEF IsInv, Texts
<1>2. \A k \in 1 .. n : isv.buffer[k] = t[k] /\ t[k] \in IsChars
  BY <1>1, ElementOfSeq DEF IsInv, Buffered, Texts
<1>3. u \in Seq(IsChars) /\ Len(u) = n /\ \A i \in 1 .. n : u[i] = isv.buffer[i]
  <2>1. \A i \in 1 .. n : isv.buffer[i] \in IsChars
    BY <1>2
  <2> HIDE DEF n
  <2>2. /\ u \in Seq(IsChars)
        /\ Len(u) = IF 1 <= n THEN n - 1 + 1 ELSE 0
        /\ \A i \in 1 .. n - 1 + 1 : u[i] = isv.buffer[1 + i - 1]
    BY <1>1, <2>1, SubSeqProperties
  <2> QED BY <1>1, <2>2
<1> HIDE DEF u, t
<1>4. \A i \in 1 .. Len(u) : u[i] = t[i]
  BY <1>2, <1>3
<1> QED BY <1>1, <1>3, <1>4, SeqEqual DEF u, t, Texts

LEMMA WriteKeeps ==
  ASSUME IsInv, IsWrite PROVE IsInv'
<1> DEFINE t == istext.text
           char(k) == IF k <= Len(t) THEN t[k] ELSE NUL
           buffer == [k \in DOMAIN isv.buffer |->
                        IF k \in istext.at + 1 .. istext.at + IsWord THEN char(k)
                        ELSE isv.buffer[k]]
<1>1. isv' = [isv EXCEPT !.buffer = buffer] /\ istext' = [istext EXCEPT !.at = @ + IsWord]
      /\ isent' = isent
  BY DEF IsWrite
<1>2. DOMAIN isv.buffer = 1 .. IsBytes /\ istext.at \in Nat /\ IsWord \in Nat /\ IsBytes \in Nat
      /\ t \in Seq(IsChars) /\ Len(t) \in Nat
  BY IsAssumption, BytesTyped, LenProperties DEF IsInv, Texts
<1>3. buffer \in [1 .. IsBytes -> IsChars \cup {NUL}]
  <2> SUFFICES ASSUME NEW k \in 1 .. IsBytes
               PROVE  buffer[k] \in IsChars \cup {NUL}
    BY <1>2
  <2>1. k <= Len(t) => t[k] \in IsChars
    BY <1>2, ElementOfSeq
  <2>2. isv.buffer[k] \in IsChars \cup {NUL}
    BY DEF IsInv
  <2> QED BY <1>2, <2>1, <2>2
<1>4. ASSUME NEW k \in 1 .. Len(t), k <= istext.at + IsWord PROVE buffer[k] = t[k]
  <2>1. k \in 1 .. IsBytes
    BY <1>2 DEF IsInv
  <2>2. k <= istext.at => isv.buffer[k] = t[k]
    BY DEF IsInv, Buffered
  <2> QED BY <1>2, <1>4, <2>1, <2>2
<1> HIDE DEF buffer
<1>5. isv'.buffer = buffer /\ isv'.output = isv.output /\ isv'.shown = isv.shown
      /\ isv' \in [buffer : [1 .. IsBytes -> IsChars \cup {NUL}], output : Texts, shown : Texts]
  BY <1>1, <1>3 DEF IsInv
<1>6. istext'.text = t /\ istext'.at = istext.at + IsWord /\ istext' \in [text : Texts, at : Nat]
  BY <1>1, <1>2 DEF IsInv
<1>7. Buffered'
  BY <1>4, <1>5, <1>6 DEF Buffered
<1>8. IsShown'
  BY <1>1, <1>5 DEF IsInv, IsShown
<1> QED BY <1>1, <1>5, <1>6, <1>7, <1>8 DEF IsInv

LEMMA LengthKeeps ==
  ASSUME IsInv, IsLength PROVE IsInv'
<1> DEFINE t == istext.text
           n == Len(t)
           all == isv.output \o t
           buffer == [k \in DOMAIN isv.buffer |-> IF k <= n THEN NUL ELSE isv.buffer[k]]
<1>1. /\ n > 0 /\ istext.at >= n
      /\ isv' = [IsOutput(isv, SubSeq(isv.buffer, 1, n)) EXCEPT
                   !.buffer = [k \in DOMAIN @ |-> IF k <= n THEN NUL ELSE @[k]]]
      /\ isent' = isent \o t /\ istext' = [text |-> <<>>, at |-> 0]
  BY DEF IsLength
<1>2. SubSeq(isv.buffer, 1, n) = t
  BY <1>1, TextTaken
<1>3. /\ isv \in [buffer : [1 .. IsBytes -> IsChars \cup {NUL}], output : Texts, shown : Texts]
      /\ t \in Texts /\ isent \in Texts
  BY DEF IsInv
<1>4. all \in Texts /\ isv.shown \o all \in Texts /\ isent \o t \in Texts
  BY <1>3, ConcatProperties DEF Texts
<1>5. UpToNul(all) = all
  BY <1>4, WholeText
<1>6. buffer \in [1 .. IsBytes -> IsChars \cup {NUL}]
  BY <1>3
<1>7. isv.shown \o all = isent \o t
  <2> DEFINE a == isv.shown
             b == isv.output
  <2>1. a \in Seq(IsChars) /\ b \in Seq(IsChars) /\ t \in Seq(IsChars)
    BY <1>3 DEF Texts
  <2> HIDE DEF a, b, t
  <2>2. (a \o b) \o t = a \o (b \o t)
    BY <2>1, ConcatAssociative
  <2> QED BY <2>2 DEF a, b, IsInv, IsShown
<1>8. <<>> \in Texts /\ Len(<<>>) = 0 /\ ~ HasLine(<<>>)
  BY EmptySeq DEF Texts, HasLine
<1> HIDE DEF all, t, n
<1>9. /\ isv'.buffer = buffer
      /\ isv' \in [buffer : [1 .. IsBytes -> IsChars \cup {NUL}], output : Texts, shown : Texts]
      /\ HasLine(all) => isv'.shown = isv.shown \o all /\ isv'.output = <<>>
      /\ ~ HasLine(all) => isv'.shown = isv.shown /\ isv'.output = all
  <2>1. CASE HasLine(all)
    <3>1. IsOutput(isv, t) = [isv EXCEPT !.shown = isv.shown \o all, !.output = <<>>]
      BY <1>5, <2>1 DEF IsOutput, all
    <3>2. isv' = [isv EXCEPT !.shown = isv.shown \o all, !.output = <<>>, !.buffer = buffer]
      BY <1>1, <1>2, <1>3, <3>1 DEF t, n
    <3> HIDE DEF buffer
    <3> QED BY <1>3, <1>4, <1>6, <1>8, <2>1, <3>2
  <2>2. CASE ~ HasLine(all)
    <3>1. IsOutput(isv, t) = [isv EXCEPT !.output = all]
      BY <2>2 DEF IsOutput, all
    <3>2. isv' = [isv EXCEPT !.output = all, !.buffer = buffer]
      BY <1>1, <1>2, <1>3, <3>1 DEF t, n
    <3> HIDE DEF buffer
    <3> QED BY <1>3, <1>4, <1>6, <2>2, <3>2
  <2> QED BY <2>1, <2>2
<1> HIDE DEF buffer
<1>10. IsShown'
  <2>1. CASE HasLine(all)
    <3>1. isv'.shown \o isv'.output = isv.shown \o all
      BY <1>4, <1>9, <2>1, ConcatEmptySeq DEF Texts
    <3> QED BY <1>1, <1>7, <1>8, <1>9, <2>1, <3>1 DEF IsShown
  <2>2. CASE ~ HasLine(all)
    BY <1>1, <1>7, <1>9, <2>2 DEF IsShown
  <2> QED BY <2>1, <2>2
<1>11. istext' \in [text : Texts, at : Nat] /\ istext'.text = <<>> /\ istext'.at = 0
  BY <1>1, <1>8
<1>12. Len(istext'.text) <= IsBytes
  BY <1>8, <1>11, BytesTyped
<1>13. Buffered'
  BY <1>8, <1>11 DEF Buffered
<1> QED BY <1>1, <1>4, <1>9, <1>10, <1>11, <1>12, <1>13 DEF IsInv, t

\* What the guest writes to the IS-Viewer (is_viewer_output of pi/is_viewer.c) is
\* shown whole and in order, for every size of the buffer and every text: nothing
\* of a text is left in the buffer, doubled or cut, and no whole line waits.
THEOREM IsAlwaysShown ==
  IsSpec => []IsShown
<1>1. IsInit => IsInv
  <2> SUFFICES ASSUME IsInit PROVE IsInv
    OBVIOUS
  <2>1. <<>> \in Texts /\ Len(<<>>) = 0 /\ ~ HasLine(<<>>) /\ <<>> \o <<>> = <<>>
    BY EmptySeq, ConcatEmptySeq DEF Texts, HasLine
  <2>2. /\ isv.output = <<>> /\ isv.shown = <<>> /\ isent = <<>>
        /\ istext.text = <<>> /\ istext.at = 0
        /\ isv \in [buffer : [1 .. IsBytes -> IsChars \cup {NUL}], output : Texts, shown : Texts]
        /\ istext \in [text : Texts, at : Nat]
    BY <2>1 DEF IsInit
  <2> QED BY <2>1, <2>2, BytesTyped DEF IsInv, Buffered, IsShown
<1>2. IsInv /\ [IsNext]_isVars => IsInv'
  <2> SUFFICES ASSUME IsInv, [IsNext]_isVars PROVE IsInv'
    OBVIOUS
  <2>1. CASE IsBegin
    <3>1. PICK n \in 1 .. IsBytes : \E t \in [1 .. n -> IsChars] : istext' = [text |-> t, at |-> 0]
      BY <2>1 DEF IsBegin
    <3>2. PICK t \in [1 .. n -> IsChars] : istext' = [text |-> t, at |-> 0]
      BY <3>1
    <3>3. n \in Nat /\ IsBytes \in Nat /\ n <= IsBytes
      BY <3>1, BytesTyped
    <3>4. t \in Texts /\ Len(t) = n
      BY <3>3 DEF Texts
    <3>5. istext' \in [text : Texts, at : Nat] /\ istext'.text = t /\ istext'.at = 0
      BY <3>2, <3>4
    <3>6. isv' = isv /\ isent' = isent
      BY <2>1 DEF IsBegin
    <3>7. Buffered'
      BY <3>3, <3>4, <3>5 DEF Buffered
    <3> QED BY <3>3, <3>4, <3>5, <3>6, <3>7 DEF IsInv, IsShown
  <2>2. CASE IsWrite
    BY <2>2, WriteKeeps
  <2>3. CASE IsLength
    BY <2>3, LengthKeeps
  <2>4. CASE UNCHANGED isVars
    BY <2>4 DEF isVars, IsInv, Buffered, IsShown
  <2> QED BY <2>1, <2>2, <2>3, <2>4 DEF IsNext
<1>3. IsInv => IsShown
  BY DEF IsInv
<1> QED BY <1>1, <1>2, <1>3, PTL DEF IsSpec
============================================================================
