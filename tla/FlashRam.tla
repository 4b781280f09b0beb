-------------------------------- MODULE FlashRam --------------------------------
(***************************************************************************)
(* The flash chip of a cartridge: write_flashram, and the parts of         *)
(* pi_dma_read and pi_dma_write for its area in pi/controller.c, under a   *)
(* guest that erases, programs and reads pages by the usual sequences of   *)
(* commands, and does not stick to one job when an NMI comes between.      *)
(*                                                                         *)
(* A page is FlashPage bytes of a few; in the cartridge's address space    *)
(* the chip is half as long, an address for every second byte.             *)
(***************************************************************************)
EXTENDS Integers, Sequences

CONSTANTS
  FlashPage,     \* 128: bytes in a page
  FlashPages,    \* 1024: pages
  FlashBuffers,  \* buffers of a page in RDRAM
  FlashBytes,    \* what the guest writes into its buffers
  FlashReuses    \* may the guest refill a buffer before the page is programmed

ASSUME FlashAssumption ==
  /\ FlashPage \in Nat \ {0} /\ FlashPage % 2 = 0
  /\ {FlashPages, FlashBuffers} \subseteq Nat \ {0}
  /\ FlashBytes \subseteq Nat
  /\ FlashReuses \in BOOLEAN

VARIABLES
  flash,     \* struct flashram
  fram,      \* the buffers in RDRAM, byte by byte
  fjob,      \* the commands that the guest has still to give
  fpages,    \* history: the chip as the guest knows it
  fgot       \* history: the last answer of the chip, and what it should be

flashVars == <<flash, fram, fjob, fpages, fgot>>

PageNumbers == 0 .. FlashPages - 1
BufferNumbers == 0 .. FlashBuffers - 1
Blank == 255
PageStart(p) == p * FlashPage
BytesFrom(f, at, n) == [k \in 0 .. n - 1 |-> f[at + k]]
Overwritten(f, at, bytes) ==
  [k \in DOMAIN f |-> IF k - at \in DOMAIN bytes THEN bytes[k - at] ELSE f[k]]

Cmd(op, arg) == [op |-> op, arg |-> arg]

\* The jobs, as the commands they consist of.
Erase(p) == <<Cmd("SetErase", p), Cmd("Erase", 0), Cmd("Execute", <<"blank", p>>)>>
Program(p, b) == <<Cmd("Write", 0), Cmd("DmaRead", b), Cmd("SetWrite", p), Cmd("Execute", <<"loaded", p>>)>>
ReadPage(p, b) == <<Cmd("Read", 0), Cmd("DmaWrite", <<p, b>>)>>
ReadStatus(b) == <<Cmd("Status", 0), Cmd("DmaStatus", b)>>
FlashJobs ==
  {Erase(p) : p \in PageNumbers} \cup {Program(p, b) : p \in PageNumbers, b \in BufferNumbers}
  \cup {ReadPage(p, b) : p \in PageNumbers, b \in BufferNumbers} \cup {ReadStatus(b) : b \in BufferNumbers}

FlashInit ==
  /\ flash = [data |-> [k \in 0 .. PageStart(FlashPages) - 1 |-> Blank],
              mode |-> "idle", status |-> "none", offset |-> 0, rdram_pointer |-> 0]
  /\ fram = [k \in 0 .. PageStart(FlashBuffers) - 1 |-> 0]
  /\ fjob = <<>>
  /\ fpages = [page |-> [p \in PageNumbers |-> [k \in 0 .. FlashPage - 1 |-> Blank]],
               loaded |-> [k \in 0 .. FlashPage - 1 |-> 0]]
  /\ fgot = [answer |-> "none", right |-> "none"]

-----------------------------------------------------------------------------
(***************************************************************************)
(* write_flashram.                                                         *)
(***************************************************************************)
\* Mutant of Executed: a page is programmed where the pointer of the DMA says.
ExecutedAt(f) ==
  CASE f.mode = "erase" -> [k \in 0 .. FlashPage - 1 |-> Blank]
    [] f.mode = "write" -> BytesFrom(fram, 0, FlashPage)
    [] OTHER -> <<>>

\* What the execute command puts into the page, by mode.
Executed(f) ==
  CASE f.mode = "erase" -> [k \in 0 .. FlashPage - 1 |-> Blank]
    [] f.mode = "write" -> BytesFrom(fram, f.rdram_pointer, FlashPage)
    [] OTHER -> <<>>

write_flashram(f, c) ==
  CASE c.op = "SetErase" -> [f EXCEPT !.offset = PageStart(c.arg)]
    [] c.op = "SetWrite" -> [f EXCEPT !.offset = PageStart(c.arg), !.status = "writing"]
    [] c.op = "Erase" -> [f EXCEPT !.mode = "erase", !.status = "erasing"]
    [] c.op = "Write" -> [f EXCEPT !.mode = "write"]
    [] c.op = "Execute" -> [f EXCEPT !.data = Overwritten(@, f.offset, Executed(f))]
    [] c.op = "Status" -> [f EXCEPT !.mode = "status", !.status = "ready"]
    [] c.op = "Read" -> [f EXCEPT !.mode = "read", !.status = "reading"]

\* pi_dma_write: n bytes from the cartridge's address, or the status.
FlashDmaWrite(f, source, n) ==
  CASE f.mode = "status" -> f.status
    [] f.mode = "read" -> BytesFrom(f.data, source * 2, n)
    [] OTHER -> "none"

\* pi_dma_read: only the address is noted.
FlashDmaRead(f, source) == IF f.mode = "write" THEN [f EXCEPT !.rdram_pointer = source] ELSE f

-----------------------------------------------------------------------------
(***************************************************************************)
(* The guest.                                                              *)
(***************************************************************************)
FlashStart ==
  /\ fjob = <<>>
  /\ fjob' \in FlashJobs
  /\ fgot' = [answer |-> "none", right |-> "none"]
  /\ UNCHANGED <<flash, fram, fpages>>

\* A reset of the console drops the job; the chip keeps its mode.
FlashDrop ==
  /\ fjob # <<>> /\ Head(fjob).op # "Execute"
  /\ fjob' = <<>>
  /\ UNCHANGED <<flash, fram, fpages, fgot>>

FlashCommand ==
  LET c == Head(fjob) IN
  /\ fjob # <<>> /\ c.op \notin {"DmaRead", "DmaWrite", "DmaStatus"}
  /\ flash' = write_flashram(flash, c)
  /\ fpages' = IF c.op = "Execute"
               THEN [fpages EXCEPT !.page[c.arg[2]] =
                              IF c.arg[1] = "blank" THEN [k \in DOMAIN @ |-> Blank] ELSE fpages.loaded]
               ELSE fpages
  /\ fjob' = Tail(fjob)
  /\ UNCHANGED <<fram, fgot>>

FlashDma ==
  LET c == Head(fjob) IN
  /\ fjob # <<>> /\ fjob' = Tail(fjob)
  /\ CASE c.op = "DmaRead" ->
            /\ flash' = FlashDmaRead(flash, PageStart(c.arg))
            /\ fpages' = [fpages EXCEPT !.loaded = BytesFrom(fram, PageStart(c.arg), FlashPage)]
            /\ UNCHANGED <<fram, fgot>>
       [] c.op = "DmaWrite" ->
            LET got == FlashDmaWrite(flash, PageStart(c.arg[1]) \div 2, FlashPage) IN
            /\ fram' = Overwritten(fram, PageStart(c.arg[2]), got)
            /\ fgot' = [answer |-> BytesFrom(fram', PageStart(c.arg[2]), FlashPage), right |-> fpages.page[c.arg[1]]]
            /\ UNCHANGED <<flash, fpages>>
       [] c.op = "DmaStatus" ->
            /\ fgot' = [answer |-> FlashDmaWrite(flash, 0, 8), right |-> "ready"]
            /\ UNCHANGED <<flash, fpages, fram>>
       [] OTHER -> FALSE

\* The guest fills a buffer.
FlashFill ==
  /\ FlashReuses \/ fjob = <<>>
  /\ \E b \in BufferNumbers, x \in FlashBytes :
       fram' = Overwritten(fram, PageStart(b), [k \in 0 .. FlashPage - 1 |-> (x + k) % 256])
  /\ fgot' = [answer |-> "none", right |-> "none"]
  /\ UNCHANGED <<flash, fjob, fpages>>

FlashNext == FlashStart \/ FlashDrop \/ FlashCommand \/ FlashDma \/ FlashFill

FlashSpec == FlashInit /\ [][FlashNext]_flashVars

-----------------------------------------------------------------------------
\* Every page holds what was last erased or programmed into it: the data is that
\* of the buffer at the time of its DMA, though the code copies it from RDRAM
\* only when the execute command comes, by an address that it has kept.
FlashHolds ==
  \A p \in PageNumbers : BytesFrom(flash.data, PageStart(p), FlashPage) = fpages.page[p]

\* A read gives the page it asks for, and the status that of the chip, also
\* after a job that was dropped halfway has left another mode behind.
FlashAnswers == fgot.answer = fgot.right

\* The chip keeps what was programmed, and tells it.
FlashRight == FlashHolds /\ FlashAnswers
=============================================================================
